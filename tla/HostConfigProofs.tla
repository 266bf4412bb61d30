-------------------------- MODULE HostConfigProofs --------------------------
(* Proofs about HostConfig, for any commands, releases, tiers and limits,  *)
(* and any number of operations, edits, failures and dying processes.      *)
EXTENDS HostConfig, SequenceTheorems, TLAPS

USE HostConfigAssumption

Disks ==
    {d \in [Files -> Versions \cup {Absent} \cup CodexText \cup AgentsText
                     \cup Settings] :
        /\ d["binary"] \in Versions \cup {Absent}
        /\ d["codex"] \in CodexText \cup {Absent}
        /\ d["agents"] \in AgentsText \cup {Absent}
        /\ d["settings"] \in Settings \cup {Absent}}
Users == [codex : CodexText \cup {Absent}, agents : AgentsText \cup {Absent},
          dir : BOOLEAN]
Bounds == [ops : Nat, beside : Nat, upsets : Nat]
Process ==
    [pc : Phases, op : {"none", "apply", "unapply", "sync", "preferences"},
     plan : Disks \cup {<<>>}, old : Disks \cup {<<>>}, changes : Seq(Files),
     index : Nat, madeDir : BOOLEAN, removesDir : BOOLEAN, unclean : BOOLEAN,
     carries : SUBSET Files]

(* A list names every file of a set, and each of them once.                *)
Lists(s, want) ==
    /\ s \in Seq(Files)
    /\ \A i \in 1..Len(s) : s[i] \in want
    /\ \A f \in want : \E i \in 1..Len(s) : s[i] = f
    /\ \A i, j \in 1..Len(s) : s[i] = s[j] => i = j
EndsWith(s, f) == \A i, j \in 1..Len(s) : s[i] # f /\ s[j] = f => i < j
Grows(s, v, f) ==
    \A i \in 1..Len(v) : v[i] = f \/ (i \in 1..Len(s) /\ v[i] = s[i])
(* Unapply gives the receipt up after the files that it accounts for, and  *)
(* the binary last.                                                        *)
InTurn(s) ==
    /\ EndsWith(s, "binary")
    /\ \A i, j \in 1..Len(s) : s[i] \in Owned /\ s[j] = "settings" => i < j
Differing(r) == {f \in Files : r.plan[f] # r.old[f]}

(* The plan of an operation is made from one reading of the files.         *)
MadeFrom(r) ==
    \/ /\ r.op = "apply"
       /\ \E version \in Versions, tier \in Tiers, dir \in BOOLEAN :
             r.plan = PlanApply(r.old, dir, version, tier, "new")
    \/ /\ r.op = "unapply" /\ r.plan = PlanUnapply(r.old)
       /\ r.removesDir = (Applied(r.old) # Absent
                            /\ Applied(r.old).dirCreated)
    \/ /\ r.op = "sync" /\ CanSyncBinary(r.old)
       /\ \E version \in Versions : r.plan = PlanSyncBinary(r.old, version)
    \/ /\ r.op = "sync" /\ CanSyncGuidance(r.old)
       /\ r.plan = PlanSyncGuidance(r.old)
    \/ /\ r.op = "preferences"
       /\ r.plan = [f \in Files |->
                IF f = "settings"
                THEN [OrElse(r.old[f], DefaultSettings) EXCEPT !.pref = 1 - @]
                ELSE r.old[f]]

Turning == {"compare", "replace", "recheck", "restore"}
Planned(r) ==
    r.pc # "idle" =>
       /\ r.old \in Disks /\ r.plan \in Disks /\ MadeFrom(r)
       /\ Lists(r.changes, Differing(r))
       /\ r.op = "unapply" => InTurn(r.changes)
Placed(r) == /\ r.index \in 0..Len(r.changes)
             /\ r.pc \in Turning => r.index > 0
             /\ r.pc = "idle" => r.changes = <<>>
ProcOK(r) == r \in Process /\ Planned(r) /\ Placed(r)

Typing == /\ disk \in Disks /\ codexDir \in BOOLEAN /\ user \in Users
          /\ spent \in Bounds
          /\ DOMAIN proc = Procs /\ proc = [p \in Procs |-> proc[p]]
          /\ \A p \in Procs : ProcOK(proc[p])
-----------------------------------------------------------------------------
(* Contents                                                                *)

LEMMA Kinds ==
    ASSUME NEW d \in Disks
    PROVE  /\ OrElse(d["codex"], NoCodex) \in CodexText
           /\ OrElse(d["agents"], NoAgents) \in AgentsText
           /\ OrElse(d["settings"], DefaultSettings) \in Settings
           /\ Applied(d) \in Record \cup {Absent}
<1>1. NoCodex \in CodexText
  BY DEF NoCodex, CodexText, Limits
<1>2. NoAgents \in AgentsText
  BY DEF NoAgents, AgentsText
<1>3. DefaultSettings \in Settings
  BY DEF DefaultSettings, Settings
<1>4. ASSUME d["settings"] \in Settings PROVE d["settings"].applied \in Record \cup {Absent}
  BY <1>4 DEF Settings
<1>. QED  BY <1>1, <1>2, <1>3, <1>4 DEF Disks, OrElse, Applied

LEMMA CodexKinds ==
    ASSUME NEW c \in CodexText \cup {Absent}, NEW tier \in {0} \cup Tiers,
           NEW restore \in BOOLEAN, NEW previous \in Limits
    PROVE  /\ CodexApply(c, tier) \in CodexText
           /\ CodexApply(c, tier).text = OrElse(c, NoCodex).text
           /\ CodexApply(c, tier).server = tier
           /\ CodexApply(c, tier).limit = tier
           /\ CodexUnapply(c, restore, previous) \in CodexText
           /\ CodexUnapply(c, restore, previous).text = OrElse(c, NoCodex).text
           /\ CodexUnapply(c, restore, previous).server = 0
           /\ CodexUnapply(c, restore, previous).limit =
                 IF restore THEN previous ELSE OrElse(c, NoCodex).limit
<1>1. NoCodex \in CodexText
  BY DEF NoCodex, CodexText, Limits
<1>2. OrElse(c, NoCodex) \in CodexText
  BY <1>1 DEF OrElse
<1> DEFINE e == OrElse(c, NoCodex)
<1> HIDE DEF e
<1>3. ASSUME NEW x \in {0} \cup Tiers, NEW y \in Limits
      PROVE  LET n == [e EXCEPT !.server = x, !.limit = y]
             IN  n \in CodexText /\ n.text = e.text /\ n.server = x /\ n.limit = y
  BY <1>2 DEF CodexText, e
<1>4. e.limit \in Limits
  BY <1>2 DEF CodexText, e
<1>5. tier \in {0} \cup Tiers /\ tier \in Limits /\ 0 \in {0} \cup Tiers
  BY DEF Limits
<1>6. CodexApply(c, tier) = [e EXCEPT !.server = tier, !.limit = tier]
  BY DEF CodexApply, e
<1>7. CodexUnapply(c, restore, previous) =
         [e EXCEPT !.server = 0, !.limit = IF restore THEN previous ELSE e.limit]
  BY DEF CodexUnapply, e
<1>8. (IF restore THEN previous ELSE e.limit) \in Limits
  BY <1>4
<1>9. /\ CodexApply(c, tier) \in CodexText
      /\ CodexApply(c, tier).text = e.text
      /\ CodexApply(c, tier).server = tier
      /\ CodexApply(c, tier).limit = tier
  <2>1. LET n == [e EXCEPT !.server = tier, !.limit = tier]
        IN  n \in CodexText /\ n.text = e.text /\ n.server = tier /\ n.limit = tier
    BY <1>3, <1>5
  <2>. QED  BY <1>6, <2>1
<1> DEFINE l == IF restore THEN previous ELSE e.limit
<1>10. l \in Limits
  BY <1>8
<1> HIDE DEF l
<1>11. LET n == [e EXCEPT !.server = 0, !.limit = l]
       IN  n \in CodexText /\ n.text = e.text /\ n.server = 0 /\ n.limit = l
  BY <1>3, <1>5, <1>10
<1>12. CodexUnapply(c, restore, previous) = [e EXCEPT !.server = 0, !.limit = l]
  BY <1>7 DEF l
<1>. QED  BY <1>9, <1>11, <1>12 DEF e, l

LEMMA AgentsKinds ==
    ASSUME NEW a \in AgentsText, NEW section \in {"old", "new"}, NEW owns \in BOOLEAN
    PROVE  /\ InsertsSeparator(a) \in BOOLEAN
           /\ AgentsApply(a, section) \in AgentsText
           /\ AgentsApply(a, section).text = a.text
           /\ AgentsApply(a, section).section = section
           /\ AgentsApply(a, section).sep = (a.sep \/ InsertsSeparator(a))
           /\ AgentsRemove(a, owns) \in AgentsText
           /\ AgentsRemove(a, owns).text = a.text
           /\ AgentsRemove(a, owns).section = "none"
           /\ AgentsRemove(a, owns).sep =
                 (a.sep /\ (a.section = "none" \/ ~owns))
<1>1. a.text \in Nat /\ a.sep \in BOOLEAN /\ a.section \in {"none", "old", "new"}
  BY DEF AgentsText
<1>2. InsertsSeparator(a) \in BOOLEAN
  BY DEF InsertsSeparator
<1>3. ASSUME NEW x \in {"none", "old", "new"}, NEW y \in BOOLEAN
      PROVE  LET n == [a EXCEPT !.section = x, !.sep = y]
             IN  n \in AgentsText /\ n.text = a.text /\ n.section = x /\ n.sep = y
  BY DEF AgentsText
<1>4. AgentsApply(a, section) =
         [a EXCEPT !.section = section, !.sep = a.sep \/ InsertsSeparator(a)]
  BY DEF AgentsApply
<1>5. (a.sep \/ InsertsSeparator(a)) \in BOOLEAN /\ (a.sep /\ ~owns) \in BOOLEAN
  BY <1>1, <1>2
<1>6. ASSUME a.section # "none"
      PROVE  AgentsRemove(a, owns) =
                [a EXCEPT !.section = "none", !.sep = a.sep /\ ~owns]
  BY <1>6 DEF AgentsRemove
<1>7. ASSUME a.section = "none" PROVE AgentsRemove(a, owns) = a
  BY <1>7 DEF AgentsRemove
<1>8. /\ AgentsApply(a, section) \in AgentsText
      /\ AgentsApply(a, section).text = a.text
      /\ AgentsApply(a, section).section = section
      /\ AgentsApply(a, section).sep = (a.sep \/ InsertsSeparator(a))
  <2> DEFINE b == a.sep \/ InsertsSeparator(a)
  <2>1. b \in BOOLEAN
    BY <1>5
  <2>2. AgentsApply(a, section) = [a EXCEPT !.section = section, !.sep = b]
    BY <1>4
  <2> HIDE DEF b
  <2>3. LET n == [a EXCEPT !.section = section, !.sep = b]
        IN  n \in AgentsText /\ n.text = a.text /\ n.section = section /\ n.sep = b
    BY <1>3, <2>1
  <2>4. /\ AgentsApply(a, section) \in AgentsText
        /\ AgentsApply(a, section).text = a.text
        /\ AgentsApply(a, section).section = section
        /\ AgentsApply(a, section).sep = b
    BY <2>2, <2>3
  <2>. QED  BY Zenon, <2>4 DEF b
<1>9. /\ AgentsRemove(a, owns) \in AgentsText
      /\ AgentsRemove(a, owns).text = a.text
      /\ AgentsRemove(a, owns).section = "none"
      /\ AgentsRemove(a, owns).sep = (a.sep /\ (a.section = "none" \/ ~owns))
  <2>1. CASE a.section = "none"
    BY <1>1, <1>7, <2>1
  <2>2. CASE a.section # "none"
    <3>1. LET n == [a EXCEPT !.section = "none", !.sep = a.sep /\ ~owns]
          IN  n \in AgentsText /\ n.text = a.text /\ n.section = "none" /\ n.sep = (a.sep /\ ~owns)
      BY <1>3, <1>5
    <3>. QED  BY <1>6, <2>2, <3>1
  <2>. QED  BY <2>1, <2>2
<1>. QED  BY <1>2, <1>8, <1>9

(* Lists of files                                                          *)
LEMMA ListsMore ==
    ASSUME NEW want \in SUBSET Files, NEW s, Lists(s, want),
           NEW f \in Files \ want, NEW stays \in BOOLEAN, NEW t,
           t = IF stays THEN <<>> ELSE <<f>>
    PROVE  /\ Lists(s \o t, want \cup (IF stays THEN {} ELSE {f}))
           /\ EndsWith(s \o t, f)
           /\ Grows(s, s \o t, f)
<1>1. s \in Seq(Files)
  BY DEF Lists
<1>2. CASE stays
  <2>1. s \o t = s
    BY <1>1, <1>2, ConcatEmptySeq
  <2>2. \A j \in 1..Len(s) : s[j] # f
    BY DEF Lists
  <2>3. want \cup (IF stays THEN {} ELSE {f}) = want
    BY <1>2
  <2>. QED  BY <2>1, <2>2, <2>3 DEF EndsWith, Grows
<1>3. CASE ~stays
  <2>0. t = <<f>> /\ t \in Seq(Files) /\ Len(t) = 1 /\ t[1] = f
    BY <1>3
  <2> DEFINE n == Len(s)
             v == s \o t
             w == want \cup (IF stays THEN {} ELSE {f})
  <2>1. n \in Nat /\ v \in Seq(Files) /\ Len(v) = n + 1
    BY <1>1, <2>0, ConcatProperties
  <2>2. /\ \A i \in 1..n : v[i] = s[i]
        /\ v[n + 1] = f
    BY <1>1, <2>0, <2>1, ConcatProperties
  <2>3. w = want \cup {f}
    BY <1>3
  <2>4. \A i \in 1..n : v[i] \in want
    BY <2>2 DEF Lists
  <2> HIDE DEF v, w
  <2>5. \A i \in 1..(n + 1) : i \in 1..n \/ i = n + 1
    BY <2>1
  <2>6. \A i \in 1..Len(v) : v[i] \in w
    BY <2>1, <2>2, <2>3, <2>4, <2>5
  <2>7. \A g \in w : \E i \in 1..Len(v) : v[i] = g
    <3> TAKE g \in w
    <3>1. CASE g = f
      BY <2>1, <2>2, <3>1
    <3>2. CASE g \in want
      <4>1. PICK i \in 1..n : s[i] = g
        BY <3>2 DEF Lists
      <4>. QED  BY <2>1, <2>2, <4>1
    <3>. QED  BY <2>3, <3>1, <3>2
  <2>8. \A i, j \in 1..Len(v) : v[i] = v[j] => i = j
    <3>1. \A i, j \in 1..n : v[i] = v[j] => i = j
      BY <2>2 DEF Lists
    <3>2. \A i \in 1..n : v[i] # f
      BY <2>4
    <3>. QED  BY <2>1, <2>2, <2>5, <3>1, <3>2
  <2>9. \A i, j \in 1..Len(v) : v[i] # f /\ v[j] = f => i < j
    <3>1. \A i \in 1..n : v[i] # f
      BY <2>4
    <3>. QED  BY <2>1, <2>2, <2>5, <3>1
  <2>10. \A i \in 1..Len(v) : v[i] = f \/ (i \in 1..n /\ v[i] = s[i])
    BY <2>1, <2>2, <2>5
  <2>. QED  BY <2>1, <2>6, <2>7, <2>8, <2>9, <2>10 DEF Lists, EndsWith, Grows, v, w
<1>. QED  BY <1>2, <1>3

LEMMA ChangedLists ==
    ASSUME NEW op, NEW plan, NEW d
    PROVE  LET s == Changed(op, plan, d) IN
           /\ Lists(s, {f \in Files : plan[f] # d[f]})
           /\ op = "unapply" => InTurn(s)
<1> DEFINE o == OrderOf(op)
           same(f) == plan[f] = d[f]
           t(f) == IF same(f) THEN <<>> ELSE <<f>>
           more(f) == IF same(f) THEN {} ELSE {f}
<1>1. Changed(op, plan, d) = t(o[1]) \o t(o[2]) \o t(o[3]) \o t(o[4])
  BY DEF Changed
<1>2. /\ o[1] \in Files /\ o[2] \in Files \ {o[1]} /\ o[3] \in Files \ {o[1], o[2]}
      /\ o[4] \in Files \ {o[1], o[2], o[3]} /\ Files = {o[1], o[2], o[3], o[4]}
      /\ op = "unapply" => o[3] = "settings" /\ o[4] = "binary"
  BY DEF OrderOf, Files
<1> HIDE DEF o
<1> DEFINE s1 == t(o[1])
           w1 == more(o[1])
           s2 == s1 \o t(o[2])
           w2 == w1 \cup more(o[2])
           s3 == s2 \o t(o[3])
           w3 == w2 \cup more(o[3])
           s4 == s3 \o t(o[4])
           w4 == w3 \cup more(o[4])
<1>3. Lists(s1, w1)
  <2>1. CASE same(o[1])
    BY <2>1 DEF Lists
  <2>2. CASE ~same(o[1])
    BY <1>2, <2>2 DEF Lists
  <2>. QED  BY <2>1, <2>2
<1>4. \A f : same(f) \in BOOLEAN
  OBVIOUS
<1>5. w1 \in SUBSET Files /\ w1 \subseteq {o[1]}
  BY <1>2
<1>6. w2 \in SUBSET Files /\ w2 \subseteq {o[1], o[2]}
  BY <1>2
<1>7. w3 \in SUBSET Files /\ w3 \subseteq {o[1], o[2], o[3]}
  BY <1>2
<1>8. w4 = {f \in Files : plan[f] # d[f]}
  BY <1>2
<1> HIDE DEF s1, w1
<1>9. Lists(s2, w2)
  <2>1. o[2] \in Files \ w1
    BY <1>2, <1>5
  <2>2. t(o[2]) = IF same(o[2]) THEN <<>> ELSE <<o[2]>>
    OBVIOUS
  <2> HIDE DEF t, same
  <2>. QED  BY <1>3, <1>4, <1>5, <2>1, <2>2, ListsMore
<1> HIDE DEF s2, w2
<1>10. Lists(s3, w3) /\ EndsWith(s3, o[3])
  <2>1. o[3] \in Files \ w2
    BY <1>2, <1>6
  <2>2. t(o[3]) = IF same(o[3]) THEN <<>> ELSE <<o[3]>>
    OBVIOUS
  <2> DEFINE b == same(o[3])
             tail == t(o[3])
             f == o[3]
  <2>3. b \in BOOLEAN /\ tail = IF b THEN <<>> ELSE <<f>>
    OBVIOUS
  <2> HIDE DEF t, same, b, tail, f
  <2>4. /\ Lists(s2 \o tail, w2 \cup (IF b THEN {} ELSE {f}))
        /\ EndsWith(s2 \o tail, f)
    <3>1. f \in Files \ w2
      BY <2>1 DEF f
    <3>. QED  BY <1>6, <1>9, <2>3, <3>1, ListsMore
  <2>. QED  BY <2>4 DEF b, tail, f
<1> HIDE DEF s3, w3
<1>11. /\ Lists(s4, w4) /\ EndsWith(s4, o[4])
       /\ Grows(s3, s4, o[4])
  <2>1. o[4] \in Files \ w3
    BY <1>2, <1>7
  <2>2. t(o[4]) = IF same(o[4]) THEN <<>> ELSE <<o[4]>>
    OBVIOUS
  <2> DEFINE b == same(o[4])
             tail == t(o[4])
             f == o[4]
  <2>3. b \in BOOLEAN /\ tail = IF b THEN <<>> ELSE <<f>>
    OBVIOUS
  <2> HIDE DEF t, same, b, tail, f
  <2>4. /\ Lists(s3 \o tail, w3 \cup (IF b THEN {} ELSE {f}))
        /\ EndsWith(s3 \o tail, f)
        /\ Grows(s3, s3 \o tail, f)
    <3>1. f \in Files \ w3
      BY <2>1 DEF f
    <3>. QED  BY <1>7, <1>10, <2>3, <3>1, ListsMore
  <2>. QED  BY <2>4 DEF b, tail, f
<1>12. Changed(op, plan, d) = s4
  BY <1>1 DEF s1, s2, s3
<1> HIDE DEF s4, w4
<1>13. ASSUME op = "unapply" PROVE InTurn(s4)
  <2>1. EndsWith(s4, "binary") /\ EndsWith(s3, "settings")
        /\ \A i \in 1..Len(s4) : s4[i] = "binary" \/ (i \in 1..Len(s3) /\ s4[i] = s3[i])
    BY <1>2, <1>10, <1>11, <1>13 DEF Grows
  <2>2. ASSUME NEW i \in 1..Len(s4), NEW j \in 1..Len(s4), s4[i] \in Owned, s4[j] = "settings"
        PROVE  i < j
    <3>1. /\ i \in 1..Len(s3) /\ s3[i] # "settings"
          /\ j \in 1..Len(s3) /\ s3[j] = "settings"
      BY <2>1, <2>2 DEF Owned
    <3>. QED  BY <2>1, <3>1 DEF EndsWith
  <2>. QED  BY <2>1, <2>2 DEF InTurn
<1>. QED  BY <1>8, <1>11, <1>12, <1>13

-----------------------------------------------------------------------------
(* Plans                                                                   *)

LEMMA ReceiptKinds ==
    ASSUME NEW d \in Disks, NEW dir \in BOOLEAN, NEW version \in Versions,
           NEW tier \in Tiers, NEW section \in {"old", "new"}
    PROVE  LET receipt == Receipt(d, dir, version, tier, section)
               record == Applied(d)
               agents == OrElse(d["agents"], NoAgents)
           IN  /\ receipt \in Record
               /\ receipt.version = version /\ receipt.limit = tier
               /\ receipt.binary = version
               /\ receipt.agentsHash = AgentsApply(agents, section)
               /\ receipt.sep = (SeparatorOwned(d) \/ InsertsSeparator(agents))
               /\ record = Absent =>
                     /\ receipt.previous = OrElse(d["codex"], NoCodex).limit
                     /\ receipt.codexExisted = (d["codex"] # Absent)
                     /\ receipt.agentsExisted = (d["agents"] # Absent)
                     /\ receipt.dirCreated = ~dir
               /\ record # Absent =>
                     /\ receipt.previous = record.previous
                     /\ receipt.codexExisted = record.codexExisted
                     /\ receipt.agentsExisted = record.agentsExisted
                     /\ receipt.dirCreated = (~dir \/ record.dirCreated)
<1> DEFINE record == Applied(d)
           first == record = Absent
           agents == OrElse(d["agents"], NoAgents)
           v1 == IF first THEN OrElse(d["codex"], NoCodex).limit ELSE record.previous
           v2 == IF first THEN d["codex"] # Absent ELSE record.codexExisted
           v3 == IF first THEN d["agents"] # Absent ELSE record.agentsExisted
           v4 == AgentsApply(agents, section)
           v5 == SeparatorOwned(d) \/ InsertsSeparator(agents)
           v6 == section = "new"
           v7 == ~dir \/ (~first /\ record.dirCreated)
<1>1. Receipt(d, dir, version, tier, section) =
         [version |-> version, limit |-> tier, previous |-> v1,
          codexExisted |-> v2, agentsExisted |-> v3, agentsHash |-> v4,
          sep |-> v5, binary |-> version, contract |-> v6, dirCreated |-> v7]
  BY DEF Receipt
<1>2. OrElse(d["codex"], NoCodex).limit \in Limits
  BY Kinds DEF CodexText
<1>3. record # Absent => record \in Record
  BY Kinds
<1>4. v1 \in Limits
  BY <1>2, <1>3 DEF Record
<1>5. v2 \in BOOLEAN /\ v3 \in BOOLEAN
  BY <1>3 DEF Record
<1>6. agents \in AgentsText
  BY Kinds
<1>7. v4 \in AgentsText
  BY <1>6, AgentsKinds
<1>8. v5 \in BOOLEAN
  BY <1>6, AgentsKinds DEF SeparatorOwned
<1>9. v6 \in BOOLEAN /\ v7 \in BOOLEAN
  OBVIOUS
<1>10. /\ first => /\ v1 = OrElse(d["codex"], NoCodex).limit
                   /\ v2 = (d["codex"] # Absent) /\ v3 = (d["agents"] # Absent)
                   /\ v7 = ~dir
       /\ ~first => /\ v1 = record.previous /\ v2 = record.codexExisted
                    /\ v3 = record.agentsExisted /\ v7 = (~dir \/ record.dirCreated)
  OBVIOUS
<1> HIDE DEF v1, v2, v3, v4, v5, v6, v7
<1> DEFINE receipt == Receipt(d, dir, version, tier, section)
<1>11. receipt \in Record
  BY <1>1, <1>4, <1>5, <1>7, <1>8, <1>9 DEF Record
<1>12. /\ receipt.version = version /\ receipt.limit = tier /\ receipt.previous = v1
       /\ receipt.codexExisted = v2 /\ receipt.agentsExisted = v3
       /\ receipt.agentsHash = v4 /\ receipt.sep = v5 /\ receipt.binary = version
       /\ receipt.dirCreated = v7
  BY <1>1
<1> HIDE DEF receipt
<1>13. receipt.agentsHash = AgentsApply(agents, section)
  BY <1>12 DEF v4
<1>14. receipt.sep = (SeparatorOwned(d) \/ InsertsSeparator(agents))
  BY <1>12 DEF v5
<1>. QED  BY <1>10, <1>11, <1>12, <1>13, <1>14 DEF receipt

LEMMA ApplyKinds ==
    ASSUME NEW d \in Disks, NEW dir \in BOOLEAN, NEW version \in Versions,
           NEW tier \in Tiers, NEW section \in {"old", "new"}
    PROVE  LET plan == PlanApply(d, dir, version, tier, section)
           IN  /\ plan \in Disks
               /\ plan["binary"] = version
               /\ plan["codex"] = CodexApply(d["codex"], tier)
               /\ plan["agents"] = AgentsApply(OrElse(d["agents"], NoAgents), section)
               /\ plan["settings"] \in Settings
               /\ plan["settings"].applied = Receipt(d, dir, version, tier, section)
<1> DEFINE plan == PlanApply(d, dir, version, tier, section)
           s == OrElse(d["settings"], DefaultSettings)
           receipt == Receipt(d, dir, version, tier, section)
<1>1. /\ DOMAIN plan = Files /\ plan = [f \in Files |-> plan[f]]
      /\ plan["binary"] = version
      /\ plan["codex"] = CodexApply(d["codex"], tier)
      /\ plan["agents"] = AgentsApply(OrElse(d["agents"], NoAgents), section)
      /\ plan["settings"] = [s EXCEPT !.applied = receipt]
  BY DEF PlanApply, Files
<1>2. s \in Settings /\ receipt \in Record
  BY Kinds, ReceiptKinds
<1> HIDE DEF plan, s, receipt
<1>3. plan["settings"] \in Settings /\ plan["settings"].applied = receipt
  BY <1>1, <1>2 DEF Settings
<1>4. plan["codex"] \in CodexText
  <2>1. d["codex"] \in CodexText \cup {Absent} /\ 0 \in Limits
    BY DEF Disks, Limits
  <2>. QED  BY <1>1, <2>1, CodexKinds
<1>5. plan["agents"] \in AgentsText
  BY <1>1, Kinds, AgentsKinds
<1>6. plan \in Disks
  <2>1. \A f \in Files : plan[f] \in Versions \cup {Absent} \cup CodexText \cup AgentsText
                     \cup Settings
    BY <1>1, <1>3, <1>4, <1>5 DEF Files
  <2>. QED  BY <1>1, <1>3, <1>4, <1>5, <2>1 DEF Disks
<1>. QED  BY <1>1, <1>3, <1>6 DEF plan, receipt

Restores(d) == /\ Applied(d) # Absent
               /\ OrElse(d["codex"], NoCodex).limit = Applied(d).limit
CodexUndone(d) ==
    CodexUnapply(d["codex"], Restores(d),
                 IF Restores(d) THEN Applied(d).previous ELSE 0)
AgentsUndone(d) ==
    AgentsRemove(OrElse(d["agents"], NoAgents), SeparatorOwned(d))
Existed(d, f) == IF Applied(d) = Absent THEN d[f] # Absent
                 ELSE IF f = "codex" THEN Applied(d).codexExisted
                 ELSE Applied(d).agentsExisted

LEMMA UnapplyKinds ==
    ASSUME NEW d \in Disks
    PROVE  LET plan == PlanUnapply(d)
           IN  /\ plan \in Disks
               /\ plan["binary"] = Absent /\ plan["settings"] = Absent
               /\ plan["codex"] = IF CodexUndone(d) = NoCodex /\ ~Existed(d, "codex")
                                  THEN Absent ELSE CodexUndone(d)
               /\ plan["agents"] =
                     IF \/ d["agents"] = Absent
                        \/ (AgentsUndone(d) = NoAgents /\ ~Existed(d, "agents"))
                     THEN Absent ELSE AgentsUndone(d)
               /\ CodexUndone(d) \in CodexText /\ AgentsUndone(d) \in AgentsText
               /\ CodexUndone(d).text = OrElse(d["codex"], NoCodex).text
               /\ CodexUndone(d).server = 0
               /\ CodexUndone(d).limit =
                     IF Restores(d) THEN Applied(d).previous
                     ELSE OrElse(d["codex"], NoCodex).limit
               /\ AgentsUndone(d).text = OrElse(d["agents"], NoAgents).text
               /\ AgentsUndone(d).section = "none"
               /\ AgentsUndone(d).sep =
                     (/\ OrElse(d["agents"], NoAgents).sep
                      /\ \/ OrElse(d["agents"], NoAgents).section = "none"
                         \/ ~SeparatorOwned(d))
<1> DEFINE plan == PlanUnapply(d)
<1>1. /\ DOMAIN plan = Files /\ plan = [f \in Files |-> plan[f]]
      /\ plan["binary"] = Absent /\ plan["settings"] = Absent
  BY DEF PlanUnapply, Files
<1>2. plan["codex"] = IF CodexUndone(d) = NoCodex /\ ~Existed(d, "codex")
                      THEN Absent ELSE CodexUndone(d)
  BY DEF PlanUnapply, Files, CodexUndone, Existed, Restores
<1>3. plan["agents"] =
          IF \/ d["agents"] = Absent
             \/ (AgentsUndone(d) = NoAgents /\ ~Existed(d, "agents"))
          THEN Absent ELSE AgentsUndone(d)
  BY DEF PlanUnapply, Files, AgentsUndone, Existed
<1> HIDE DEF plan
<1>4. /\ Restores(d) \in BOOLEAN /\ SeparatorOwned(d) \in BOOLEAN
      /\ Restores(d) => Applied(d) \in Record
  <2>1. Restores(d) \in BOOLEAN
    BY DEF Restores
  <2>2. SeparatorOwned(d) \in BOOLEAN
    <3>1. Applied(d) # Absent => Applied(d).sep \in BOOLEAN
      BY Kinds DEF Record
    <3>. QED  BY <3>1 DEF SeparatorOwned
  <2>3. Restores(d) => Applied(d) \in Record
    BY Kinds DEF Restores
  <2>. QED  BY <2>1, <2>2, <2>3
<1> DEFINE previous == IF Restores(d) THEN Applied(d).previous ELSE 0
           restore == Restores(d)
<1>5. previous \in Limits
  BY <1>4 DEF Record, Limits
<1>6. d["codex"] \in CodexText \cup {Absent}
  BY DEF Disks
<1>7. CodexUndone(d) = CodexUnapply(d["codex"], restore, previous)
  BY DEF CodexUndone
<1>8. restore \in BOOLEAN /\ (restore => previous = Applied(d).previous)
  BY <1>4
<1> HIDE DEF previous, restore
<1>9. /\ CodexUndone(d) \in CodexText
      /\ CodexUndone(d).text = OrElse(d["codex"], NoCodex).text
      /\ CodexUndone(d).server = 0
      /\ CodexUndone(d).limit =
            IF restore THEN previous ELSE OrElse(d["codex"], NoCodex).limit
  <2>1. /\ CodexUnapply(d["codex"], restore, previous) \in CodexText
        /\ CodexUnapply(d["codex"], restore, previous).text = OrElse(d["codex"], NoCodex).text
        /\ CodexUnapply(d["codex"], restore, previous).server = 0
        /\ CodexUnapply(d["codex"], restore, previous).limit =
              IF restore THEN previous ELSE OrElse(d["codex"], NoCodex).limit
    <3>1. 0 \in {0} \cup Tiers
      OBVIOUS
    <3>. QED  BY <1>5, <1>6, <1>8, <3>1, CodexKinds
  <2>. QED  BY <1>7, <2>1
<1>10. CodexUndone(d).limit = IF Restores(d) THEN Applied(d).previous
                              ELSE OrElse(d["codex"], NoCodex).limit
  BY <1>8, <1>9 DEF restore
<1> DEFINE agents == OrElse(d["agents"], NoAgents)
           owned == SeparatorOwned(d)
<1>11. agents \in AgentsText /\ owned \in BOOLEAN
  BY <1>4, Kinds
<1>12. AgentsUndone(d) = AgentsRemove(agents, owned)
  BY DEF AgentsUndone
<1> HIDE DEF agents, owned
<1>13. /\ AgentsUndone(d) \in AgentsText
       /\ AgentsUndone(d).text = agents.text
       /\ AgentsUndone(d).section = "none"
       /\ AgentsUndone(d).sep = (agents.sep /\ (agents.section = "none" \/ ~owned))
  <2>1. "old" \in {"old", "new"}
    OBVIOUS
  <2>2. CASE owned = TRUE
    <3>1. /\ AgentsRemove(agents, TRUE) \in AgentsText
          /\ AgentsRemove(agents, TRUE).text = agents.text
          /\ AgentsRemove(agents, TRUE).section = "none"
          /\ AgentsRemove(agents, TRUE).sep = (agents.sep /\ (agents.section = "none" \/ ~TRUE))
      BY <1>11, <2>1, AgentsKinds
    <3>. QED  BY <1>12, <2>2, <3>1
  <2>3. CASE owned = FALSE
    BY <1>11, <1>12, <2>1, <2>3, AgentsKinds
  <2>. QED  BY <1>11, <2>2, <2>3
<1>14. plan \in Disks
  <2>1. plan["codex"] \in CodexText \cup {Absent}
    BY <1>2, <1>9
  <2>2. plan["agents"] \in AgentsText \cup {Absent}
    BY <1>3, <1>13
  <2>3. \A f \in Files : plan[f] \in Versions \cup {Absent} \cup CodexText \cup AgentsText
                     \cup Settings
    BY <1>1, <2>1, <2>2 DEF Files
  <2>. QED  BY <1>1, <2>1, <2>2, <2>3 DEF Disks
<1>15. PlanUnapply(d) = plan
  BY DEF plan
<1>. QED  BY <1>1, <1>2, <1>3, <1>9, <1>10, <1>13, <1>14, <1>15 DEF agents, owned

LEMMA SyncBinaryKinds ==
    ASSUME NEW d \in Disks, NEW version \in Versions, CanSyncBinary(d)
    PROVE  LET plan == PlanSyncBinary(d, version)
           IN  /\ plan \in Disks
               /\ plan["binary"] = version
               /\ plan["codex"] = d["codex"] /\ plan["agents"] = d["agents"]
               /\ plan["settings"] \in Settings
               /\ Applied(d) \in Record /\ plan["settings"].applied \in Record
               /\ plan["settings"].applied =
                     [Applied(d) EXCEPT !.binary = version, !.version = version]
<1> DEFINE plan == PlanSyncBinary(d, version)
           receipt == [Applied(d) EXCEPT !.binary = version, !.version = version]
<1>1. d["settings"] \in Settings /\ Applied(d) = d["settings"].applied
  BY DEF CanSyncBinary, Applied, Disks
<1>2. Applied(d) \in Record
  BY Kinds DEF CanSyncBinary
<1>3. receipt \in Record
  BY <1>2 DEF Record
<1>4. /\ DOMAIN plan = Files /\ plan = [f \in Files |-> plan[f]]
      /\ plan["binary"] = version
      /\ plan["codex"] = d["codex"] /\ plan["agents"] = d["agents"]
  <2> DEFINE e == [d EXCEPT !["binary"] = version]
             g == [e EXCEPT !["settings"].applied.binary = version]
  <2>1. plan = [g EXCEPT !["settings"].applied.version = version]
    BY DEF PlanSyncBinary
  <2>2. /\ DOMAIN e = Files /\ e["binary"] = version
        /\ e["codex"] = d["codex"] /\ e["agents"] = d["agents"]
    BY DEF Disks, Files
  <2> HIDE DEF e
  <2>3. /\ DOMAIN g = Files /\ g["binary"] = version
        /\ g["codex"] = d["codex"] /\ g["agents"] = d["agents"]
    BY <2>2 DEF Files
  <2> HIDE DEF g, plan
  <2>. QED  BY <2>1, <2>3 DEF Files
<1>5. plan["settings"] = [d["settings"] EXCEPT !.applied = receipt]
  <2>1. plan["settings"] = [d["settings"] EXCEPT !.applied.binary = version,
                                                 !.applied.version = version]
    BY DEF PlanSyncBinary, Disks, Files
  <2>2. [d["settings"] EXCEPT !.applied.binary = version, !.applied.version = version]
          = [d["settings"] EXCEPT !.applied = receipt]
    BY <1>1, <1>2 DEF Settings, Record
  <2>. QED  BY <2>1, <2>2
<1> HIDE DEF plan, receipt
<1>6. plan["settings"] \in Settings /\ plan["settings"].applied = receipt
  BY <1>1, <1>3, <1>5 DEF Settings
<1>7. plan \in Disks
  <2>1. /\ d["codex"] \in CodexText \cup {Absent}
        /\ d["agents"] \in AgentsText \cup {Absent}
    BY DEF Disks
  <2>2. \A f \in Files : plan[f] \in Versions \cup {Absent} \cup CodexText \cup AgentsText
                     \cup Settings
    BY <1>4, <1>6, <2>1 DEF Files
  <2>. QED  BY <1>4, <1>6, <2>1, <2>2 DEF Disks
<1>. QED  BY <1>2, <1>3, <1>4, <1>6, <1>7 DEF plan, receipt

LEMMA SyncGuidanceKinds ==
    ASSUME NEW d \in Disks, CanSyncGuidance(d)
    PROVE  LET plan == PlanSyncGuidance(d)
           IN  /\ plan \in Disks
               /\ plan["binary"] = d["binary"]
               /\ plan["codex"] = d["codex"] /\ plan["settings"] = d["settings"]
               /\ d["agents"] \in AgentsText /\ d["agents"].section = "old"
               /\ plan["agents"] \in AgentsText
               /\ plan["agents"].text = d["agents"].text
               /\ plan["agents"].sep = d["agents"].sep
               /\ plan["agents"].section = "new"
<1> DEFINE plan == PlanSyncGuidance(d)
<1>1. d["agents"] \in AgentsText /\ d["agents"].section = "old"
  BY DEF CanSyncGuidance, Disks
<1>2. /\ DOMAIN plan = Files /\ plan = [f \in Files |-> plan[f]]
      /\ plan["binary"] = d["binary"]
      /\ plan["codex"] = d["codex"] /\ plan["settings"] = d["settings"]
      /\ plan["agents"] = [d["agents"] EXCEPT !.section = "new"]
  BY DEF PlanSyncGuidance, Disks, Files
<1> HIDE DEF plan
<1>3. /\ plan["agents"] \in AgentsText /\ plan["agents"].text = d["agents"].text
      /\ plan["agents"].sep = d["agents"].sep /\ plan["agents"].section = "new"
  BY <1>1, <1>2 DEF AgentsText
<1>4. plan \in Disks
  <2>1. \A f \in Files : plan[f] \in Versions \cup {Absent} \cup CodexText \cup AgentsText
                     \cup Settings
    BY <1>2, <1>3 DEF Files, Disks
  <2>. QED  BY <1>2, <1>3, <2>1 DEF Disks
<1>. QED  BY <1>1, <1>2, <1>3, <1>4 DEF plan

LEMMA PreferencesKinds ==
    ASSUME NEW d \in Disks
    PROVE  LET plan == [f \in Files |->
                  IF f = "settings"
                  THEN [OrElse(d[f], DefaultSettings) EXCEPT !.pref = 1 - @]
                  ELSE d[f]]
           IN  /\ plan \in Disks
               /\ plan["binary"] = d["binary"]
               /\ plan["codex"] = d["codex"] /\ plan["agents"] = d["agents"]
               /\ plan["settings"] \in Settings
               /\ plan["settings"].applied = OrElse(d["settings"], DefaultSettings).applied
<1> DEFINE plan == [f \in Files |->
                  IF f = "settings"
                  THEN [OrElse(d[f], DefaultSettings) EXCEPT !.pref = 1 - @]
                  ELSE d[f]]
           s == OrElse(d["settings"], DefaultSettings)
<1>1. s \in Settings
  BY Kinds
<1>2. /\ DOMAIN plan = Files /\ plan = [f \in Files |-> plan[f]]
      /\ plan["binary"] = d["binary"]
      /\ plan["codex"] = d["codex"] /\ plan["agents"] = d["agents"]
      /\ plan["settings"] = [s EXCEPT !.pref = 1 - s.pref]
  BY DEF Files
<1> HIDE DEF plan, s
<1>3. s.pref \in 0..1 /\ (1 - s.pref) \in 0..1
  BY <1>1 DEF Settings
<1>4. plan["settings"] \in Settings /\ plan["settings"].applied = s.applied
  BY <1>1, <1>2, <1>3 DEF Settings
<1>5. plan \in Disks
  <2>1. \A f \in Files : plan[f] \in Versions \cup {Absent} \cup CodexText \cup AgentsText
                     \cup Settings
    BY <1>2, <1>4 DEF Files, Disks
  <2>. QED  BY <1>2, <1>4, <2>1 DEF Disks
<1>. QED  BY <1>2, <1>4, <1>5 DEF plan, s

(* What the plan of an operation does to the user's text: nothing.         *)
LEMMA PlansKeepText ==
    ASSUME NEW r, r.old \in Disks, MadeFrom(r)
    PROVE  /\ r.plan \in Disks
           /\ \A f \in Owned : TextOf(r.plan[f]) = TextOf(r.old[f])
           /\ r.op \in {"apply", "unapply", "sync", "preferences"}
<1> DEFINE d == r.old
<1>0. /\ d \in Disks /\ OrElse(d["codex"], NoCodex) \in CodexText
      /\ OrElse(d["agents"], NoAgents) \in AgentsText
      /\ d["codex"] \in CodexText \cup {Absent}
      /\ d["agents"] \in AgentsText \cup {Absent}
  BY Kinds DEF Disks
<1>1. /\ TextOf(d["codex"]) = OrElse(d["codex"], NoCodex).text
      /\ TextOf(d["agents"]) = OrElse(d["agents"], NoAgents).text
      /\ TextOf(Absent) = 0
  BY DEF TextOf, OrElse, NoCodex, NoAgents
<1>2. \A x \in CodexText \cup AgentsText : TextOf(x) = x.text
  BY DEF TextOf
<1>3. CASE r.op = "apply"
  <2>1. PICK version \in Versions, tier \in Tiers, dir \in BOOLEAN :
           r.plan = PlanApply(d, dir, version, tier, "new")
    BY <1>3 DEF MadeFrom
  <2>2. /\ r.plan \in Disks
        /\ r.plan["codex"] = CodexApply(d["codex"], tier)
        /\ r.plan["agents"] = AgentsApply(OrElse(d["agents"], NoAgents), "new")
    BY <1>0, <2>1, ApplyKinds
  <2> HIDE DEF d
  <2>3. /\ CodexApply(d["codex"], tier) \in CodexText
        /\ CodexApply(d["codex"], tier).text = OrElse(d["codex"], NoCodex).text
    <3>1. 0 \in Limits
      BY DEF Limits
    <3>. QED  BY <1>0, <3>1, CodexKinds
  <2>4. /\ AgentsApply(OrElse(d["agents"], NoAgents), "new") \in AgentsText
        /\ AgentsApply(OrElse(d["agents"], NoAgents), "new").text
              = OrElse(d["agents"], NoAgents).text
    BY <1>0, AgentsKinds
  <2>5. /\ TextOf(r.plan["codex"]) = TextOf(d["codex"])
        /\ TextOf(r.plan["agents"]) = TextOf(d["agents"])
    BY <1>1, <1>2, <2>2, <2>3, <2>4
  <2>. QED  BY <1>3, <2>2, <2>5 DEF Owned, d
<1>4. CASE r.op = "unapply"
  <2>1. r.plan = PlanUnapply(d)
    BY <1>4 DEF MadeFrom
  <2> HIDE DEF d
  <2>2. /\ r.plan \in Disks
        /\ r.plan["codex"] = IF CodexUndone(d) = NoCodex /\ ~Existed(d, "codex")
                             THEN Absent ELSE CodexUndone(d)
        /\ r.plan["agents"] =
              IF \/ d["agents"] = Absent
                 \/ (AgentsUndone(d) = NoAgents /\ ~Existed(d, "agents"))
              THEN Absent ELSE AgentsUndone(d)
        /\ CodexUndone(d) \in CodexText /\ AgentsUndone(d) \in AgentsText
        /\ CodexUndone(d).text = OrElse(d["codex"], NoCodex).text
        /\ AgentsUndone(d).text = OrElse(d["agents"], NoAgents).text
    BY <1>0, <2>1, UnapplyKinds
  <2>3. TextOf(r.plan["codex"]) = TextOf(d["codex"])
    <3>1. NoCodex.text = 0
      BY DEF NoCodex
    <3>. QED  BY <1>1, <1>2, <2>2, <3>1
  <2>4. TextOf(r.plan["agents"]) = TextOf(d["agents"])
    <3>1. NoAgents.text = 0
      BY DEF NoAgents
    <3>. QED  BY <1>1, <1>2, <2>2, <3>1
  <2>. QED  BY <1>4, <2>2, <2>3, <2>4 DEF Owned, d
<1>5. CASE r.op = "sync" /\ CanSyncBinary(d)
              /\ \E version \in Versions : r.plan = PlanSyncBinary(d, version)
  <2>0. PICK version \in Versions : r.plan = PlanSyncBinary(d, version)
    BY <1>5
  <2> HIDE DEF d
  <2>1. /\ r.plan \in Disks
        /\ r.plan["codex"] = d["codex"] /\ r.plan["agents"] = d["agents"]
    <3>1. d \in Disks /\ CanSyncBinary(d)
      BY <1>0, <1>5
    <3>2. /\ PlanSyncBinary(d, version) \in Disks
          /\ PlanSyncBinary(d, version)["codex"] = d["codex"]
          /\ PlanSyncBinary(d, version)["agents"] = d["agents"]
      BY <3>1, SyncBinaryKinds
    <3>. QED  BY <2>0, <3>2
  <2>. QED  BY <1>5, <2>1 DEF Owned, d
<1>6. CASE r.op = "sync" /\ CanSyncGuidance(d) /\ r.plan = PlanSyncGuidance(d)
  <2> HIDE DEF d
  <2>1. /\ r.plan \in Disks /\ r.plan["codex"] = d["codex"]
        /\ d["agents"] \in AgentsText /\ r.plan["agents"] \in AgentsText
        /\ r.plan["agents"].text = d["agents"].text
    BY <1>0, <1>6, SyncGuidanceKinds
  <2>2. TextOf(r.plan["agents"]) = TextOf(d["agents"])
    BY <1>2, <2>1
  <2>. QED  BY <1>6, <2>1, <2>2 DEF Owned, d
<1>7. CASE /\ r.op = "preferences"
           /\ r.plan = [f \in Files |->
                  IF f = "settings"
                  THEN [OrElse(d[f], DefaultSettings) EXCEPT !.pref = 1 - @]
                  ELSE d[f]]
  <2>1. /\ r.plan \in Disks
        /\ r.plan["codex"] = d["codex"] /\ r.plan["agents"] = d["agents"]
    BY <1>0, <1>7, PreferencesKinds
  <2>. QED  BY <1>7, <2>1 DEF Owned
<1>. QED  BY <1>3, <1>4, <1>5, <1>6, <1>7 DEF MadeFrom

-----------------------------------------------------------------------------
(* What a step does to the processes                                       *)

Alike(r, s) == /\ s.op = r.op /\ s.plan = r.plan /\ s.old = r.old
               /\ s.changes = r.changes /\ s.removesDir = r.removesDir
Stays(r, s) == /\ s \in Process /\ Alike(r, s) /\ s.pc = r.pc
               /\ s.index = r.index /\ s.madeDir = r.madeDir
               /\ s.unclean = r.unclean /\ s.carries \subseteq r.carries
AllThere == DOMAIN proc = Procs /\ proc = [p \in Procs |-> proc[p]]
OthersStay(p) == /\ AllThere'
                 /\ \A q \in Procs : q # p => Stays(proc[q], proc'[q])
Becomes(p, pc, index, madeDir, unclean, carries) ==
    /\ OthersStay(p)
    /\ proc'[p] \in Process /\ Alike(proc[p], proc'[p])
    /\ proc'[p].pc = pc /\ proc'[p].index = index
    /\ proc'[p].madeDir = madeDir /\ proc'[p].unclean = unclean
    /\ proc'[p].carries = carries
Starts(p, op, plan, removesDir) ==
    /\ OthersStay(p)
    /\ proc'[p] \in Process /\ proc'[p].pc = "planned" /\ proc'[p].op = op
    /\ proc'[p].plan = plan /\ proc'[p].old = disk
    /\ proc'[p].changes = Changed(op, plan, disk)
    /\ proc'[p].removesDir = removesDir /\ proc'[p].carries = {}
    /\ proc'[p].index = 0 /\ ~proc'[p].unclean /\ ~proc'[p].madeDir
Ends(p) == OthersStay(p) /\ proc'[p] = Idle

LEMMA StaysSame ==
    ASSUME NEW r \in Process
    PROVE  Stays(r, r)
BY DEF Stays, Alike

LEMMA UpdateEffect ==
    ASSUME Typing, NEW p \in Procs, NEW s \in Process, Alike(proc[p], s),
           proc' = [proc EXCEPT ![p] = s]
    PROVE  Becomes(p, s.pc, s.index, s.madeDir, s.unclean, s.carries)
<1>1. AllThere'
  BY DEF Typing, AllThere
<1>2. \A q \in Procs : q # p => Stays(proc[q], proc'[q])
  <2> TAKE q \in Procs
  <2> HAVE q # p
  <2>1. proc'[q] = proc[q] /\ proc[q] \in Process
    BY DEF Typing, ProcOK
  <2>. QED  BY <2>1, StaysSame
<1>3. proc'[p] = s
  BY DEF Typing
<1>. QED  BY <1>1, <1>2, <1>3 DEF Becomes, OthersStay

LEMMA GotoEffect ==
    ASSUME Typing, NEW p \in Procs, NEW pc \in Phases, Goto(p, pc)
    PROVE  Becomes(p, pc, proc[p].index, proc[p].madeDir, proc[p].unclean, proc[p].carries)
<1> DEFINE s == [proc[p] EXCEPT !.pc = pc]
<1>1. proc[p] \in Process
  BY DEF Typing, ProcOK
<1>2. /\ s \in Process /\ Alike(proc[p], s) /\ s.pc = pc /\ s.index = proc[p].index
      /\ s.madeDir = proc[p].madeDir /\ s.unclean = proc[p].unclean
      /\ s.carries = proc[p].carries
  BY <1>1 DEF Process, Alike
<1>3. proc' = [proc EXCEPT ![p] = s]
  BY DEF Goto
<1> HIDE DEF s
<1>. QED  BY <1>2, <1>3, UpdateEffect

(* A rename changes who carries a file, and the process goes on.           *)
LEMMA CarryEffect ==
    ASSUME Typing, NEW p \in Procs, NEW cs \in [Procs -> SUBSET Files],
           NEW pc \in Phases, NEW i \in Nat,
           \A q \in Procs : q # p => cs[q] \subseteq proc[q].carries,
           AllThere',
           \A q \in Procs : q # p => proc'[q] = [proc[q] EXCEPT !.carries = cs[q]],
           proc'[p] = [proc[p] EXCEPT !.carries = cs[p], !.pc = pc, !.index = i]
    PROVE  Becomes(p, pc, i, proc[p].madeDir, proc[p].unclean, cs[p])
<1>1. \A q \in Procs : q # p => Stays(proc[q], proc'[q])
  <2> SUFFICES ASSUME NEW q \in Procs, q # p PROVE Stays(proc[q], proc'[q])
    OBVIOUS
  <2> DEFINE r == proc[q]
             s == proc'[q]
             c == cs[q]
  <2>1. r \in Process /\ s = [r EXCEPT !.carries = c] /\ c \in SUBSET Files
        /\ c \subseteq r.carries
    BY DEF Typing, ProcOK
  <2> HIDE DEF r, s, c
  <2>2. Stays(r, s)
    BY <2>1 DEF Process, Alike, Stays
  <2>. QED  BY <2>2 DEF r, s
<1> DEFINE r == proc[p]
           s == proc'[p]
           c == cs[p]
<1>2. r \in Process /\ c \in SUBSET Files
      /\ s = [r EXCEPT !.carries = c, !.pc = pc, !.index = i]
  BY DEF Typing, ProcOK
<1> HIDE DEF r, s, c
<1>3. /\ s \in Process /\ Alike(r, s) /\ s.pc = pc /\ s.index = i
      /\ s.madeDir = r.madeDir /\ s.unclean = r.unclean /\ s.carries = c
  BY <1>2 DEF Process, Alike
<1>. QED  BY <1>1, <1>3 DEF r, s, c, Becomes, OthersStay

LEMMA CarriesType ==
    ASSUME Typing
    PROVE  /\ \A q \in Procs : proc[q] \in Process /\ proc[q].carries \in SUBSET Files
           /\ \A q \in Procs : Current(q) = proc[q].changes[proc[q].index]
           /\ \A q \in Procs : proc[q].pc \in Turning => Current(q) \in Files
<1>1. \A q \in Procs : proc[q] \in Process /\ proc[q].carries \in SUBSET Files
  BY DEF Typing, ProcOK, Process
<1>2. \A q \in Procs : proc[q].pc \in Turning => Current(q) \in Files
  <2> SUFFICES ASSUME NEW q \in Procs, proc[q].pc \in Turning PROVE Current(q) \in Files
    OBVIOUS
  <2>1. proc[q].changes \in Seq(Files) /\ proc[q].index \in 1..Len(proc[q].changes)
    BY <1>1 DEF Typing, ProcOK, Placed, Process
  <2>. QED  BY <2>1 DEF Current
<1>. QED  BY <1>1, <1>2 DEF Current

LEMMA CommitStartEffect ==
    ASSUME Typing, NEW p \in Procs, CommitStart(p)
    PROVE  LET r == proc[p] IN
           /\ UNCHANGED <<disk, user, spent>>
           /\ \/ /\ r.changes = <<>> /\ codexDir' = codexDir
                 /\ Becomes(p, IF r.op = "unapply" THEN "tree" ELSE "committed",
                            r.index, r.madeDir, r.unclean, r.carries)
              \/ /\ r.changes # <<>> /\ ~Intact(p) /\ codexDir' = codexDir
                 /\ Becomes(p, "refused", r.index, r.madeDir, r.unclean, r.carries)
              \/ /\ r.changes # <<>> /\ Intact(p)
                 /\ codexDir' = (codexDir \/ TouchesCodexDir(p))
                 /\ Becomes(p, "compare", 1, TouchesCodexDir(p) /\ ~codexDir,
                            r.unclean, r.carries)
           /\ taint \subseteq taint'
           /\ proc'[p].pc \in {"compare", "tree"} /\ (\E q \in Procs \ {p} : MidCommit(q))
                => "overlapped" \in taint'
<1> DEFINE r == proc[p]
<1>0. r \in Process /\ {"tree", "committed", "refused", "compare"} \subseteq Phases
  BY CarriesType DEF Phases, Ended
<1>1. CASE r.changes = <<>>
  <2>1. CASE r.op = "unapply"
    <3>1. Goto(p, "tree") /\ codexDir' = codexDir
      BY <1>1, <2>1 DEF CommitStart, Op
    <3>. QED  BY <1>0, <1>1, <2>1, <3>1, GotoEffect DEF CommitStart
  <2>2. CASE r.op # "unapply"
    <3>1. Goto(p, "committed") /\ codexDir' = codexDir
      BY <1>1, <2>2 DEF CommitStart, Op
    <3>. QED  BY <1>0, <1>1, <2>2, <3>1, GotoEffect DEF CommitStart
  <2>. QED  BY <2>1, <2>2
<1>2. CASE r.changes # <<>> /\ ~Intact(p)
  <2>1. Goto(p, "refused") /\ codexDir' = codexDir
    BY <1>2 DEF CommitStart
  <2>. QED  BY <1>0, <1>2, <2>1, GotoEffect DEF CommitStart
<1>3. CASE r.changes # <<>> /\ Intact(p)
  <2> DEFINE m == TouchesCodexDir(p) /\ ~codexDir
             s == [r EXCEPT !.pc = "compare", !.index = 1, !.madeDir = m]
  <2>1. codexDir' = (codexDir \/ TouchesCodexDir(p)) /\ proc' = [proc EXCEPT ![p] = s]
    BY <1>3 DEF CommitStart
  <2>2. m \in BOOLEAN
    OBVIOUS
  <2> HIDE DEF m, r
  <2>3. /\ s \in Process /\ Alike(r, s) /\ s.pc = "compare" /\ s.index = 1
        /\ s.madeDir = m /\ s.unclean = r.unclean /\ s.carries = r.carries
    BY <1>0, <2>2 DEF Process, Alike
  <2> HIDE DEF s
  <2>4. Becomes(p, "compare", 1, m, r.unclean, r.carries)
    BY <2>1, <2>3, UpdateEffect DEF r
  <2>. QED  BY <1>3, <2>1, <2>4 DEF CommitStart, m, r
<1>. QED  BY <1>1, <1>2, <1>3

LEMMA BackEffect ==
    ASSUME Typing, NEW p \in Procs, proc[p].pc \in Turning,
           NEW u \in BOOLEAN,
           proc' = NextBack(p, [proc EXCEPT ![p].unclean = u])
    PROVE  LET r == proc[p] IN
           Becomes(p, IF r.index = 1 THEN "cleanup" ELSE "recheck", r.index - 1,
                   r.madeDir, u, r.carries)
<1> DEFINE r == proc[p]
           pc == IF r.index = 1 THEN "cleanup" ELSE "recheck"
           s == [r EXCEPT !.unclean = u, !.index = @ - 1, !.pc = pc]
<1>0. r \in Process /\ pc \in Phases /\ r.index \in Nat /\ r.index > 0
  BY CarriesType DEF Phases, Typing, ProcOK, Placed, Process
<1>1. proc' = [proc EXCEPT ![p] = s]
  <2> DEFINE X == [proc EXCEPT ![p].unclean = u]
  <2>1. X = [proc EXCEPT ![p] = [r EXCEPT !.unclean = u]]
    OBVIOUS
  <2>2. proc' = [X EXCEPT ![p] = [X[p] EXCEPT !.index = X[p].index - 1, !.pc = pc]]
    BY DEF NextBack
  <2>3. X[p] = [r EXCEPT !.unclean = u]
    BY DEF Typing
  <2>4. [X[p] EXCEPT !.index = X[p].index - 1, !.pc = pc] = s
    BY <1>0, <2>3 DEF Process
  <2> HIDE DEF s
  <2>. QED  BY <2>1, <2>2, <2>4
<1> HIDE DEF pc, r
<1>2. (r.index - 1) \in Nat
  BY <1>0
<1>3. /\ s \in Process /\ Alike(r, s) /\ s.pc = pc /\ s.index = r.index - 1
      /\ s.madeDir = r.madeDir /\ s.unclean = u /\ s.carries = r.carries
  BY <1>0, <1>2 DEF Process, Alike
<1> HIDE DEF s
<1>4. Becomes(p, pc, r.index - 1, r.madeDir, u, r.carries)
  BY <1>1, <1>3, UpdateEffect DEF r
<1>. QED  BY <1>4 DEF pc, r

LEMMA RollBackEffect ==
    ASSUME Typing, NEW p \in Procs, proc[p].pc \in Turning,
           proc' = RollBack(p, proc)
    PROVE  LET r == proc[p] IN
           Becomes(p, IF r.index = 1 THEN "cleanup" ELSE "recheck", r.index - 1,
                   r.madeDir, r.unclean, r.carries)
<1> DEFINE r == proc[p]
           pc == IF r.index = 1 THEN "cleanup" ELSE "recheck"
           s == [r EXCEPT !.index = @ - 1, !.pc = pc]
<1>0. r \in Process /\ pc \in Phases /\ r.index \in Nat /\ r.index > 0
  BY CarriesType DEF Phases, Typing, ProcOK, Placed, Process
<1>1. proc' = [proc EXCEPT ![p] = s]
  BY DEF RollBack, Typing
<1> HIDE DEF pc, r
<1>2. (r.index - 1) \in Nat
  BY <1>0
<1>3. /\ s \in Process /\ Alike(r, s) /\ s.pc = pc /\ s.index = r.index - 1
      /\ s.madeDir = r.madeDir /\ s.unclean = r.unclean /\ s.carries = r.carries
  BY <1>0, <1>2 DEF Process, Alike
<1> HIDE DEF s
<1>4. Becomes(p, pc, r.index - 1, r.madeDir, r.unclean, r.carries)
  BY <1>1, <1>3, UpdateEffect DEF r
<1>. QED  BY <1>4 DEF pc, r

LEMMA CompareEffect ==
    ASSUME Typing, NEW p \in Procs, Compare(p)
    PROVE  LET r == proc[p] IN
           /\ r.pc = "compare" /\ UNCHANGED <<disk, codexDir, user, taint, spent>>
           /\ \/ /\ disk[Current(p)] = r.old[Current(p)]
                 /\ Becomes(p, "replace", r.index, r.madeDir, r.unclean, r.carries)
              \/ Becomes(p, IF r.index = 1 THEN "cleanup" ELSE "recheck", r.index - 1,
                         r.madeDir, r.unclean, r.carries)
<1>0. proc[p].pc = "compare" /\ "replace" \in Phases
  BY DEF Compare, Phases
<1>1. CASE disk[Current(p)] = proc[p].old[Current(p)]
  <2>1. Goto(p, "replace")
    BY <1>1 DEF Compare
  <2>. QED  BY <1>0, <1>1, <2>1, GotoEffect DEF Compare
<1>2. CASE disk[Current(p)] # proc[p].old[Current(p)]
  <2>1. proc' = RollBack(p, proc)
    BY <1>2 DEF Compare
  <2>. QED  BY <1>0, <1>2, <2>1, RollBackEffect DEF Compare, Turning
<1>. QED  BY <1>1, <1>2

LEMMA ReplaceEffect ==
    ASSUME Typing, NEW p \in Procs, Replace(p)
    PROVE  LET r == proc[p]
               f == Current(p)
               last == r.index = Len(r.changes)
           IN  /\ r.pc = "replace" /\ Write(p, r.plan[f]) /\ UNCHANGED <<user, spent>>
               /\ Becomes(p, IF ~last THEN "compare"
                             ELSE IF r.op = "unapply" THEN "tree" ELSE "committed",
                          IF last THEN r.index ELSE r.index + 1,
                          r.madeDir, r.unclean, r.carries \cup {f})
<1> DEFINE r == proc[p]
           f == Current(p)
           last == r.index = Len(r.changes)
           pc == IF ~last THEN "compare"
                 ELSE IF r.op = "unapply" THEN "tree" ELSE "committed"
           i == IF last THEN r.index ELSE r.index + 1
           cs == [q \in Procs |-> IF q = p THEN r.carries \cup {f} ELSE proc[q].carries \ {f}]
<1>0. r \in Process /\ pc \in Phases /\ r.index \in Nat /\ r.pc = "replace" /\ f \in Files
  BY CarriesType DEF Phases, Ended, Typing, ProcOK, Process, Replace, Turning
<1>1. i \in Nat
  BY <1>0
<1>2. cs \in [Procs -> SUBSET Files]
  BY <1>0, CarriesType
<1>3. \A q \in Procs : q # p => cs[q] \subseteq proc[q].carries
  OBVIOUS
<1>4. proc' = [CarriedBy(p, f, proc) EXCEPT ![p].pc = pc, ![p].index = i]
  <2> DEFINE X == CarriedBy(p, f, proc)
  <2>1. X[p].index = r.index
    BY <1>0 DEF CarriedBy, Process
  <2>2. proc' = [X EXCEPT ![p].pc = pc, ![p].index = IF last THEN @ ELSE @ + 1]
    BY DEF Replace, Op
  <2>3. DOMAIN X = Procs
    BY DEF CarriedBy
  <2> HIDE DEF X, pc, r
  <2>4. X[p] = [X[p] EXCEPT !.pc = X[p].pc] \/ TRUE
    OBVIOUS
  <2>. QED  BY <2>1, <2>2, <2>3 DEF X
<1>5. AllThere'
  BY <1>4 DEF CarriedBy, AllThere
<1>6. \A q \in Procs : q # p => proc'[q] = [proc[q] EXCEPT !.carries = cs[q]]
  BY <1>4 DEF CarriedBy
<1>7. proc'[p] = [proc[p] EXCEPT !.carries = cs[p], !.pc = pc, !.index = i]
  BY <1>4 DEF CarriedBy
<1> HIDE DEF cs, pc, i
<1>8. Becomes(p, pc, i, proc[p].madeDir, proc[p].unclean, cs[p])
  BY <1>0, <1>1, <1>2, <1>3, <1>5, <1>6, <1>7, CarryEffect
<1>9. cs[p] = r.carries \cup {f}
  BY DEF cs
<1>. QED  BY <1>0, <1>8, <1>9 DEF pc, i, Replace

LEMMA RecheckEffect ==
    ASSUME Typing, NEW p \in Procs, Recheck(p)
    PROVE  LET r == proc[p] IN
           /\ r.pc = "recheck" /\ UNCHANGED <<disk, codexDir, user, spent>>
           /\ \/ /\ disk[Current(p)] = r.plan[Current(p)] /\ taint' = taint
                 /\ Becomes(p, "restore", r.index, r.madeDir, r.unclean, r.carries)
              \/ /\ taint' = taint \cup {"torn"}
                 /\ Becomes(p, IF r.index = 1 THEN "cleanup" ELSE "recheck", r.index - 1,
                            r.madeDir, TRUE, r.carries)
<1>0. proc[p].pc = "recheck" /\ "restore" \in Phases
  BY DEF Recheck, Phases
<1>1. CASE disk[Current(p)] = proc[p].plan[Current(p)]
  <2>1. Goto(p, "restore") /\ taint' = taint
    BY <1>1 DEF Recheck
  <2>. QED  BY <1>0, <1>1, <2>1, GotoEffect DEF Recheck
<1>2. CASE disk[Current(p)] # proc[p].plan[Current(p)]
  <2>1. proc' = NextBack(p, [proc EXCEPT ![p].unclean = TRUE]) /\ taint' = taint \cup {"torn"}
    BY <1>2 DEF Recheck
  <2>. QED  BY <1>0, <1>2, <2>1, BackEffect DEF Recheck, Turning
<1>. QED  BY <1>1, <1>2

LEMMA RestoreFailsEffect ==
    ASSUME Typing, NEW p \in Procs, RestoreFails(p)
    PROVE  LET r == proc[p] IN
           /\ r.pc = "restore" /\ UNCHANGED <<disk, codexDir, user>>
           /\ taint' = taint \cup {"torn"}
           /\ Becomes(p, IF r.index = 1 THEN "cleanup" ELSE "recheck", r.index - 1,
                      r.madeDir, TRUE, r.carries)
BY BackEffect DEF RestoreFails, Turning

LEMMA RestoreEffect ==
    ASSUME Typing, NEW p \in Procs, Restore(p)
    PROVE  LET r == proc[p]
               f == Current(p)
           IN  /\ r.pc = "restore" /\ Write(p, r.old[f]) /\ UNCHANGED <<user, spent>>
               /\ Becomes(p, IF r.index = 1 THEN "cleanup" ELSE "recheck", r.index - 1,
                          r.madeDir, r.unclean, r.carries \ {f})
<1> DEFINE r == proc[p]
           f == Current(p)
           pc == IF r.index = 1 THEN "cleanup" ELSE "recheck"
           i == r.index - 1
           cs == [q \in Procs |-> proc[q].carries \ {f}]
<1>0. /\ r \in Process /\ pc \in Phases /\ r.index \in Nat /\ r.index > 0
      /\ r.pc = "restore" /\ f \in Files
  BY CarriesType DEF Phases, Ended, Typing, ProcOK, Placed, Process, Restore, Turning
<1>1. i \in Nat
  BY <1>0
<1>2. cs \in [Procs -> SUBSET Files]
  BY <1>0, CarriesType
<1>3. \A q \in Procs : q # p => cs[q] \subseteq proc[q].carries
  OBVIOUS
<1>4. proc' = [CarriedByNone(f, proc) EXCEPT ![p].index = i, ![p].pc = pc]
  <2> DEFINE X == CarriedByNone(f, proc)
  <2>1. X[p].index = r.index
    BY <1>0 DEF CarriedByNone, Process
  <2>2. proc' = [X EXCEPT ![p].index = @ - 1, ![p].pc = pc]
    BY DEF Restore, NextBack
  <2>3. DOMAIN X = Procs
    BY DEF CarriedByNone
  <2> HIDE DEF X, pc, r
  <2>. QED  BY <2>1, <2>2, <2>3 DEF X
<1>5. AllThere'
  BY <1>4 DEF CarriedByNone, AllThere
<1>6. \A q \in Procs : q # p => proc'[q] = [proc[q] EXCEPT !.carries = cs[q]]
  BY <1>4 DEF CarriedByNone
<1>7. proc'[p] = [proc[p] EXCEPT !.carries = cs[p], !.pc = pc, !.index = i]
  <2>1. proc'[p] = [proc[p] EXCEPT !.carries = cs[p], !.index = i, !.pc = pc]
    BY <1>4 DEF CarriedByNone
  <2> HIDE DEF cs, i, pc
  <2>. QED  BY <1>0, <2>1 DEF Process
<1> HIDE DEF cs, pc, i
<1>8. Becomes(p, pc, i, proc[p].madeDir, proc[p].unclean, cs[p])
  BY <1>0, <1>1, <1>2, <1>3, <1>5, <1>6, <1>7, CarryEffect
<1>9. cs[p] = r.carries \ {f}
  BY DEF cs
<1>. QED  BY <1>0, <1>8, <1>9 DEF pc, i, Restore

LEMMA RemoveTreeEffect ==
    ASSUME Typing, NEW p \in Procs, RemoveTree(p)
    PROVE  LET r == proc[p] IN
           /\ r.pc = "tree"
           /\ Becomes(p, "dir", r.index, r.madeDir, r.unclean,
                      r.carries \ {"settings", "binary"})
<1> DEFINE r == proc[p]
           cs == [q \in Procs |-> proc[q].carries \ {"settings", "binary"}]
<1>0. r \in Process /\ "dir" \in Phases /\ r.index \in Nat /\ r.pc = "tree"
  BY CarriesType DEF Phases, Process, RemoveTree
<1>2. cs \in [Procs -> SUBSET Files]
  BY <1>0, CarriesType
<1>3. \A q \in Procs : q # p => cs[q] \subseteq proc[q].carries
  OBVIOUS
<1>4. proc' = CarriedByNone("settings", CarriedByNone("binary", [proc EXCEPT ![p].pc = "dir"]))
  BY DEF RemoveTree
<1> DEFINE X == [proc EXCEPT ![p].pc = "dir"]
           Y == CarriedByNone("binary", X)
<1>5. \A q \in Procs : proc'[q] = [Y[q] EXCEPT !.carries = Y[q].carries \ {"settings"}]
  BY <1>4 DEF CarriedByNone
<1>6. \A q \in Procs : Y[q] = [X[q] EXCEPT !.carries = X[q].carries \ {"binary"}]
  BY DEF CarriedByNone
<1>7. \A q \in Procs : q # p => X[q] = proc[q]
  BY DEF Typing
<1>8. X[p] = [r EXCEPT !.pc = "dir"]
  BY DEF Typing
<1> HIDE DEF X
<1>9. AllThere'
  <2>1. proc' = CarriedByNone("settings", Y)
    BY <1>4 DEF X
  <2> HIDE DEF Y
  <2>2. proc' = [q \in Procs |-> [Y[q] EXCEPT !.carries = @ \ {"settings"}]]
    BY <2>1 DEF CarriedByNone
  <2>. QED  BY <2>2 DEF AllThere
<1> HIDE DEF Y
<1>10. \A q \in Procs : q # p => proc'[q] = [proc[q] EXCEPT !.carries = cs[q]]
  <2> SUFFICES ASSUME NEW q \in Procs, q # p
               PROVE  proc'[q] = [proc[q] EXCEPT !.carries = cs[q]]
    OBVIOUS
  <2> DEFINE s == proc[q]
             t == Y[q]
  <2>1. s \in Process /\ t = [s EXCEPT !.carries = s.carries \ {"binary"}]
    BY <1>6, <1>7, CarriesType
  <2>2. proc'[q] = [t EXCEPT !.carries = t.carries \ {"settings"}]
    BY <1>5
  <2>3. cs[q] = s.carries \ {"settings", "binary"}
    OBVIOUS
  <2> HIDE DEF s, t, cs
  <2>4. t.carries = s.carries \ {"binary"}
    BY <2>1 DEF Process
  <2>5. t.carries \ {"settings"} = cs[q]
    BY <2>3, <2>4
  <2>6. proc'[q] = [s EXCEPT !.carries = cs[q]]
    BY <2>1, <2>2, <2>5 DEF Process
  <2>. QED  BY <2>6 DEF s
<1>11. proc'[p] = [proc[p] EXCEPT !.carries = cs[p], !.pc = "dir", !.index = r.index]
  <2> DEFINE x == X[p]
             y == Y[p]
  <2>1. y = [x EXCEPT !.carries = x.carries \ {"binary"}]
    BY <1>6
  <2>2. proc'[p] = [y EXCEPT !.carries = y.carries \ {"settings"}]
    BY <1>5
  <2>3. cs[p] = r.carries \ {"settings", "binary"}
    OBVIOUS
  <2>4. x = [r EXCEPT !.pc = "dir"]
    BY <1>8
  <2> HIDE DEF x, y, cs, r
  <2>5. x \in Process /\ x.carries = r.carries
    BY <1>0, <2>4 DEF Process
  <2>6. y.carries = r.carries \ {"binary"}
    BY <2>1, <2>5 DEF Process
  <2>7. y.carries \ {"settings"} = cs[p]
    BY <2>3, <2>6
  <2>8. proc'[p] = [r EXCEPT !.carries = cs[p], !.pc = "dir", !.index = r.index]
    BY <1>0, <2>1, <2>2, <2>4, <2>5, <2>7 DEF Process
  <2>. QED  BY <2>8 DEF r
<1> HIDE DEF cs
<1>12. Becomes(p, "dir", r.index, proc[p].madeDir, proc[p].unclean, cs[p])
  BY <1>0, <1>2, <1>3, <1>9, <1>10, <1>11, CarryEffect
<1>13. cs[p] = r.carries \ {"settings", "binary"}
  BY DEF cs
<1>. QED  BY <1>0, <1>12, <1>13

LEMMA SaveSettingsEffect ==
    ASSUME Typing, NEW p \in Procs, SaveSettings(p)
    PROVE  LET r == proc[p] IN
           /\ r.pc = "planned" /\ r.op = "preferences"
           /\ Becomes(p, "committed", r.index, r.madeDir, r.unclean,
                      r.carries \cup {"settings"})
<1> DEFINE r == proc[p]
           f == "settings"
           cs == [q \in Procs |-> IF q = p THEN r.carries \cup {f} ELSE proc[q].carries \ {f}]
<1>0. /\ r \in Process /\ "committed" \in Phases /\ r.index \in Nat /\ r.pc = "planned"
      /\ r.op = "preferences" /\ f \in Files
  BY CarriesType DEF Phases, Ended, Process, SaveSettings, Files, Op
<1>2. cs \in [Procs -> SUBSET Files]
  BY <1>0, CarriesType
<1>3. \A q \in Procs : q # p => cs[q] \subseteq proc[q].carries
  OBVIOUS
<1>4. proc' = [CarriedBy(p, f, proc) EXCEPT ![p].pc = "committed"]
  BY DEF SaveSettings
<1>5. AllThere'
  BY <1>4 DEF CarriedBy, AllThere
<1>6. \A q \in Procs : q # p => proc'[q] = [proc[q] EXCEPT !.carries = cs[q]]
  BY <1>4 DEF CarriedBy
<1>7. proc'[p] = [proc[p] EXCEPT !.carries = cs[p], !.pc = "committed", !.index = r.index]
  <2>1. proc'[p] = [proc[p] EXCEPT !.carries = cs[p], !.pc = "committed"]
    BY <1>4 DEF CarriedBy
  <2> HIDE DEF cs
  <2>. QED  BY <1>0, <2>1 DEF Process
<1> HIDE DEF cs
<1>8. Becomes(p, "committed", r.index, proc[p].madeDir, proc[p].unclean, cs[p])
  BY <1>0, <1>2, <1>3, <1>5, <1>6, <1>7, CarryEffect
<1>9. cs[p] = r.carries \cup {f}
  BY DEF cs
<1>. QED  BY <1>0, <1>8, <1>9

LEMMA EditEffect ==
    ASSUME Typing, NEW f \in Files, proc' = CarriedByNone(f, proc)
    PROVE  AllThere' /\ \A q \in Procs : Stays(proc[q], proc'[q])
<1>1. AllThere'
  BY DEF CarriedByNone, AllThere
<1>2. \A q \in Procs : Stays(proc[q], proc'[q])
  <2> SUFFICES ASSUME NEW q \in Procs PROVE Stays(proc[q], proc'[q])
    OBVIOUS
  <2> DEFINE r == proc[q]
             s == proc'[q]
  <2>1. r \in Process /\ s = [r EXCEPT !.carries = r.carries \ {f}]
    BY CarriesType DEF CarriedByNone
  <2> HIDE DEF r, s
  <2>2. Stays(r, s)
    BY <2>1 DEF Process, Alike, Stays
  <2>. QED  BY <2>2 DEF r, s
<1>. QED  BY <1>1, <1>2

LEMMA IdleIsProcess == Idle \in Process /\ ProcOK(Idle) /\ Idle.pc = "idle"
<1>1. <<>> \in Seq(Files) /\ Len(<<>>) = 0 /\ "idle" \in Phases
  BY DEF Phases
<1>2. Idle \in Process
  BY <1>1 DEF Idle, Process
<1>. QED  BY <1>1, <1>2 DEF Idle, ProcOK, Planned, Placed, Turning

LEMMA EndEffect ==
    ASSUME Typing, NEW p \in Procs, proc' = [proc EXCEPT ![p] = Idle]
    PROVE  Ends(p)
<1>1. AllThere'
  BY DEF Typing, AllThere
<1>2. \A q \in Procs : q # p => Stays(proc[q], proc'[q])
  <2> TAKE q \in Procs
  <2> HAVE q # p
  <2>1. proc'[q] = proc[q] /\ proc[q] \in Process
    BY DEF Typing, ProcOK
  <2>. QED  BY <2>1, StaysSame
<1>3. proc'[p] = Idle
  BY DEF Typing
<1>. QED  BY <1>1, <1>2, <1>3 DEF Ends, OthersStay

LEMMA StartEffect ==
    ASSUME Typing, NEW p \in Procs, NEW op \in {"apply", "unapply", "sync", "preferences"},
           NEW plan \in Disks, NEW removes \in BOOLEAN,
           Start(p, op, plan, removes)
    PROVE  Starts(p, op, plan, removes) /\ proc[p].pc = "idle" /\ spent' \in Bounds
<1> DEFINE s == [Idle EXCEPT !.pc = "planned", !.op = op, !.plan = plan, !.old = disk,
                             !.changes = Changed(op, plan, disk),
                             !.removesDir = removes]
           ch == Changed(op, plan, disk)
<1>0. ch \in Seq(Files)
  BY ChangedLists DEF Lists
<1>1. proc' = [proc EXCEPT ![p] = s] /\ proc[p].pc = "idle"
  BY DEF Start
<1>2. disk \in Disks /\ "planned" \in Phases /\ Idle \in Process
  BY IdleIsProcess DEF Typing, Phases
<1> HIDE DEF ch
<1>3. /\ s \in Process /\ s.pc = "planned" /\ s.op = op /\ s.plan = plan /\ s.old = disk
      /\ s.changes = ch /\ s.removesDir = removes /\ s.carries = {} /\ s.index = 0
      /\ s.unclean = FALSE /\ s.madeDir = FALSE
  <2>1. s = [Idle EXCEPT !.pc = "planned", !.op = op, !.plan = plan, !.old = disk,
                         !.changes = ch, !.removesDir = removes]
    BY DEF ch
  <2>2. /\ Idle.carries = {} /\ Idle.index = 0 /\ Idle.unclean = FALSE
        /\ Idle.madeDir = FALSE
    BY DEF Idle
  <2> HIDE DEF s
  <2>. QED  BY <1>0, <1>2, <2>1, <2>2 DEF Process
<1> HIDE DEF s
<1>4. AllThere'
  BY <1>1 DEF Typing, AllThere
<1>5. \A q \in Procs : q # p => Stays(proc[q], proc'[q])
  <2> TAKE q \in Procs
  <2> HAVE q # p
  <2>1. proc'[q] = proc[q] /\ proc[q] \in Process
    BY <1>1 DEF Typing, ProcOK
  <2>. QED  BY <2>1, StaysSame
<1>6. proc'[p] = s
  BY <1>1 DEF Typing
<1>7. spent' \in Bounds
  <2>1. spent \in Bounds
    BY DEF Typing
  <2> DEFINE b == IF Beside(p) THEN 1 ELSE 0
  <2>2. spent' = [spent EXCEPT !.ops = @ + 1, !.beside = @ + b]
    BY DEF Start
  <2>3. b \in Nat
    OBVIOUS
  <2> HIDE DEF s, b
  <2> DEFINE x == spent.ops + 1
             y == spent.beside + b
  <2>4. x \in Nat /\ y \in Nat
    BY <2>1, <2>3 DEF Bounds
  <2>5. spent' = [spent EXCEPT !.ops = x, !.beside = y]
    BY <2>2
  <2> HIDE DEF x, y
  <2>. QED  BY <2>1, <2>4, <2>5 DEF Bounds
<1>. QED  BY <1>1, <1>3, <1>4, <1>5, <1>6, <1>7 DEF Starts, OthersStay, ch

LEMMA TerminateEffect ==
    ASSUME Typing, NEW p \in Procs, Terminate(p)
    PROVE  /\ proc[p].pc = "checked" /\ UNCHANGED <<disk, codexDir, user, spent>>
           /\ taint \subseteq taint' /\ AllThere'
           /\ proc'[p] \in Process /\ Alike(proc[p], proc'[p])
           /\ proc'[p].pc = "stopped" /\ proc'[p].index = proc[p].index
           /\ proc'[p].carries = proc[p].carries
           /\ \A q \in Procs : q # p =>
                 \/ Stays(proc[q], proc'[q])
                 \/ /\ proc'[q] = Idle
                    /\ MidCommit(q) => "crashed" \in taint'
                    /\ (MidCommit(q) /\ proc[q].op # "unapply") => "torn" \in taint'
<1>1. PICK victims \in SUBSET {q \in Procs \ {p} : proc[q].pc # "idle"} :
        /\ taint' = taint \cup Tears(victims)
        /\ proc' = [q \in Procs |->
                       IF q \in victims THEN Idle
                       ELSE IF q = p THEN [proc[p] EXCEPT !.pc = "stopped"]
                       ELSE proc[q]]
  BY DEF Terminate
<1>2. /\ proc[p] \in Process /\ proc'[p] = [proc[p] EXCEPT !.pc = "stopped"]
      /\ "stopped" \in Phases
  BY <1>1, CarriesType DEF Phases
<1> DEFINE r == proc[p]
           s == proc'[p]
<1> HIDE DEF r, s
<1>3. /\ s \in Process /\ Alike(r, s) /\ s.pc = "stopped" /\ s.index = r.index
      /\ s.carries = r.carries
  <2>1. r \in Process /\ s = [r EXCEPT !.pc = "stopped"] /\ "stopped" \in Phases
    BY <1>2 DEF r, s
  <2>. QED  BY <2>1 DEF Process, Alike
<1>4. AllThere'
  BY <1>1 DEF AllThere
<1>5. \A q \in Procs : q # p =>
         \/ Stays(proc[q], proc'[q])
         \/ /\ proc'[q] = Idle
            /\ MidCommit(q) => "crashed" \in taint'
            /\ (MidCommit(q) /\ proc[q].op # "unapply") => "torn" \in taint'
  <2> TAKE q \in Procs
  <2> HAVE q # p
  <2>1. CASE q \in victims
    <3>1. proc'[q] = Idle
      BY <1>1, <2>1
    <3>2. MidCommit(q) => "crashed" \in Tears(victims)
      BY <2>1 DEF Tears
    <3>3. (MidCommit(q) /\ proc[q].op # "unapply") => "torn" \in Tears(victims)
      BY <2>1 DEF Tears, Op
    <3>. QED  BY <1>1, <3>1, <3>2, <3>3
  <2>2. CASE q \notin victims
    <3>1. proc'[q] = proc[q] /\ proc[q] \in Process
      BY <1>1, <2>2, CarriesType
    <3>. QED  BY <3>1, StaysSame
  <2>. QED  BY <2>1, <2>2
<1>. QED  BY <1>1, <1>3, <1>4, <1>5 DEF Terminate, r, s

LEMMA ProcStays ==
    ASSUME NEW r, NEW s, ProcOK(r), Stays(r, s)
    PROVE  ProcOK(s)
BY DEF ProcOK, Planned, Placed, Stays, Alike, MadeFrom, Differing

LEMMA ProcMoves ==
    ASSUME NEW r, NEW s, ProcOK(r), s \in Process, Alike(r, s), r.pc # "idle",
           s.index \in 0..Len(s.changes), s.pc \in Turning => s.index > 0,
           s.pc # "idle"
    PROVE  ProcOK(s)
BY DEF ProcOK, Planned, Placed, Alike, MadeFrom, Differing

LEMMA OthersOK ==
    ASSUME Typing, NEW p \in Procs, OthersStay(p), ProcOK(proc'[p])
    PROVE  /\ DOMAIN proc' = Procs /\ proc' = [q \in Procs |-> proc'[q]]
           /\ \A q \in Procs : ProcOK(proc'[q])
BY ProcStays DEF OthersStay, AllThere, Typing

LEMMA MovesOK ==
    ASSUME Typing, NEW p \in Procs, NEW pc, NEW i, NEW m, NEW u, NEW cs,
           Becomes(p, pc, i, m, u, cs), proc[p].pc # "idle", pc # "idle",
           i \in 0..Len(proc[p].changes), pc \in Turning => i > 0
    PROVE  /\ DOMAIN proc' = Procs /\ proc' = [q \in Procs |-> proc'[q]]
           /\ \A q \in Procs : ProcOK(proc'[q])
<1>1. ProcOK(proc'[p])
  BY ProcMoves DEF Typing, Becomes, Alike
<1>. QED  BY <1>1, OthersOK DEF Becomes

LEMMA GoesOnOK ==
    ASSUME Typing, NEW p \in Procs, OthersStay(p), proc'[p] \in Process,
           Alike(proc[p], proc'[p]), proc[p].pc # "idle", proc'[p].pc # "idle",
           proc'[p].index \in 0..Len(proc[p].changes),
           proc'[p].pc \in Turning => proc'[p].index > 0
    PROVE  /\ DOMAIN proc' = Procs /\ proc' = [q \in Procs |-> proc'[q]]
           /\ \A q \in Procs : ProcOK(proc'[q])
<1>1. ProcOK(proc'[p])
  BY ProcMoves DEF Typing, Alike
<1>. QED  BY <1>1, OthersOK

LEMMA Within ==
    ASSUME Typing, NEW p \in Procs
    PROVE  LET r == proc[p] IN
           /\ r.index \in 0..Len(r.changes) /\ Len(r.changes) \in Nat
           /\ r.index \in Nat
           /\ r.pc \in Turning => /\ r.index > 0 /\ r.index - 1 \in 0..Len(r.changes)
                                  /\ r.index # 1 => r.index - 1 > 0
           /\ r.changes # <<>> => 1 \in 0..Len(r.changes)
           /\ r.index # Len(r.changes) => r.index + 1 \in 0..Len(r.changes)
<1> DEFINE r == proc[p]
<1>1. r.changes \in Seq(Files) /\ r.index \in 0..Len(r.changes)
      /\ (r.pc \in Turning => r.index > 0)
  BY DEF Typing, ProcOK, Process, Placed
<1> HIDE DEF r
<1>2. Len(r.changes) \in Nat /\ (r.changes # <<>> => Len(r.changes) > 0)
  BY <1>1, EmptySeq
<1> DEFINE n == Len(r.changes)
           i == r.index
<1>3. n \in Nat /\ i \in 0..n /\ (r.changes # <<>> => n > 0)
  BY <1>1, <1>2
<1> HIDE DEF n, i
<1>4. i \in Nat /\ (i > 0 => i - 1 \in 0..n /\ (i # 1 => i - 1 > 0))
      /\ (n > 0 => 1 \in 0..n) /\ (i # n => i + 1 \in 0..n)
  BY <1>3
<1>. QED  BY <1>1, <1>3, <1>4 DEF n, i, r

LEMMA SpendType ==
    ASSUME Typing, Spend("upsets")
    PROVE  spent' \in Bounds
<1> DEFINE x == spent.upsets + 1
<1>1. spent \in Bounds
  BY DEF Typing
<1>2. x \in Nat
  BY <1>1 DEF Bounds
<1>3. spent' = [spent EXCEPT !.upsets = x]
  BY DEF Spend
<1> HIDE DEF x
<1>. QED  BY <1>1, <1>2, <1>3 DEF Bounds

LEMMA DiskTypes ==
    ASSUME NEW d \in Disks
    PROVE  /\ DOMAIN d = Files /\ d = [f \in Files |-> d[f]]
           /\ d["binary"] \in Versions \cup {Absent}
           /\ d["codex"] \in CodexText \cup {Absent}
           /\ d["agents"] \in AgentsText \cup {Absent}
           /\ d["settings"] \in Settings \cup {Absent}
BY DEF Disks

LEMMA DiskIsTyped ==
    ASSUME NEW d, DOMAIN d = Files, d = [f \in Files |-> d[f]],
           d["binary"] \in Versions \cup {Absent},
           d["codex"] \in CodexText \cup {Absent},
           d["agents"] \in AgentsText \cup {Absent},
           d["settings"] \in Settings \cup {Absent}
    PROVE  d \in Disks
<1>1. \A f \in Files : d[f] \in Versions \cup {Absent} \cup CodexText \cup AgentsText
                     \cup Settings
  BY DEF Files
<1>. QED  BY <1>1 DEF Disks

LEMMA WriteOne ==
    ASSUME NEW d \in Disks, NEW f \in Files, NEW e \in Disks
    PROVE  LET n == [d EXCEPT ![f] = e[f]] IN
           /\ n \in Disks /\ n[f] = e[f]
           /\ \A g \in Files : g # f => n[g] = d[g]
<1> DEFINE n == [d EXCEPT ![f] = e[f]]
<1>1. DOMAIN d = Files
  BY DiskTypes
<1>2. DOMAIN n = Files /\ n = [g \in Files |-> n[g]]
  BY <1>1
<1>3. n[f] = e[f] /\ \A g \in Files : g # f => n[g] = d[g]
  BY <1>1
<1>4. \A g \in Files : n[g] = e[g] \/ n[g] = d[g]
  BY <1>3
<1>5. \A g \in {"binary", "codex", "agents", "settings"} : n[g] = e[g] \/ n[g] = d[g]
  BY <1>4 DEF Files
<1>6. /\ n["binary"] \in Versions \cup {Absent}
      /\ n["codex"] \in CodexText \cup {Absent}
      /\ n["agents"] \in AgentsText \cup {Absent}
      /\ n["settings"] \in Settings \cup {Absent}
  BY <1>5, DiskTypes
<1>7. n \in Disks
  BY <1>2, <1>6, DiskIsTyped
<1>. QED  BY <1>3, <1>7

LEMMA WriteEffect ==
    ASSUME Typing, NEW p \in Procs, NEW e \in Disks, proc[p].pc \in Turning,
           Write(p, e[Current(p)])
    PROVE  LET f == Current(p) IN
           /\ f \in Files /\ disk' \in Disks /\ codexDir' \in BOOLEAN
           /\ disk'[f] = e[f] /\ \A g \in Files : g # f => disk'[g] = disk[g]
           /\ codexDir' = (codexDir \/ (f \in Owned /\ e[f] # Absent))
           /\ taint' = taint \cup Overlooked(p, f) \cup Unnoticed(p)
<1> DEFINE f == Current(p)
<1>1. f \in Files
  BY CarriesType
<1>2. disk' = [disk EXCEPT ![f] = e[f]]
  BY DEF Write
<1>3. disk \in Disks /\ codexDir \in BOOLEAN
  BY DEF Typing
<1>4. /\ disk' \in Disks /\ disk'[f] = e[f]
      /\ \A g \in Files : g # f => disk'[g] = disk[g]
  <2> HIDE DEF f
  <2>1. LET n == [disk EXCEPT ![f] = e[f]]
        IN  n \in Disks /\ n[f] = e[f] /\ \A g \in Files : g # f => n[g] = disk[g]
    BY <1>1, <1>3, WriteOne
  <2>. QED  BY <1>2, <2>1
<1>5. codexDir' \in BOOLEAN
  BY <1>3 DEF Write
<1>. QED  BY <1>1, <1>4, <1>5 DEF Write

LEMMA PlansAreDisks ==
    ASSUME Typing, NEW p \in Procs, proc[p].pc # "idle"
    PROVE  proc[p].plan \in Disks /\ proc[p].old \in Disks
BY DEF Typing, ProcOK, Planned

LEMMA EditAgentsEffect ==
    ASSUME Typing, EditAgents
    PROVE  LET a == OrElse(disk["agents"], NoAgents)
               u == OrElse(user["agents"], NoAgents)
           IN  /\ disk' \in Disks /\ user' \in Users
               /\ a \in AgentsText /\ u \in AgentsText
               /\ disk'["agents"] \in AgentsText /\ user'["agents"] \in AgentsText
               /\ disk'["agents"].text = a.text + 1
               /\ disk'["agents"].sep = a.sep /\ disk'["agents"].section = a.section
               /\ user'["agents"].text = u.text + 1
               /\ user'["agents"].sep = u.sep /\ user'["agents"].section = u.section
               /\ (a = u => disk'["agents"] = user'["agents"])
               /\ \A g \in Files : g # "agents" => disk'[g] = disk[g]
               /\ user'["codex"] = user["codex"]
               /\ user'["dir"] = (user["dir"] \/ ~codexDir)
               /\ taint \subseteq taint'
               /\ a.section # "none" => "drifted" \in taint'
               /\ (\E q \in Procs : InWindow(q, "agents")) => "raced" \in taint'
               /\ AllThere' /\ \A q \in Procs : Stays(proc[q], proc'[q])
<1> DEFINE a == OrElse(disk["agents"], NoAgents)
           u == OrElse(user["agents"], NoAgents)
           b == NextText(a)
           w == NextText(u)
           dir == user["dir"] \/ ~codexDir
<1>1. disk \in Disks /\ codexDir \in BOOLEAN /\ user \in Users
  BY DEF Typing
<1>2. a \in AgentsText
  BY <1>1, Kinds
<1>3. u \in AgentsText
  BY <1>1 DEF OrElse, Users, NoAgents, AgentsText
<1>4. disk' = [disk EXCEPT !["agents"] = b]
  BY DEF EditAgents
<1>5. user' = [user EXCEPT !["agents"] = w, !["dir"] = dir]
  BY DEF EditAgents
<1>6. dir \in BOOLEAN
  BY <1>1 DEF Users
<1>7. a = u => b = w
  OBVIOUS
<1> HIDE DEF a, u, dir
<1>8. b \in AgentsText /\ b.text = a.text + 1 /\ b.sep = a.sep /\ b.section = a.section
  BY <1>2 DEF NextText, AgentsText
<1>9. w \in AgentsText /\ w.text = u.text + 1 /\ w.sep = u.sep /\ w.section = u.section
  BY <1>3 DEF NextText, AgentsText
<1> HIDE DEF b, w
<1>10. /\ user' \in Users /\ user'["agents"] = w /\ user'["dir"] = dir
       /\ user'["codex"] = user["codex"]
  BY <1>1, <1>5, <1>6, <1>9 DEF Users
<1>11. disk' \in Disks /\ disk'["agents"] = b
       /\ \A g \in Files : g # "agents" => disk'[g] = disk[g]
  <2>1. DOMAIN disk = Files
    BY <1>1, DiskTypes
  <2>2. DOMAIN disk' = Files /\ disk' = [g \in Files |-> disk'[g]]
    BY <1>4, <2>1
  <2>3. disk'["agents"] = b /\ \A g \in Files : g # "agents" => disk'[g] = disk[g]
    BY <1>4, <2>1 DEF Files
  <2>4. /\ disk'["binary"] = disk["binary"] /\ disk'["codex"] = disk["codex"]
        /\ disk'["settings"] = disk["settings"]
    BY <2>3 DEF Files
  <2>5. disk' \in Disks
    BY <1>1, <1>8, <2>2, <2>3, <2>4, DiskTypes, DiskIsTyped
  <2>. QED  BY <2>3, <2>5
<1>12. AllThere' /\ \A q \in Procs : Stays(proc[q], proc'[q])
  BY EditEffect DEF EditAgents, Files
<1>13. taint' = taint \cup Overlooked(Absent, "agents") \cup
                (IF a.section = "none" THEN {} ELSE {"drifted"})
  BY DEF EditAgents, a
<1>14. (\E q \in Procs : InWindow(q, "agents")) => "raced" \in Overlooked(Absent, "agents")
  BY DEF Overlooked
<1>. QED  BY <1>2, <1>3, <1>7, <1>8, <1>9, <1>10, <1>11, <1>12, <1>13, <1>14 DEF a, u, dir

LEMMA EditCodexEffect ==
    ASSUME Typing, NEW what \in {"text", "limit"}, NEW limit \in UserLimits,
           EditCodex(what, limit)
    PROVE  LET c == OrElse(disk["codex"], NoCodex)
               u == OrElse(user["codex"], NoCodex)
           IN  /\ disk' \in Disks /\ user' \in Users
               /\ c \in CodexText /\ u \in CodexText
               /\ disk'["codex"] \in CodexText /\ user'["codex"] \in CodexText
               /\ disk'["codex"].server = c.server /\ user'["codex"].server = u.server
               /\ \/ /\ disk'["codex"].text = c.text + 1 /\ user'["codex"].text = u.text + 1
                     /\ disk'["codex"].limit = c.limit /\ user'["codex"].limit = u.limit
                  \/ /\ disk'["codex"].text = c.text /\ user'["codex"].text = u.text
                     /\ disk'["codex"].limit = limit /\ user'["codex"].limit = limit
               /\ (c = u => disk'["codex"] = user'["codex"])
               /\ \A g \in Files : g # "codex" => disk'[g] = disk[g]
               /\ user'["agents"] = user["agents"]
               /\ user'["dir"] = (user["dir"] \/ ~codexDir)
               /\ taint \subseteq taint'
               /\ (\E q \in Procs : InWindow(q, "codex")) => "raced" \in taint'
               /\ AllThere' /\ \A q \in Procs : Stays(proc[q], proc'[q])
<1> DEFINE c == OrElse(disk["codex"], NoCodex)
           u == OrElse(user["codex"], NoCodex)
           edited(x) == IF what = "text" THEN NextText(x) ELSE [x EXCEPT !.limit = limit]
           b == edited(c)
           w == edited(u)
           dir == user["dir"] \/ ~codexDir
<1>1. disk \in Disks /\ codexDir \in BOOLEAN /\ user \in Users
  BY DEF Typing
<1>2. c \in CodexText
  BY <1>1, Kinds
<1>3. u \in CodexText
  BY <1>1 DEF OrElse, Users, NoCodex, CodexText, Limits
<1>4. disk' = [disk EXCEPT !["codex"] = b]
  BY DEF EditCodex
<1>5. user' = [user EXCEPT !["codex"] = w, !["dir"] = dir]
  BY DEF EditCodex
<1>6. dir \in BOOLEAN
  BY <1>1 DEF Users
<1>7. c = u => b = w
  OBVIOUS
<1> HIDE DEF c, u, dir
<1>8. limit \in Limits
  BY DEF Limits
<1>9. ASSUME NEW x \in CodexText
      PROVE  /\ edited(x) \in CodexText /\ edited(x).server = x.server
             /\ what = "text" => edited(x).text = x.text + 1 /\ edited(x).limit = x.limit
             /\ what # "text" => edited(x).text = x.text /\ edited(x).limit = limit
  <2>1. CASE what = "text"
    <3>1. x.text + 1 \in Nat
      BY DEF CodexText
    <3>. QED  BY <2>1, <3>1 DEF NextText, CodexText
  <2>2. CASE what # "text"
    BY <1>8, <2>2 DEF CodexText
  <2>. QED  BY <2>1, <2>2
<1>10. /\ b \in CodexText /\ b.server = c.server /\ w \in CodexText /\ w.server = u.server
       /\ \/ /\ b.text = c.text + 1 /\ w.text = u.text + 1
             /\ b.limit = c.limit /\ w.limit = u.limit
          \/ /\ b.text = c.text /\ w.text = u.text
             /\ b.limit = limit /\ w.limit = limit
  <2> HIDE DEF edited
  <2>. QED  BY <1>2, <1>3, <1>9
<1> HIDE DEF b, w
<1>11. /\ user' \in Users /\ user'["codex"] = w /\ user'["dir"] = dir
       /\ user'["agents"] = user["agents"]
  BY <1>1, <1>5, <1>6, <1>10 DEF Users
<1>12. disk' \in Disks /\ disk'["codex"] = b
       /\ \A g \in Files : g # "codex" => disk'[g] = disk[g]
  <2>1. DOMAIN disk = Files
    BY <1>1, DiskTypes
  <2>2. DOMAIN disk' = Files /\ disk' = [g \in Files |-> disk'[g]]
    BY <1>4, <2>1
  <2>3. disk'["codex"] = b /\ \A g \in Files : g # "codex" => disk'[g] = disk[g]
    BY <1>4, <2>1 DEF Files
  <2>4. /\ disk'["binary"] = disk["binary"] /\ disk'["agents"] = disk["agents"]
        /\ disk'["settings"] = disk["settings"]
    BY <2>3 DEF Files
  <2>5. disk' \in Disks
    BY <1>1, <1>10, <2>2, <2>3, <2>4, DiskTypes, DiskIsTyped
  <2>. QED  BY <2>3, <2>5
<1>13. AllThere' /\ \A q \in Procs : Stays(proc[q], proc'[q])
  BY EditEffect DEF EditCodex, Files
<1>14. taint' = taint \cup Overlooked(Absent, "codex")
  BY DEF EditCodex
<1>15. (\E q \in Procs : InWindow(q, "codex")) => "raced" \in Overlooked(Absent, "codex")
  BY DEF Overlooked
<1>. QED  BY <1>2, <1>3, <1>7, <1>10, <1>11, <1>12, <1>13, <1>14, <1>15 DEF c, u, dir

(* The machine without FastCtx.                                            *)
Bare(c, a) == [f \in Files |-> IF f = "codex" THEN c
                               ELSE IF f = "agents" THEN a ELSE Absent]
LEMMA BareIsDisk ==
    ASSUME NEW c \in UserCodex, NEW a \in UserAgents
    PROVE  /\ c \in CodexText \cup {Absent} /\ a \in AgentsText \cup {Absent}
           /\ Bare(c, a) \in Disks
           /\ Bare(c, a)["codex"] = c /\ Bare(c, a)["agents"] = a
           /\ Bare(c, a)["settings"] = Absent /\ Bare(c, a)["binary"] = Absent
           /\ c # Absent => c.server = 0 /\ c.limit \in {0} \cup UserLimits
           /\ a # Absent => ~a.sep /\ a.section = "none" /\ a.text > 0
<1>1. /\ c \in CodexText \cup {Absent}
      /\ c # Absent => c.server = 0 /\ c.limit \in {0} \cup UserLimits
  <2>1. NoCodex \in CodexText /\ NoCodex.server = 0 /\ NoCodex.limit = 0
    BY DEF NoCodex, CodexText, Limits
  <2>2. ASSUME NEW l \in UserLimits
        PROVE  LET n == [NoCodex EXCEPT !.text = 1, !.limit = l]
               IN  n \in CodexText /\ n.server = 0 /\ n.limit = l
    <3>1. l \in Limits
      BY DEF Limits
    <3>. QED  BY <2>1, <3>1 DEF CodexText
  <2>3. c \in {Absent, NoCodex} \/ \E l \in UserLimits : c = [NoCodex EXCEPT !.text = 1, !.limit = l]
    BY DEF UserCodex
  <2>. QED  BY <2>1, <2>2, <2>3
<1>2. /\ a \in AgentsText \cup {Absent}
      /\ a # Absent => ~a.sep /\ a.section = "none" /\ a.text > 0
  <2>1. NoAgents \in AgentsText /\ ~NoAgents.sep /\ NoAgents.section = "none"
    BY DEF NoAgents, AgentsText
  <2>2. LET n == [NoAgents EXCEPT !.text = 1]
        IN  n \in AgentsText /\ ~n.sep /\ n.section = "none" /\ n.text = 1
    BY <2>1 DEF AgentsText
  <2> DEFINE one == [NoAgents EXCEPT !.text = 1]
  <2>3. a = Absent \/ a = one
    BY DEF UserAgents
  <2>4. one \in AgentsText /\ ~one.sep /\ one.section = "none" /\ one.text = 1
    BY <2>2
  <2> HIDE DEF one
  <2>. QED  BY <2>3, <2>4
<1> DEFINE bare == Bare(c, a)
<1>3. /\ DOMAIN bare = Files /\ bare = [f \in Files |-> bare[f]]
      /\ bare["binary"] = Absent /\ bare["codex"] = c /\ bare["agents"] = a
      /\ bare["settings"] = Absent
  BY DEF Files, Bare
<1> HIDE DEF bare
<1>4. bare \in Disks
  BY <1>1, <1>2, <1>3, DiskIsTyped
<1>. QED  BY <1>1, <1>2, <1>3, <1>4 DEF bare

LEMMA InitShape ==
    ASSUME Init
    PROVE  \E c \in UserCodex, a \in UserAgents, installed \in BOOLEAN :
              LET dir == c # Absent \/ a # Absent
              IN  /\ user = [codex |-> c, agents |-> a, dir |-> dir]
                  /\ IF installed
                     THEN \E tier \in Tiers :
                             disk = PlanApply(Bare(c, a), dir, 1, tier, "old")
                     ELSE disk = Bare(c, a)
                  /\ codexDir = (dir \/ installed)
                  /\ proc = [p \in Procs |-> Idle]
                  /\ taint = {}
                  /\ spent = [ops |-> 0, beside |-> 0, upsets |-> 0]
BY DEF Init, Bare

LEMMA InitTyping == Init => Typing
<1> SUFFICES ASSUME Init PROVE Typing
  OBVIOUS
<1>1. PICK c \in UserCodex, a \in UserAgents, installed \in BOOLEAN :
        LET dir == c # Absent \/ a # Absent
        IN  /\ user = [codex |-> c, agents |-> a, dir |-> dir]
            /\ IF installed
               THEN \E tier \in Tiers :
                       disk = PlanApply(Bare(c, a), dir, 1, tier, "old")
               ELSE disk = Bare(c, a)
            /\ codexDir = (dir \/ installed)
            /\ proc = [p \in Procs |-> Idle]
            /\ taint = {}
            /\ spent = [ops |-> 0, beside |-> 0, upsets |-> 0]
  BY InitShape
<1> DEFINE bare == Bare(c, a)
           dir == c # Absent \/ a # Absent
<1>2. c \in CodexText \cup {Absent} /\ a \in AgentsText \cup {Absent} /\ bare \in Disks
  BY BareIsDisk
<1>3. c \in CodexText \cup {Absent}
  BY <1>2
<1>4. bare \in Disks
  BY <1>2
<1>5. dir \in BOOLEAN
  OBVIOUS
<1> HIDE DEF bare, dir
<1>6. disk \in Disks
  <2>1. CASE installed
    <3>1. PICK tier \in Tiers : disk = PlanApply(bare, dir, 1, tier, "old")
      BY <1>1, <2>1 DEF bare, dir
    <3>. QED  BY <1>4, <1>5, <3>1, ApplyKinds
  <2>2. CASE ~installed
    BY <1>1, <1>4, <2>2 DEF bare
  <2>. QED  BY <2>1, <2>2
<1>7. user \in Users
  BY <1>1, <1>2, <1>3, <1>5 DEF Users, dir
<1>8. codexDir \in BOOLEAN
  BY <1>1, <1>5 DEF dir
<1>9. spent \in Bounds
  BY <1>1 DEF Bounds
<1>10. DOMAIN proc = Procs /\ proc = [p \in Procs |-> proc[p]]
       /\ \A p \in Procs : ProcOK(proc[p])
  BY <1>1, IdleIsProcess
<1>. QED  BY <1>6, <1>7, <1>8, <1>9, <1>10 DEF Typing

AllOK == /\ DOMAIN proc = Procs /\ proc = [q \in Procs |-> proc[q]]
         /\ \A q \in Procs : ProcOK(proc[q])

LEMMA StartOK ==
    ASSUME Typing, NEW p \in Procs, NEW op, NEW plan \in Disks, NEW removes,
           Starts(p, op, plan, removes), MadeFrom(proc'[p])
    PROVE  AllOK'
<1> DEFINE s == proc'[p]
<1>1. /\ s \in Process /\ s.pc = "planned" /\ s.op = op /\ s.plan = plan
      /\ s.old = disk /\ s.changes = Changed(op, plan, disk) /\ s.index = 0
      /\ disk \in Disks /\ MadeFrom(s)
  BY DEF Starts, Typing
<1> HIDE DEF s
<1>2. Lists(s.changes, Differing(s)) /\ (s.op = "unapply" => InTurn(s.changes))
  BY <1>1, ChangedLists DEF Differing
<1>3. s.index \in 0..Len(s.changes)
  <2>1. s.changes \in Seq(Files)
    BY <1>1 DEF Process
  <2>2. Len(s.changes) \in Nat
    BY <2>1
  <2>. QED  BY <1>1, <2>2
<1>4. ProcOK(s)
  BY <1>1, <1>2, <1>3 DEF ProcOK, Planned, Placed, Turning
<1>. QED  BY <1>4, OthersOK DEF s, Starts, AllOK

(* The plans that the operations start with.                               *)
LEMMA Plans ==
    ASSUME Typing, NEW p \in Procs
    PROVE  /\ Apply(p) =>
                 \E version \in Versions, tier \in Tiers :
                    LET plan == PlanApply(disk, codexDir, version, tier, "new")
                    IN  plan \in Disks /\ Starts(p, "apply", plan, FALSE)
           /\ Unapply(p) =>
                 LET plan == PlanUnapply(disk)
                 IN  plan \in Disks /\ Starts(p, "unapply", plan,
                        Applied(disk) # Absent /\ Applied(disk).dirCreated)
           /\ SyncBinary(p) =>
                 \E version \in Versions :
                    LET plan == PlanSyncBinary(disk, version)
                    IN  plan \in Disks /\ Starts(p, "sync", plan, FALSE)
           /\ SyncGuidance(p) =>
                 LET plan == PlanSyncGuidance(disk)
                 IN  plan \in Disks /\ Starts(p, "sync", plan, FALSE)
           /\ OpenSettings(p) =>
                 LET plan == [f \in Files |->
                        IF f = "settings"
                        THEN [OrElse(disk[f], DefaultSettings) EXCEPT !.pref = 1 - @]
                        ELSE disk[f]]
                 IN  plan \in Disks /\ Starts(p, "preferences", plan, FALSE)
           /\ (Apply(p) \/ Unapply(p) \/ SyncBinary(p) \/ SyncGuidance(p) \/ OpenSettings(p))
                 => /\ proc[p].pc = "idle" /\ spent' \in Bounds
                    /\ UNCHANGED <<disk, codexDir, user>> /\ taint \subseteq taint'
<1>0. disk \in Disks /\ codexDir \in BOOLEAN
  BY DEF Typing
<1>1. ASSUME Apply(p)
      PROVE  /\ \E version \in Versions, tier \in Tiers :
                   LET plan == PlanApply(disk, codexDir, version, tier, "new")
                   IN  plan \in Disks /\ Starts(p, "apply", plan, FALSE)
             /\ proc[p].pc = "idle" /\ spent' \in Bounds
  <2>1. PICK version \in Versions \ {1}, tier \in Tiers :
           Start(p, "apply", PlanApply(disk, codexDir, version, tier, "new"), FALSE)
    BY <1>1 DEF Apply
  <2> DEFINE plan == PlanApply(disk, codexDir, version, tier, "new")
  <2>2. plan \in Disks
    BY <1>0, ApplyKinds
  <2> HIDE DEF plan
  <2>3. Start(p, "apply", plan, FALSE)
    BY <2>1 DEF plan
  <2>4. Starts(p, "apply", plan, FALSE) /\ proc[p].pc = "idle" /\ spent' \in Bounds
    BY <2>2, <2>3, StartEffect
  <2>. QED  BY <2>2, <2>4 DEF plan
<1>2. ASSUME Unapply(p)
      PROVE  /\ LET plan == PlanUnapply(disk)
                IN  plan \in Disks /\ Starts(p, "unapply", plan,
                       Applied(disk) # Absent /\ Applied(disk).dirCreated)
             /\ proc[p].pc = "idle" /\ spent' \in Bounds
  <2> DEFINE plan == PlanUnapply(disk)
             removes == Applied(disk) # Absent /\ Applied(disk).dirCreated
  <2>1. Start(p, "unapply", plan, removes)
    BY <1>2 DEF Unapply
  <2>2. plan \in Disks
    BY <1>0, UnapplyKinds
  <2>3. removes \in BOOLEAN
    BY <1>0, Kinds DEF Record
  <2> HIDE DEF plan, removes
  <2>4. Starts(p, "unapply", plan, removes) /\ proc[p].pc = "idle" /\ spent' \in Bounds
    BY <2>1, <2>2, <2>3, StartEffect
  <2>. QED  BY <2>2, <2>4 DEF plan, removes
<1>3. ASSUME SyncBinary(p)
      PROVE  /\ \E version \in Versions :
                   LET plan == PlanSyncBinary(disk, version)
                   IN  plan \in Disks /\ Starts(p, "sync", plan, FALSE)
             /\ proc[p].pc = "idle" /\ spent' \in Bounds
  <2>1. PICK version \in Versions \ {1} :
           Start(p, "sync", PlanSyncBinary(disk, version), FALSE)
    BY <1>3 DEF SyncBinary
  <2>0. CanSyncBinary(disk)
    BY <1>3 DEF SyncBinary
  <2> DEFINE plan == PlanSyncBinary(disk, version)
  <2>2. plan \in Disks
    BY <1>0, <2>0, SyncBinaryKinds
  <2> HIDE DEF plan
  <2>3. Start(p, "sync", plan, FALSE)
    BY <2>1 DEF plan
  <2>4. Starts(p, "sync", plan, FALSE) /\ proc[p].pc = "idle" /\ spent' \in Bounds
    BY <2>2, <2>3, StartEffect
  <2>. QED  BY <2>2, <2>4 DEF plan
<1>4. ASSUME SyncGuidance(p)
      PROVE  /\ LET plan == PlanSyncGuidance(disk)
                IN  plan \in Disks /\ Starts(p, "sync", plan, FALSE)
             /\ proc[p].pc = "idle" /\ spent' \in Bounds
  <2> DEFINE plan == PlanSyncGuidance(disk)
  <2>1. Start(p, "sync", plan, FALSE) /\ CanSyncGuidance(disk)
    BY <1>4 DEF SyncGuidance
  <2>2. plan \in Disks
    BY <1>0, <2>1, SyncGuidanceKinds
  <2> HIDE DEF plan
  <2>4. Starts(p, "sync", plan, FALSE) /\ proc[p].pc = "idle" /\ spent' \in Bounds
    BY <2>1, <2>2, StartEffect
  <2>. QED  BY <2>2, <2>4 DEF plan
<1>5. ASSUME OpenSettings(p)
      PROVE  /\ LET plan == [f \in Files |->
                        IF f = "settings"
                        THEN [OrElse(disk[f], DefaultSettings) EXCEPT !.pref = 1 - @]
                        ELSE disk[f]]
                IN  plan \in Disks /\ Starts(p, "preferences", plan, FALSE)
             /\ proc[p].pc = "idle" /\ spent' \in Bounds
  <2> DEFINE plan == [f \in Files |->
                        IF f = "settings"
                        THEN [OrElse(disk[f], DefaultSettings) EXCEPT !.pref = 1 - @]
                        ELSE disk[f]]
  <2>1. Start(p, "preferences", plan, FALSE)
    BY <1>5 DEF OpenSettings
  <2>2. plan \in Disks
    BY <1>0, PreferencesKinds
  <2> HIDE DEF plan
  <2>4. Starts(p, "preferences", plan, FALSE) /\ proc[p].pc = "idle" /\ spent' \in Bounds
    BY <2>1, <2>2, StartEffect
  <2>. QED  BY <2>2, <2>4 DEF plan
<1>6. (Apply(p) \/ Unapply(p) \/ SyncBinary(p) \/ SyncGuidance(p) \/ OpenSettings(p))
         => UNCHANGED <<disk, codexDir, user>> /\ taint \subseteq taint'
  BY DEF Apply, Unapply, SyncBinary, SyncGuidance, OpenSettings
<1>. QED  BY <1>1, <1>2, <1>3, <1>4, <1>5, <1>6

LEMMA StartsOK ==
    ASSUME Typing, NEW p \in Procs,
           Apply(p) \/ Unapply(p) \/ SyncBinary(p) \/ SyncGuidance(p) \/ OpenSettings(p)
    PROVE  Typing' /\ MadeFrom(proc'[p]) /\ proc'[p].pc = "planned" /\ proc'[p].old = disk
           /\ OthersStay(p)
<1>0. disk \in Disks /\ codexDir \in BOOLEAN
  BY DEF Typing
<1>1. CASE Apply(p)
  <2>1. PICK version \in Versions, tier \in Tiers :
           LET plan == PlanApply(disk, codexDir, version, tier, "new")
           IN  plan \in Disks /\ Starts(p, "apply", plan, FALSE)
    BY <1>1, Plans
  <2>2. MadeFrom(proc'[p])
    BY <1>0, <2>1 DEF Starts, MadeFrom
  <2>3. AllOK'
    BY <2>1, <2>2, StartOK
  <2>. QED  BY <1>1, <2>1, <2>2, <2>3, Plans DEF AllOK, Typing, Starts
<1>2. CASE Unapply(p)
  <2> DEFINE plan == PlanUnapply(disk)
             removes == Applied(disk) # Absent /\ Applied(disk).dirCreated
  <2>1. plan \in Disks /\ Starts(p, "unapply", plan, removes)
    BY <1>2, Plans
  <2>2. MadeFrom(proc'[p])
    BY <1>0, <2>1 DEF Starts, MadeFrom
  <2> HIDE DEF plan, removes
  <2>3. AllOK'
    BY <2>1, <2>2, StartOK
  <2>. QED  BY <1>2, <2>1, <2>2, <2>3, Plans DEF AllOK, Typing, Starts
<1>3. CASE SyncBinary(p)
  <2>1. PICK version \in Versions :
           LET plan == PlanSyncBinary(disk, version)
           IN  plan \in Disks /\ Starts(p, "sync", plan, FALSE)
    BY <1>3, Plans
  <2>2. MadeFrom(proc'[p])
    BY <1>0, <1>3, <2>1 DEF Starts, MadeFrom, SyncBinary
  <2>3. AllOK'
    BY <2>1, <2>2, StartOK
  <2>. QED  BY <1>3, <2>1, <2>2, <2>3, Plans DEF AllOK, Typing, Starts
<1>4. CASE SyncGuidance(p)
  <2> DEFINE plan == PlanSyncGuidance(disk)
  <2>1. plan \in Disks /\ Starts(p, "sync", plan, FALSE)
    BY <1>4, Plans
  <2>2. MadeFrom(proc'[p])
    BY <1>0, <1>4, <2>1 DEF Starts, MadeFrom, SyncGuidance
  <2> HIDE DEF plan
  <2>3. AllOK'
    BY <2>1, <2>2, StartOK
  <2>. QED  BY <1>4, <2>1, <2>2, <2>3, Plans DEF AllOK, Typing, Starts
<1>5. CASE OpenSettings(p)
  <2> DEFINE plan == [f \in Files |->
                        IF f = "settings"
                        THEN [OrElse(disk[f], DefaultSettings) EXCEPT !.pref = 1 - @]
                        ELSE disk[f]]
  <2>1. plan \in Disks /\ Starts(p, "preferences", plan, FALSE)
    BY <1>5, Plans
  <2>2. MadeFrom(proc'[p])
    BY <1>0, <2>1 DEF Starts, MadeFrom
  <2> HIDE DEF plan
  <2>3. AllOK'
    BY <2>1, <2>2, StartOK
  <2>. QED  BY <1>5, <2>1, <2>2, <2>3, Plans DEF AllOK, Typing, Starts
<1>. QED  BY <1>1, <1>2, <1>3, <1>4, <1>5

LEMMA CommitTyping ==
    ASSUME Typing, NEW p \in Procs,
           \/ Commit(p) \/ UnapplyCommit(p) \/ Compare(p) \/ Replace(p)
           \/ ReplaceFails(p)
    PROVE  Typing'
<1>0. disk \in Disks /\ codexDir \in BOOLEAN /\ user \in Users /\ spent \in Bounds
  BY DEF Typing
<1> DEFINE r == proc[p]
<1>1. CASE (Commit(p) \/ UnapplyCommit(p))
  <2>1. CommitStart(p) /\ r.pc # "idle"
    BY <1>1 DEF Commit, UnapplyCommit
  <2>2. UNCHANGED <<disk, user, spent>> /\ codexDir' \in BOOLEAN
    BY <1>0, <2>1, CommitStartEffect DEF TouchesCodexDir
  <2>3. AllOK'
    BY <2>1, CommitStartEffect, MovesOK, Within DEF AllOK, Turning
  <2>. QED  BY <1>0, <2>2, <2>3 DEF AllOK, Typing
<1>2. CASE Compare(p)
  <2>1. r.pc = "compare" /\ UNCHANGED <<disk, codexDir, user, spent>>
    BY <1>2, CompareEffect
  <2>2. AllOK'
    BY <1>2, <2>1, CompareEffect, MovesOK, Within DEF AllOK, Turning
  <2>. QED  BY <1>0, <2>1, <2>2 DEF AllOK, Typing
<1>3. CASE Replace(p)
  <2>1. r.pc = "replace" /\ Write(p, r.plan[Current(p)]) /\ UNCHANGED <<user, spent>>
    BY <1>3, ReplaceEffect
  <2>2. disk' \in Disks /\ codexDir' \in BOOLEAN
    BY <2>1, WriteEffect, PlansAreDisks DEF Turning
  <2>3. AllOK'
    <3>1. CASE r.index = Len(r.changes)
      BY <1>3, <2>1, <3>1, ReplaceEffect, MovesOK, Within DEF AllOK, Turning
    <3>2. CASE r.index # Len(r.changes)
      BY <1>3, <2>1, <3>2, ReplaceEffect, GoesOnOK, Within DEF AllOK, Turning, Becomes
    <3>. QED  BY <3>1, <3>2
  <2>. QED  BY <1>0, <2>1, <2>2, <2>3 DEF AllOK, Typing
<1>4. CASE ReplaceFails(p)
  <2>1. /\ r.pc = "replace" /\ proc' = RollBack(p, proc) /\ UNCHANGED <<disk, codexDir, user>>
        /\ spent' \in Bounds
    BY <1>4, SpendType DEF ReplaceFails
  <2>2. AllOK'
    BY <2>1, RollBackEffect, MovesOK, Within DEF AllOK, Turning
  <2>. QED  BY <1>0, <2>1, <2>2 DEF AllOK, Typing
<1>. QED  BY <1>1, <1>2, <1>3, <1>4

LEMMA BackTyping ==
    ASSUME Typing, NEW p \in Procs,
           \/ Recheck(p) \/ Restore(p) \/ RestoreFails(p) \/ Cleanup(p)
           \/ UnapplyStart(p) \/ Terminate(p) \/ TerminateFails(p)
    PROVE  Typing'
<1>0. disk \in Disks /\ codexDir \in BOOLEAN /\ user \in Users /\ spent \in Bounds
  BY DEF Typing
<1> DEFINE r == proc[p]
<1>1. CASE Recheck(p)
  <2>1. r.pc = "recheck" /\ UNCHANGED <<disk, codexDir, user, spent>>
    BY <1>1, RecheckEffect
  <2>2. AllOK'
    BY <1>1, <2>1, RecheckEffect, MovesOK, Within DEF AllOK, Turning
  <2>. QED  BY <1>0, <2>1, <2>2 DEF AllOK, Typing
<1>2. CASE Restore(p)
  <2>1. r.pc = "restore" /\ Write(p, r.old[Current(p)]) /\ UNCHANGED <<user, spent>>
    BY <1>2, RestoreEffect
  <2>2. disk' \in Disks /\ codexDir' \in BOOLEAN
    BY <2>1, WriteEffect, PlansAreDisks DEF Turning
  <2>3. AllOK'
    BY <1>2, <2>1, RestoreEffect, GoesOnOK, Within DEF AllOK, Turning, Becomes
  <2>. QED  BY <1>0, <2>1, <2>2, <2>3 DEF AllOK, Typing
<1>3. CASE RestoreFails(p)
  <2>1. /\ r.pc = "restore" /\ UNCHANGED <<disk, codexDir, user>> /\ spent' \in Bounds
    BY <1>3, SpendType DEF RestoreFails
  <2>2. AllOK'
    BY <1>3, <2>1, RestoreFailsEffect, MovesOK, Within DEF AllOK, Turning
  <2>. QED  BY <1>0, <2>1, <2>2 DEF AllOK, Typing
<1>4. CASE Cleanup(p)
  <2>1. /\ r.pc = "cleanup" /\ UNCHANGED <<disk, user, spent>> /\ codexDir' \in BOOLEAN
    BY <1>0, <1>4 DEF Cleanup
  <2>2. AllOK'
    <3>1. Goto(p, "unclean") \/ Goto(p, "rolled_back")
      BY <1>4 DEF Cleanup
    <3>2. "unclean" \in Phases /\ "rolled_back" \in Phases
      BY DEF Phases, Ended
    <3>. QED  BY <2>1, <3>1, <3>2, GotoEffect, MovesOK, Within DEF AllOK, Turning
  <2>. QED  BY <1>0, <2>1, <2>2 DEF AllOK, Typing
<1>5. CASE UnapplyStart(p)
  <2>1. /\ r.pc = "planned" /\ UNCHANGED <<disk, codexDir, user, spent>>
    BY <1>5 DEF UnapplyStart
  <2>2. AllOK'
    <3>1. Goto(p, "checked") \/ Goto(p, "refused")
      BY <1>5 DEF UnapplyStart
    <3>2. "checked" \in Phases /\ "refused" \in Phases
      BY DEF Phases, Ended
    <3>. QED  BY <2>1, <3>1, <3>2, GotoEffect, MovesOK, Within DEF AllOK, Turning
  <2>. QED  BY <1>0, <2>1, <2>2 DEF AllOK, Typing
<1>6. CASE Terminate(p)
  <2>1. UNCHANGED <<disk, codexDir, user, spent>> /\ AllThere'
    BY <1>6, TerminateEffect
  <2>2. ASSUME NEW q \in Procs PROVE ProcOK(proc'[q])
    <3>1. CASE q = p
      BY <1>6, <3>1, TerminateEffect, ProcMoves, Within DEF Typing, Turning, Alike
    <3>2. CASE q # p
      <4>1. Stays(proc[q], proc'[q]) \/ proc'[q] = Idle
        BY <1>6, <3>2, TerminateEffect
      <4>. QED  BY <4>1, ProcStays, IdleIsProcess DEF Typing
    <3>. QED  BY <3>1, <3>2
  <2>. QED  BY <1>0, <2>1, <2>2 DEF AllThere, Typing
<1>7. CASE TerminateFails(p)
  <2>1. /\ r.pc = "checked" /\ UNCHANGED <<disk, codexDir, user>> /\ spent' \in Bounds
        /\ Goto(p, "refused") /\ "refused" \in Phases
    BY <1>7, SpendType DEF TerminateFails, Phases, Ended
  <2>2. AllOK'
    BY <2>1, GotoEffect, MovesOK, Within DEF AllOK, Turning
  <2>. QED  BY <1>0, <2>1, <2>2 DEF AllOK, Typing
<1>. QED  BY <1>1, <1>2, <1>3, <1>4, <1>5, <1>6, <1>7

LEMMA TreeWrites ==
    ASSUME Typing, NEW p \in Procs, RemoveTree(p)
    PROVE  /\ disk' \in Disks /\ disk'["settings"] = Absent /\ disk'["binary"] = Absent
           /\ disk'["codex"] = disk["codex"] /\ disk'["agents"] = disk["agents"]
<1>1. disk \in Disks /\ disk' = [disk EXCEPT !["settings"] = Absent, !["binary"] = Absent]
  BY DEF RemoveTree, Typing
<1>2. DOMAIN disk = Files
  BY <1>1, DiskTypes
<1>3. /\ DOMAIN disk' = Files /\ disk' = [f \in Files |-> disk'[f]]
      /\ disk'["settings"] = Absent /\ disk'["binary"] = Absent
      /\ disk'["codex"] = disk["codex"] /\ disk'["agents"] = disk["agents"]
  BY <1>1, <1>2 DEF Files
<1>4. disk' \in Disks
  BY <1>1, <1>3, DiskTypes, DiskIsTyped
<1>. QED  BY <1>3, <1>4

LEMMA SaveWrites ==
    ASSUME Typing, NEW p \in Procs, SaveSettings(p)
    PROVE  /\ disk' \in Disks /\ disk'["settings"] = proc[p].plan["settings"]
           /\ \A g \in Files : g # "settings" => disk'[g] = disk[g]
<1> DEFINE e == proc[p].plan
<1>1. disk \in Disks /\ e \in Disks /\ disk' = [disk EXCEPT !["settings"] = e["settings"]]
      /\ "settings" \in Files
  BY SaveSettingsEffect, PlansAreDisks DEF SaveSettings, Typing, Files
<1> HIDE DEF e
<1>0. disk \in Disks
  BY <1>1
<1>2. ASSUME NEW c \in Disks, NEW f \in Files, disk' = [disk EXCEPT ![f] = c[f]]
      PROVE  disk' \in Disks /\ disk'[f] = c[f] /\ \A g \in Files : g # f => disk'[g] = disk[g]
  <2>1. LET n == [disk EXCEPT ![f] = c[f]]
        IN  n \in Disks /\ n[f] = c[f] /\ \A g \in Files : g # f => n[g] = disk[g]
    BY <1>0, WriteOne
  <2>. QED  BY <1>2, <2>1
<1>. QED  BY <1>1, <1>2 DEF e

LEMMA EndTyping ==
    ASSUME Typing, NEW p \in Procs,
           \/ RemoveTree(p) \/ RemoveTreeFails(p) \/ RemoveDir(p) \/ Finish(p)
           \/ SaveSettings(p) \/ Crash(p)
    PROVE  Typing'
<1>0. disk \in Disks /\ codexDir \in BOOLEAN /\ user \in Users /\ spent \in Bounds
  BY DEF Typing
<1> DEFINE r == proc[p]
<1>1. CASE RemoveTree(p)
  <2>1. r.pc = "tree" /\ UNCHANGED <<codexDir, user, spent>>
    BY <1>1 DEF RemoveTree
  <2>2. AllOK'
    BY <1>1, <2>1, RemoveTreeEffect, GoesOnOK, Within DEF AllOK, Turning, Becomes
  <2>. QED  BY <1>0, <1>1, <2>1, <2>2, TreeWrites DEF AllOK, Typing
<1>2. CASE RemoveTreeFails(p)
  <2>1. /\ r.pc = "tree" /\ UNCHANGED <<disk, codexDir, user>> /\ spent' \in Bounds
        /\ Goto(p, "leftover") /\ "leftover" \in Phases
    BY <1>2, SpendType DEF RemoveTreeFails, Phases, Ended
  <2>2. AllOK'
    BY <2>1, GotoEffect, MovesOK, Within DEF AllOK, Turning
  <2>. QED  BY <1>0, <2>1, <2>2 DEF AllOK, Typing
<1>3. CASE RemoveDir(p)
  <2>1. /\ r.pc = "dir" /\ UNCHANGED <<disk, user, spent>> /\ codexDir' \in BOOLEAN
        /\ Goto(p, "committed") /\ "committed" \in Phases
    BY <1>0, <1>3 DEF RemoveDir, Phases, Ended
  <2>2. AllOK'
    BY <2>1, GotoEffect, MovesOK, Within DEF AllOK, Turning
  <2>. QED  BY <1>0, <2>1, <2>2 DEF AllOK, Typing
<1>4. CASE Finish(p)
  <2>1. UNCHANGED <<disk, codexDir, user, spent>> /\ Ends(p)
    BY <1>4, EndEffect DEF Finish
  <2>2. AllOK'
    BY <2>1, OthersOK, IdleIsProcess DEF AllOK, Ends
  <2>. QED  BY <1>0, <2>1, <2>2 DEF AllOK, Typing
<1>5. CASE SaveSettings(p)
  <2>1. r.pc = "planned" /\ UNCHANGED <<codexDir, user, spent>>
    BY <1>5 DEF SaveSettings
  <2>2. AllOK'
    BY <1>5, <2>1, SaveSettingsEffect, GoesOnOK, Within DEF AllOK, Turning, Becomes
  <2>. QED  BY <1>0, <1>5, <2>1, <2>2, SaveWrites DEF AllOK, Typing
<1>6. CASE Crash(p)
  <2>1. UNCHANGED <<disk, codexDir, user>> /\ spent' \in Bounds /\ Ends(p)
    BY <1>6, EndEffect, SpendType DEF Crash
  <2>2. AllOK'
    BY <2>1, OthersOK, IdleIsProcess DEF AllOK, Ends
  <2>. QED  BY <1>0, <2>1, <2>2 DEF AllOK, Typing
<1>. QED  BY <1>1, <1>2, <1>3, <1>4, <1>5, <1>6

LEMMA EditTyping ==
    ASSUME Typing, UserEdit
    PROVE  Typing'
<1>1. codexDir' = TRUE /\ spent' \in Bounds
  BY SpendType DEF UserEdit
<1>2. disk' \in Disks /\ user' \in Users /\ AllThere'
      /\ \A q \in Procs : Stays(proc[q], proc'[q])
  <2>1. CASE EditAgents
    BY <2>1, EditAgentsEffect
  <2>2. CASE \E limit \in UserLimits : EditCodex("text", limit) \/ EditCodex("limit", limit)
    <3>1. PICK limit \in UserLimits : EditCodex("text", limit) \/ EditCodex("limit", limit)
      BY <2>2
    <3>. QED  BY <3>1, EditCodexEffect
  <2>. QED  BY <2>1, <2>2 DEF UserEdit
<1>3. \A q \in Procs : ProcOK(proc'[q])
  BY <1>2, ProcStays DEF Typing
<1>. QED  BY <1>1, <1>2, <1>3 DEF Typing, AllThere

LEMMA TypingStep == Typing /\ [Next]_vars => Typing'
<1> SUFFICES ASSUME Typing, [Next]_vars PROVE Typing'
  OBVIOUS
<1>1. CASE UNCHANGED vars
  BY <1>1 DEF vars, Typing
<1>2. CASE UserEdit
  BY <1>2, EditTyping
<1>3. ASSUME NEW p \in Procs, Step(p) PROVE Typing'
  BY <1>3, StartsOK, CommitTyping, BackTyping, EndTyping DEF Step
<1>. QED  BY <1>1, <1>2, <1>3 DEF Next

THEOREM TypeCorrect == Spec => []Typing
<1>1. Init => Typing
  BY InitTyping
<1>2. Typing /\ [Next]_vars => Typing'
  BY TypingStep
<1>. QED  BY <1>1, <1>2, PTL DEF Spec

(* What a process has put into the files and not yet taken back.           *)
Upto(r, n) == {r.changes[i] : i \in 1..n}
Carried(r) ==
    /\ r.pc \in {"idle", "planned", "checked", "stopped", "refused", "rolled_back"}
          => r.carries = {}
    /\ r.pc \in {"compare", "replace"} => r.carries \subseteq Upto(r, r.index - 1)
    /\ (r.pc \in {"recheck", "restore"} /\ ~r.unclean)
          => r.carries \subseteq Upto(r, r.index)
    /\ (r.pc = "cleanup" /\ ~r.unclean) => r.carries = {}
Carrying == \A p \in Procs : Carried(proc[p])

LEMMA StaysCarried ==
    ASSUME NEW r, NEW s, Carried(r), Stays(r, s)
    PROVE  Carried(s)
BY DEF Carried, Stays, Alike, Upto

LEMMA OthersCarried ==
    ASSUME Carrying, NEW p \in Procs, OthersStay(p), Carried(proc'[p])
    PROVE  Carrying'
BY StaysCarried DEF OthersStay, Carrying

(* The step that goes one file back, and the one that goes one further.    *)
LEMMA GoesBack ==
    ASSUME NEW r, NEW s, NEW n \in Nat, n > 0, Alike(r, s), s.index = n - 1,
           s.pc = IF n = 1 THEN "cleanup" ELSE "recheck",
           ~s.unclean => s.carries \subseteq Upto(r, n - 1)
    PROVE  Carried(s)
<1>1. Upto(s, n - 1) = Upto(r, n - 1)
  BY DEF Upto, Alike
<1>2. n = 1 => Upto(r, n - 1) = {}
  BY DEF Upto
<1>. QED  BY <1>1, <1>2 DEF Carried

LEMMA UptoNext ==
    ASSUME NEW r, NEW n \in Nat, n > 0
    PROVE  Upto(r, n) = Upto(r, n - 1) \cup {r.changes[n]}
<1>1. 1..n = (1..(n - 1)) \cup {n}
  OBVIOUS
<1>. QED  BY <1>1 DEF Upto

LEMMA CarryingCommit ==
    ASSUME Typing, Carrying, NEW p \in Procs,
           \/ Commit(p) \/ UnapplyCommit(p) \/ Compare(p) \/ Replace(p)
           \/ ReplaceFails(p) \/ Recheck(p) \/ Restore(p) \/ RestoreFails(p)
    PROVE  Carrying'
<1> DEFINE r == proc[p]
           s == proc'[p]
<1>0. /\ r.index \in Nat /\ (r.pc \in Turning => r.index > 0) /\ Carried(r)
      /\ r.changes[r.index] = Current(p)
  BY Within, CarriesType DEF Carrying
<1>1. CASE (Commit(p) \/ UnapplyCommit(p))
  <2>1. CommitStart(p) /\ r.pc \in {"planned", "stopped"}
    BY <1>1 DEF Commit, UnapplyCommit
  <2>2. r.carries = {}
    BY <1>0, <2>1 DEF Carried
  <2>3. OthersStay(p) /\ s.carries = {} /\ s.pc \in {"tree", "committed", "refused", "compare"}
    BY <2>1, <2>2, CommitStartEffect DEF Becomes
  <2>. QED  BY <2>3, OthersCarried DEF Carried
<1>2. CASE Compare(p)
  <2>1. r.pc = "compare" /\ r.carries \subseteq Upto(r, r.index - 1)
    BY <1>0, <1>2, CompareEffect DEF Carried
  <2>2. CASE Becomes(p, "replace", r.index, r.madeDir, r.unclean, r.carries)
    <3>1. Carried(s)
      BY <2>1, <2>2 DEF Becomes, Carried, Alike, Upto
    <3>. QED  BY <2>2, <3>1, OthersCarried DEF Becomes
  <2>3. CASE Becomes(p, IF r.index = 1 THEN "cleanup" ELSE "recheck", r.index - 1,
                     r.madeDir, r.unclean, r.carries)
    <3>1. Carried(s)
      BY <1>0, <2>1, <2>3, GoesBack DEF Becomes, Turning
    <3>. QED  BY <2>3, <3>1, OthersCarried DEF Becomes
  <2>. QED  BY <1>2, <2>2, <2>3, CompareEffect
<1>3. CASE Replace(p)
  <2>1. r.pc = "replace" /\ r.carries \subseteq Upto(r, r.index - 1)
    BY <1>0, <1>3, ReplaceEffect DEF Carried
  <2>2. r.carries \cup {Current(p)} \subseteq Upto(r, r.index)
    BY <1>0, <2>1, UptoNext DEF Turning
  <2>3. /\ OthersStay(p) /\ Alike(r, s) /\ s.carries = r.carries \cup {Current(p)}
        /\ \/ s.pc = "compare" /\ s.index = r.index + 1
           \/ s.pc \in {"tree", "committed"}
    BY <1>3, ReplaceEffect DEF Becomes
  <2>4. r.index = r.index + 1 - 1
    BY <1>0
  <2>6. Upto(s, r.index) = Upto(r, r.index)
    BY <2>3 DEF Upto, Alike
  <2>5. Carried(s)
    <3>1. CASE s.pc = "compare" /\ s.index = r.index + 1
      <4>1. s.index - 1 = r.index
        BY <1>0, <3>1
      <4>2. s.carries \subseteq Upto(s, s.index - 1)
        BY <2>2, <2>3, <2>6, <4>1
      <4>. QED  BY <3>1, <4>2 DEF Carried
    <3>2. CASE s.pc \in {"tree", "committed"}
      BY <3>2 DEF Carried
    <3>. QED  BY <2>3, <3>1, <3>2
  <2>. QED  BY <2>3, <2>5, OthersCarried
<1>4. CASE ReplaceFails(p)
  <2>1. r.pc = "replace" /\ r.carries \subseteq Upto(r, r.index - 1) /\ proc' = RollBack(p, proc)
    BY <1>0, <1>4 DEF Carried, ReplaceFails
  <2>2. Becomes(p, IF r.index = 1 THEN "cleanup" ELSE "recheck", r.index - 1,
                r.madeDir, r.unclean, r.carries)
    BY <2>1, RollBackEffect DEF Turning
  <2>3. Carried(s)
    BY <1>0, <2>1, <2>2, GoesBack DEF Becomes, Turning
  <2>. QED  BY <2>2, <2>3, OthersCarried DEF Becomes
<1>5. CASE Recheck(p)
  <2>1. r.pc = "recheck" /\ (~r.unclean => r.carries \subseteq Upto(r, r.index))
    BY <1>0, <1>5, RecheckEffect DEF Carried
  <2>2. CASE Becomes(p, "restore", r.index, r.madeDir, r.unclean, r.carries)
    <3>1. Carried(s)
      BY <2>1, <2>2 DEF Becomes, Carried, Alike, Upto
    <3>. QED  BY <2>2, <3>1, OthersCarried DEF Becomes
  <2>3. CASE Becomes(p, IF r.index = 1 THEN "cleanup" ELSE "recheck", r.index - 1,
                     r.madeDir, TRUE, r.carries)
    <3>1. Carried(s)
      BY <1>0, <2>1, <2>3, GoesBack DEF Becomes, Turning
    <3>. QED  BY <2>3, <3>1, OthersCarried DEF Becomes
  <2>. QED  BY <1>5, <2>2, <2>3, RecheckEffect
<1>6. CASE Restore(p)
  <2>1. r.pc = "restore" /\ (~r.unclean => r.carries \subseteq Upto(r, r.index))
    BY <1>0, <1>6, RestoreEffect DEF Carried
  <2>2. Becomes(p, IF r.index = 1 THEN "cleanup" ELSE "recheck", r.index - 1,
                r.madeDir, r.unclean, r.carries \ {Current(p)})
    BY <1>6, RestoreEffect
  <2>3. ~r.unclean => r.carries \ {Current(p)} \subseteq Upto(r, r.index - 1)
    BY <1>0, <2>1, UptoNext DEF Turning
  <2>4. Carried(s)
    BY <1>0, <2>1, <2>2, <2>3, GoesBack DEF Becomes, Turning
  <2>. QED  BY <2>2, <2>4, OthersCarried DEF Becomes
<1>7. CASE RestoreFails(p)
  <2>1. /\ r.pc = "restore"
        /\ Becomes(p, IF r.index = 1 THEN "cleanup" ELSE "recheck", r.index - 1,
                   r.madeDir, TRUE, r.carries)
    BY <1>7, RestoreFailsEffect
  <2>2. Carried(s)
    BY <1>0, <2>1, GoesBack DEF Becomes, Turning
  <2>. QED  BY <2>1, <2>2, OthersCarried DEF Becomes
<1>. QED  BY <1>1, <1>2, <1>3, <1>4, <1>5, <1>6, <1>7

LEMMA CarryingRest ==
    ASSUME Typing, Carrying, NEW p \in Procs,
           \/ Apply(p) \/ Unapply(p) \/ SyncBinary(p) \/ SyncGuidance(p) \/ OpenSettings(p)
           \/ Cleanup(p) \/ UnapplyStart(p) \/ Terminate(p) \/ TerminateFails(p)
           \/ RemoveTree(p) \/ RemoveTreeFails(p) \/ RemoveDir(p) \/ Finish(p)
           \/ SaveSettings(p) \/ Crash(p)
    PROVE  Carrying'
<1> DEFINE r == proc[p]
           s == proc'[p]
<1>0. Carried(r) /\ Carried(Idle)
  BY DEF Carrying, Carried, Idle
<1>1. CASE (Apply(p) \/ Unapply(p) \/ SyncBinary(p) \/ SyncGuidance(p) \/ OpenSettings(p))
  <2>1. OthersStay(p) /\ s.pc = "planned" /\ s.carries = {}
    BY <1>1, Plans DEF Starts
  <2>. QED  BY <2>1, OthersCarried DEF Carried
<1>2. CASE Cleanup(p)
  <2>1. /\ r.pc = "cleanup"
        /\ \/ r.unclean /\ Goto(p, "unclean")
           \/ ~r.unclean /\ Goto(p, "rolled_back")
    BY <1>2 DEF Cleanup
  <2>2. "unclean" \in Phases /\ "rolled_back" \in Phases
    BY DEF Phases, Ended
  <2>3. /\ OthersStay(p) /\ s.carries = r.carries
        /\ s.pc = IF r.unclean THEN "unclean" ELSE "rolled_back"
    BY <2>1, <2>2, GotoEffect DEF Becomes
  <2>. QED  BY <1>0, <2>1, <2>3, OthersCarried DEF Carried
<1>3. CASE (UnapplyStart(p) \/ TerminateFails(p))
  <2>1. /\ r.pc \in {"planned", "checked"} /\ (Goto(p, "checked") \/ Goto(p, "refused"))
        /\ "checked" \in Phases /\ "refused" \in Phases
    BY <1>3 DEF UnapplyStart, TerminateFails, Phases, Ended
  <2>2. OthersStay(p) /\ s.carries = r.carries /\ s.pc \in {"checked", "refused"}
    BY <2>1, GotoEffect DEF Becomes
  <2>. QED  BY <1>0, <2>1, <2>2, OthersCarried DEF Carried
<1>4. CASE Terminate(p)
  <2>1. ASSUME NEW q \in Procs PROVE Carried(proc'[q])
    <3>1. CASE q = p
      BY <1>0, <1>4, <3>1, TerminateEffect DEF Carried
    <3>2. CASE q # p
      BY <1>0, <1>4, <3>2, TerminateEffect, StaysCarried DEF Carrying
    <3>. QED  BY <3>1, <3>2
  <2>. QED  BY <2>1 DEF Carrying
<1>5. CASE (RemoveTree(p) \/ SaveSettings(p))
  <2>1. OthersStay(p) /\ s.pc \in {"dir", "committed"}
    BY <1>5, RemoveTreeEffect, SaveSettingsEffect DEF Becomes
  <2>. QED  BY <2>1, OthersCarried DEF Carried
<1>6. CASE (RemoveTreeFails(p) \/ RemoveDir(p))
  <2>1. /\ (Goto(p, "leftover") \/ Goto(p, "committed"))
        /\ "leftover" \in Phases /\ "committed" \in Phases
    BY <1>6 DEF RemoveTreeFails, RemoveDir, Phases, Ended
  <2>2. OthersStay(p) /\ s.pc \in {"leftover", "committed"}
    BY <2>1, GotoEffect DEF Becomes
  <2>. QED  BY <2>2, OthersCarried DEF Carried
<1>7. CASE (Finish(p) \/ Crash(p))
  <2>1. Ends(p)
    BY <1>7, EndEffect DEF Finish, Crash
  <2>. QED  BY <1>0, <2>1, OthersCarried DEF Ends
<1>. QED  BY <1>1, <1>2, <1>3, <1>4, <1>5, <1>6, <1>7

LEMMA EditStays ==
    ASSUME Typing, UserEdit
    PROVE  AllThere' /\ \A q \in Procs : Stays(proc[q], proc'[q])
<1>1. CASE EditAgents
  BY <1>1, EditAgentsEffect
<1>2. CASE \E limit \in UserLimits : EditCodex("text", limit) \/ EditCodex("limit", limit)
  BY <1>2, EditCodexEffect
<1>. QED  BY <1>1, <1>2 DEF UserEdit

LEMMA CarryingStep == Typing /\ Carrying /\ [Next]_vars => Carrying'
<1> SUFFICES ASSUME Typing, Carrying, [Next]_vars PROVE Carrying'
  OBVIOUS
<1>1. CASE UNCHANGED vars
  BY <1>1 DEF vars, Carrying
<1>2. CASE UserEdit
  BY <1>2, EditStays, StaysCarried DEF Carrying
<1>3. ASSUME NEW p \in Procs, Step(p) PROVE Carrying'
  BY <1>3, CarryingCommit, CarryingRest DEF Step
<1>. QED  BY <1>1, <1>2, <1>3 DEF Next

LEMMA TypeOKHolds == Typing => TypeOK
<1> SUFFICES ASSUME Typing PROVE TypeOK
  OBVIOUS
<1>1. disk \in Disks /\ codexDir \in BOOLEAN
  BY DEF Typing
<1>2. ASSUME NEW p \in Procs
      PROVE  /\ proc[p].pc \in Phases /\ proc[p].carries \subseteq Files
             /\ proc[p].index \in 0..Len(proc[p].changes)
             /\ (proc[p].pc \in {"compare", "replace", "recheck", "restore"})
                   => proc[p].index > 0
             /\ \A i \in DOMAIN proc[p].changes : proc[p].changes[i] \in Files
  <2>1. proc[p] \in Process /\ Placed(proc[p])
    BY DEF Typing, ProcOK
  <2>2. \A i \in DOMAIN proc[p].changes : proc[p].changes[i] \in Files
    <3>1. proc[p].changes \in Seq(Files)
      BY <2>1 DEF Process
    <3>. QED  BY <3>1
  <2>. QED  BY <2>1, <2>2 DEF Process, Placed, Turning
<1>. QED  BY <1>1, <1>2, DiskTypes DEF TypeOK

(* A commit that reports a clean rollback, or a refusal, leaves no content *)
(* of its own in any file (control/transaction.rs, rollback).              *)
THEOREM CleanlyRolledBack == Spec => []FailedCommitIsClean
<1>1. Init => Carrying
  BY DEF Init, Carrying, Carried, Idle
<1>2. Typing /\ Carrying => FailedCommitIsClean
  BY TypeOKHolds DEF Carrying, Carried, FailedCommitIsClean
<1>. QED  BY <1>1, <1>2, CarryingStep, TypeCorrect, PTL DEF Spec

(* Between the comparison of a file and the rename that relies on it, the  *)
(* file is what was compared, unless that is counted as a race.            *)
WindowHolds(p) ==
    /\ proc[p].pc = "replace" => disk[Current(p)] = proc[p].old[Current(p)]
    /\ proc[p].pc = "restore" => disk[Current(p)] = proc[p].plan[Current(p)]
Windows == "raced" \notin taint => \A p \in Procs : WindowHolds(p)
TextKept == "raced" \notin taint =>
                \A f \in Owned : TextOf(disk[f]) = TextOf(user[f])

LEMMA OwnedFiles == Owned \subseteq Files /\ "settings" \in Files /\ "binary" \in Files
                    /\ "settings" \notin Owned /\ "binary" \notin Owned
BY DEF Owned, Files

(* Windows of the processes that go on, under a change of the files that   *)
(* none of them has just compared.                                         *)
LEMMA OthersWindows ==
    ASSUME Typing, NEW q \in Procs, WindowHolds(q), Stays(proc[q], proc'[q]),
           InWindow(q, Current(q)) => disk'[Current(q)] = disk[Current(q)]
    PROVE  WindowHolds(q)'
BY DEF Stays, Alike, WindowHolds, Current, InWindow

LEMMA NoOverlooked ==
    ASSUME NEW p, NEW f, Overlooked(p, f) \subseteq taint', "raced" \notin taint',
           NEW q \in Procs, q # p
    PROVE  ~InWindow(q, f)
BY DEF Overlooked

(* A step that leaves the files alone only has to prove its own window.    *)
LEMMA QuietWindows ==
    ASSUME Typing, Windows, NEW p \in Procs, OthersStay(p), UNCHANGED disk,
           taint \subseteq taint', "raced" \notin taint' => WindowHolds(p)'
    PROVE  Windows'
BY OthersWindows DEF Windows, OthersStay

LEMMA WriteWindows ==
    ASSUME Typing, Windows, NEW p \in Procs, OthersStay(p), NEW f \in Files,
           \A g \in Files : g # f => disk'[g] = disk[g],
           taint \subseteq taint', Overlooked(p, f) \subseteq taint',
           proc'[p].pc \notin {"replace", "restore"}
    PROVE  Windows'
<1> SUFFICES ASSUME "raced" \notin taint', NEW q \in Procs PROVE WindowHolds(q)'
  BY DEF Windows
<1>1. CASE q = p
  BY <1>1 DEF WindowHolds
<1>2. CASE q # p
  <2>1. ~InWindow(q, f)
    BY <1>2, NoOverlooked
  <2>2. InWindow(q, Current(q)) => Current(q) \in Files /\ Current(q) # f
    BY <2>1, CarriesType DEF InWindow, Turning
  <2>. QED  BY <1>2, <2>2, OthersWindows DEF OthersStay, Windows
<1>. QED  BY <1>1, <1>2

(* What a step may do to the files and to what is known of them.           *)
TextSame == /\ user' = user /\ \A f \in Owned : TextOf(disk'[f]) = TextOf(disk[f])
LEMMA TextStays ==
    ASSUME TextKept, TextSame, taint \subseteq taint'
    PROVE  TextKept'
BY DEF TextKept, TextSame

LEMMA TextWrite ==
    ASSUME Typing, Windows, TextKept, NEW p \in Procs, proc[p].pc \in {"replace", "restore"},
           NEW e \in Disks, Write(p, e[Current(p)]), UNCHANGED user,
           \/ proc[p].pc = "replace" /\ e = proc[p].plan
           \/ proc[p].pc = "restore" /\ e = proc[p].old,
           OthersStay(p), proc'[p].pc \notin {"replace", "restore"}
    PROVE  Windows' /\ TextKept'
<1> DEFINE f == Current(p)
<1>1. /\ f \in Files /\ disk'[f] = e[f] /\ \A g \in Files : g # f => disk'[g] = disk[g]
      /\ taint' = taint \cup Overlooked(p, f) \cup Unnoticed(p)
  BY WriteEffect DEF Turning
<1>2. taint \subseteq taint' /\ Overlooked(p, f) \subseteq taint'
  BY <1>1
<1>3. Windows'
  <2> HIDE DEF f
  <2>. QED  BY <1>1, <1>2, WriteWindows
<1>4. \A g \in Owned : TextOf(proc[p].plan[g]) = TextOf(proc[p].old[g])
  BY PlansKeepText DEF Typing, ProcOK, Planned
<1>5. ASSUME "raced" \notin taint', NEW g \in Owned PROVE TextOf(disk'[g]) = TextOf(user[g])
  <2>1. "raced" \notin taint /\ WindowHolds(p) /\ TextOf(disk[g]) = TextOf(user[g])
    BY <1>2, <1>5 DEF Windows, TextKept
  <2>2. CASE g = f
    BY <1>1, <1>4, <2>1, <2>2 DEF WindowHolds
  <2>3. CASE g # f
    BY <1>1, <2>1, <2>3, OwnedFiles
  <2>. QED  BY <2>2, <2>3
<1>6. TextKept'
  BY <1>5 DEF TextKept
<1>. QED  BY <1>3, <1>6

LEMMA TextCommit ==
    ASSUME Typing, Windows, TextKept, NEW p \in Procs,
           \/ Commit(p) \/ UnapplyCommit(p) \/ Compare(p) \/ Replace(p)
           \/ ReplaceFails(p) \/ Recheck(p) \/ Restore(p) \/ RestoreFails(p)
    PROVE  Windows' /\ TextKept'
<1> DEFINE r == proc[p]
           s == proc'[p]
<1>1. CASE (Commit(p) \/ UnapplyCommit(p))
  <2>1. CommitStart(p)
    BY <1>1 DEF Commit, UnapplyCommit
  <2>2. /\ OthersStay(p) /\ UNCHANGED <<disk, user>> /\ taint \subseteq taint'
        /\ s.pc \in {"tree", "committed", "refused", "compare"}
    BY <2>1, CommitStartEffect DEF Becomes
  <2>. QED  BY <2>2, QuietWindows, TextStays DEF WindowHolds, TextSame
<1>2. CASE Compare(p)
  <2>1. UNCHANGED <<disk, user, taint>>
    BY <1>2, CompareEffect
  <2>2. OthersStay(p) /\ WindowHolds(p)'
    BY <1>2, CompareEffect DEF Becomes, WindowHolds, Alike, Current
  <2>. QED  BY <2>1, <2>2, QuietWindows, TextStays DEF TextSame
<1>3. CASE Replace(p)
  <2>1. /\ r.pc = "replace" /\ Write(p, r.plan[Current(p)]) /\ UNCHANGED user
        /\ OthersStay(p) /\ s.pc \notin {"replace", "restore"}
    BY <1>3, ReplaceEffect DEF Becomes
  <2>2. r.plan \in Disks
    BY <2>1, PlansAreDisks
  <2>. QED  BY <2>1, <2>2, TextWrite
<1>4. CASE ReplaceFails(p)
  <2>1. r.pc \in Turning /\ proc' = RollBack(p, proc) /\ UNCHANGED <<disk, user, taint>>
    BY <1>4 DEF ReplaceFails, Turning
  <2>2. OthersStay(p) /\ s.pc \in {"cleanup", "recheck"}
    BY <2>1, RollBackEffect DEF Becomes
  <2>. QED  BY <2>1, <2>2, QuietWindows, TextStays DEF TextSame, WindowHolds
<1>5. CASE Recheck(p)
  <2>1. UNCHANGED <<disk, user>> /\ taint \subseteq taint'
    BY <1>5, RecheckEffect
  <2>2. OthersStay(p) /\ WindowHolds(p)'
    BY <1>5, RecheckEffect DEF Becomes, WindowHolds, Alike, Current
  <2>. QED  BY <2>1, <2>2, QuietWindows, TextStays DEF TextSame
<1>6. CASE Restore(p)
  <2>1. /\ r.pc = "restore" /\ Write(p, r.old[Current(p)]) /\ UNCHANGED user
        /\ OthersStay(p) /\ s.pc \notin {"replace", "restore"}
    BY <1>6, RestoreEffect DEF Becomes
  <2>2. r.old \in Disks
    BY <2>1, PlansAreDisks
  <2>. QED  BY <2>1, <2>2, TextWrite
<1>7. CASE RestoreFails(p)
  <2>1. /\ UNCHANGED <<disk, user>> /\ taint \subseteq taint' /\ OthersStay(p)
        /\ s.pc \in {"cleanup", "recheck"}
    BY <1>7, RestoreFailsEffect DEF Becomes
  <2>. QED  BY <2>1, QuietWindows, TextStays DEF TextSame, WindowHolds
<1>. QED  BY <1>1, <1>2, <1>3, <1>4, <1>5, <1>6, <1>7

LEMMA TextRest ==
    ASSUME Typing, Windows, TextKept, NEW p \in Procs,
           \/ Apply(p) \/ Unapply(p) \/ SyncBinary(p) \/ SyncGuidance(p) \/ OpenSettings(p)
           \/ Cleanup(p) \/ UnapplyStart(p) \/ Terminate(p) \/ TerminateFails(p)
           \/ RemoveTree(p) \/ RemoveTreeFails(p) \/ RemoveDir(p) \/ Finish(p)
           \/ SaveSettings(p) \/ Crash(p)
    PROVE  Windows' /\ TextKept'
<1> DEFINE r == proc[p]
           s == proc'[p]
<1>1. CASE (Apply(p) \/ Unapply(p) \/ SyncBinary(p) \/ SyncGuidance(p) \/ OpenSettings(p))
  <2>1. /\ OthersStay(p) /\ s.pc = "planned" /\ UNCHANGED <<disk, user>>
        /\ taint \subseteq taint'
    BY <1>1, Plans DEF Starts
  <2>. QED  BY <2>1, QuietWindows, TextStays DEF TextSame, WindowHolds
<1>2. CASE (Cleanup(p) \/ UnapplyStart(p) \/ TerminateFails(p) \/ RemoveTreeFails(p) \/ RemoveDir(p))
  <2>1. /\ UNCHANGED <<disk, user>> /\ taint \subseteq taint'
        /\ \E pc \in {"unclean", "rolled_back", "checked", "refused", "leftover", "committed"} :
              Goto(p, pc)
    BY <1>2 DEF Cleanup, UnapplyStart, TerminateFails, RemoveTreeFails, RemoveDir
  <2>2. {"unclean", "rolled_back", "checked", "refused", "leftover", "committed"} \subseteq Phases
    BY DEF Phases, Ended
  <2>3. OthersStay(p) /\ s.pc \notin {"replace", "restore"}
    BY <2>1, <2>2, GotoEffect DEF Becomes
  <2>. QED  BY <2>1, <2>3, QuietWindows, TextStays DEF TextSame, WindowHolds
<1>3. CASE Terminate(p)
  <2>1. UNCHANGED <<disk, user>> /\ taint \subseteq taint'
    BY <1>3, TerminateEffect
  <2>2. ASSUME "raced" \notin taint', NEW q \in Procs PROVE WindowHolds(q)'
    <3>1. WindowHolds(q)
      BY <2>1, <2>2 DEF Windows
    <3>2. CASE q = p
      BY <1>3, <3>2, TerminateEffect DEF WindowHolds
    <3>3. CASE q # p /\ Stays(proc[q], proc'[q])
      BY <2>1, <3>1, <3>3, OthersWindows
    <3>4. CASE proc'[q] = Idle
      BY <3>4 DEF WindowHolds, Idle
    <3>. QED  BY <1>3, <3>2, <3>3, <3>4, TerminateEffect
  <2>. QED  BY <2>1, <2>2, TextStays DEF TextSame, Windows
<1>4. CASE RemoveTree(p)
  <2>1. /\ OthersStay(p) /\ s.pc = "dir"
    BY <1>4, RemoveTreeEffect DEF Becomes
  <2>2. /\ disk'["codex"] = disk["codex"] /\ disk'["agents"] = disk["agents"]
        /\ \A g \in Files : g \notin {"settings", "binary"} => disk'[g] = disk[g]
    BY <1>4, TreeWrites DEF Files
  <2>3. /\ taint \subseteq taint' /\ UNCHANGED user
        /\ Overlooked(p, "settings") \subseteq taint' /\ Overlooked(p, "binary") \subseteq taint'
    BY <1>4 DEF RemoveTree
  <2>4. ASSUME "raced" \notin taint', NEW q \in Procs PROVE WindowHolds(q)'
    <3>1. CASE q = p
      BY <2>1, <3>1 DEF WindowHolds
    <3>2. CASE q # p
      <4>1. ~InWindow(q, "settings") /\ ~InWindow(q, "binary")
        BY <2>3, <2>4, <3>2, NoOverlooked
      <4>2. InWindow(q, Current(q)) =>
               Current(q) \in Files /\ Current(q) \notin {"settings", "binary"}
        BY <4>1, CarriesType DEF InWindow, Turning
      <4>3. WindowHolds(q)
        BY <2>3, <2>4 DEF Windows
      <4>4. Stays(proc[q], proc'[q])
        BY <2>1, <3>2 DEF OthersStay
      <4>. QED  BY <2>2, <4>2, <4>3, <4>4, OthersWindows
    <3>. QED  BY <3>1, <3>2
  <2>. QED  BY <2>2, <2>3, <2>4, TextStays DEF TextSame, Windows, Owned
<1>5. CASE SaveSettings(p)
  <2>1. OthersStay(p) /\ s.pc = "committed"
    BY <1>5, SaveSettingsEffect DEF Becomes
  <2>2. \A g \in Files : g # "settings" => disk'[g] = disk[g]
    BY <1>5, SaveWrites
  <2>3. taint \subseteq taint' /\ UNCHANGED user /\ Overlooked(p, "settings") \subseteq taint'
    BY <1>5 DEF SaveSettings
  <2>4. TextSame
    BY <2>2, <2>3, OwnedFiles DEF TextSame
  <2>. QED  BY <2>1, <2>2, <2>3, <2>4, WriteWindows, TextStays, OwnedFiles
<1>6. CASE (Finish(p) \/ Crash(p))
  <2>1. Ends(p) /\ UNCHANGED <<disk, user>> /\ taint \subseteq taint'
    BY <1>6, EndEffect DEF Finish, Crash
  <2>2. WindowHolds(p)'
    BY <2>1 DEF Ends, Idle, WindowHolds
  <2>. QED  BY <2>1, <2>2, QuietWindows, TextStays DEF TextSame, Ends
<1>. QED  BY <1>1, <1>2, <1>3, <1>4, <1>5, <1>6

LEMMA TextEdit ==
    ASSUME Typing, Windows, TextKept, UserEdit
    PROVE  Windows' /\ TextKept'
<1>1. PICK f \in Owned :
         /\ \A g \in Files : g # f => disk'[g] = disk[g]
         /\ \A g \in Owned : g # f => user'[g] = user[g]
         /\ TextOf(disk[f]) = TextOf(user[f]) => TextOf(disk'[f]) = TextOf(user'[f])
         /\ taint \subseteq taint'
         /\ (\E q \in Procs : InWindow(q, f)) => "raced" \in taint'
  <2>1. ASSUME NEW c, NEW n PROVE OrElse(c, [text |-> 0]).text = TextOf(c) \/ TRUE
    OBVIOUS
  <2>2. CASE EditAgents
    <3>1. /\ disk'["agents"].text = OrElse(disk["agents"], NoAgents).text + 1
          /\ user'["agents"].text = OrElse(user["agents"], NoAgents).text + 1
          /\ disk'["agents"] \in AgentsText /\ user'["agents"] \in AgentsText
          /\ \A g \in Files : g # "agents" => disk'[g] = disk[g]
          /\ user'["codex"] = user["codex"] /\ taint \subseteq taint'
          /\ (\E q \in Procs : InWindow(q, "agents")) => "raced" \in taint'
      BY <2>2, EditAgentsEffect
    <3>2. /\ TextOf(disk'["agents"]) = TextOf(disk["agents"]) + 1
          /\ TextOf(user'["agents"]) = TextOf(user["agents"]) + 1
      BY <3>1 DEF TextOf, OrElse, NoAgents
    <3>. QED  BY <3>1, <3>2 DEF Owned
  <2>3. CASE \E limit \in UserLimits : EditCodex("text", limit) \/ EditCodex("limit", limit)
    <3>0. PICK limit \in UserLimits, what \in {"text", "limit"} : EditCodex(what, limit)
      BY <2>3
    <3>1. /\ \/ /\ disk'["codex"].text = OrElse(disk["codex"], NoCodex).text + 1
                /\ user'["codex"].text = OrElse(user["codex"], NoCodex).text + 1
             \/ /\ disk'["codex"].text = OrElse(disk["codex"], NoCodex).text
                /\ user'["codex"].text = OrElse(user["codex"], NoCodex).text
          /\ disk'["codex"] \in CodexText /\ user'["codex"] \in CodexText
          /\ \A g \in Files : g # "codex" => disk'[g] = disk[g]
          /\ user'["agents"] = user["agents"] /\ taint \subseteq taint'
          /\ (\E q \in Procs : InWindow(q, "codex")) => "raced" \in taint'
      BY <3>0, EditCodexEffect
    <3>2. \/ /\ TextOf(disk'["codex"]) = TextOf(disk["codex"]) + 1
             /\ TextOf(user'["codex"]) = TextOf(user["codex"]) + 1
          \/ /\ TextOf(disk'["codex"]) = TextOf(disk["codex"])
             /\ TextOf(user'["codex"]) = TextOf(user["codex"])
      BY <3>1 DEF TextOf, OrElse, NoCodex
    <3>. QED  BY <3>1, <3>2 DEF Owned
  <2>. QED  BY <2>2, <2>3 DEF UserEdit
<1>2. ASSUME "raced" \notin taint', NEW q \in Procs PROVE WindowHolds(q)'
  <2>1. ~InWindow(q, f)
    BY <1>1, <1>2
  <2>2. InWindow(q, Current(q)) => Current(q) \in Files /\ Current(q) # f
    BY <2>1, CarriesType DEF InWindow, Turning
  <2>3. WindowHolds(q)
    BY <1>1, <1>2 DEF Windows
  <2>. QED  BY <1>1, <2>2, <2>3, EditStays, OthersWindows
<1>3. ASSUME "raced" \notin taint', NEW g \in Owned PROVE TextOf(disk'[g]) = TextOf(user'[g])
  BY <1>1, <1>3, OwnedFiles DEF TextKept
<1>. QED  BY <1>2, <1>3 DEF Windows, TextKept

LEMMA TextStep == Typing /\ Windows /\ TextKept /\ [Next]_vars => Windows' /\ TextKept'
<1> SUFFICES ASSUME Typing, Windows, TextKept, [Next]_vars PROVE Windows' /\ TextKept'
  OBVIOUS
<1>1. CASE UNCHANGED vars
  BY <1>1 DEF vars, Windows, TextKept, WindowHolds, Current
<1>2. CASE UserEdit
  BY <1>2, TextEdit
<1>3. ASSUME NEW p \in Procs, Step(p) PROVE Windows' /\ TextKept'
  BY <1>3, TextCommit, TextRest DEF Step
<1>. QED  BY <1>1, <1>2, <1>3 DEF Next

LEMMA TextInit == Init => Windows /\ TextKept
<1> SUFFICES ASSUME Init PROVE Windows /\ TextKept
  OBVIOUS
<1>1. Windows
  BY DEF Init, Windows, WindowHolds, Idle
<1>2. PICK c \in UserCodex, a \in UserAgents, installed \in BOOLEAN :
        LET dir == c # Absent \/ a # Absent
        IN  /\ user = [codex |-> c, agents |-> a, dir |-> dir]
            /\ IF installed
               THEN \E tier \in Tiers :
                       disk = PlanApply(Bare(c, a), dir, 1, tier, "old")
               ELSE disk = Bare(c, a)
  BY InitShape
<1> DEFINE bare == Bare(c, a)
           dir == c # Absent \/ a # Absent
<1>3. user["codex"] = c /\ user["agents"] = a
  BY <1>2
<1>4. bare \in Disks /\ bare["codex"] = c /\ bare["agents"] = a
  BY <1>2, BareIsDisk
<1>5. CASE disk = bare
  <2> HIDE DEF bare
  <2>1. disk["codex"] = user["codex"] /\ disk["agents"] = user["agents"]
    BY <1>3, <1>4, <1>5
  <2>. QED  BY <1>1, <2>1 DEF TextKept, Owned
<1>6. ASSUME NEW tier \in Tiers, disk = PlanApply(bare, dir, 1, tier, "old")
      PROVE  TextKept
  <2>1. dir \in BOOLEAN
    OBVIOUS
  <2> HIDE DEF bare, dir
  <2>2. /\ disk["codex"] = CodexApply(bare["codex"], tier)
        /\ disk["agents"] = AgentsApply(OrElse(bare["agents"], NoAgents), "old")
    BY <1>4, <1>6, <2>1, ApplyKinds
  <2>3. /\ disk["codex"] \in CodexText
        /\ disk["codex"].text = OrElse(c, NoCodex).text
    BY <1>4, <2>2, CodexKinds, DiskTypes DEF Limits
  <2>4. /\ disk["agents"] \in AgentsText
        /\ disk["agents"].text = OrElse(a, NoAgents).text
    BY <1>4, <2>2, AgentsKinds, Kinds
  <2>5. TextOf(disk["codex"]) = TextOf(c) /\ TextOf(disk["agents"]) = TextOf(a)
    BY <2>3, <2>4 DEF TextOf, OrElse, NoCodex, NoAgents
  <2>. QED  BY <1>3, <2>5 DEF TextKept, Owned
<1>7. TextKept
  BY <1>2, <1>5, <1>6
<1>. QED  BY <1>1, <1>7

(* Whatever is applied, refreshed, saved, undone or interrupted, the user's *)
(* text is in the files, unless a write fell between another's comparison   *)
(* and its rename (control/transaction.rs, apply_change).                   *)
THEOREM TextSurvives == Spec => []UserTextIsKept
<1>1. Typing /\ Windows /\ TextKept => UserTextIsKept
  BY DEF TextKept, UserTextIsKept
<1>. QED  BY <1>1, TextInit, TextStep, TypeCorrect, PTL DEF Spec

-----------------------------------------------------------------------------
(* What a receipt holds to                                                 *)

Server(c) == OrElse(c, NoCodex).server
Limit(c) == OrElse(c, NoCodex).limit
Section(a) == OrElse(a, NoAgents).section
Sep(a) == OrElse(a, NoAgents).sep

(* The user's own files hold nothing of FastCtx.                           *)
PlainCodex(u) == Server(u) = 0 /\ Limit(u) \notin Tiers
PlainAgents(u) == /\ ~Sep(u) /\ Section(u) = "none"
                  /\ u # Absent => TextOf(u) > 0

(* Codex configuration c beside receipt r, when the user's is u and t has  *)
(* happened; and what a reading of it says without the user's.             *)
CodexHeld(c, r, u, t) ==
    /\ r = Absent => Server(c) = 0
    /\ (r # Absent /\ r.codexExisted) => c # Absent
    /\ "overruled" \notin t =>
          /\ r = Absent => c = u
          /\ r # Absent =>
                /\ r.codexExisted => u # Absent
                /\ ~r.codexExisted => u # NoCodex
                /\ Limit(c) = r.limit => r.previous = Limit(u)
                /\ Limit(c) # r.limit => Limit(c) = Limit(u)
                /\ Server(c) = 0 => c = u
CodexRead(c, r, t) ==
    /\ r = Absent => Server(c) = 0
    /\ (r # Absent /\ r.codexExisted) => c # Absent
    /\ (r # Absent /\ Server(c) = 0 /\ "overruled" \notin t) =>
          Limit(c) # r.limit /\ (c # NoCodex \/ r.codexExisted)

(* The same of the guidance a.                                             *)
AgentsRead(a, r, t) ==
    /\ Sep(a) => TextOf(a) > 0
    /\ (Section(a) = "none" /\ a # Absent) => TextOf(a) > 0
    /\ (Section(a) = "none" /\ "drifted" \notin t) => ~Sep(a)
    /\ r = Absent => Section(a) = "none"
    /\ r # Absent =>
          /\ r.agentsExisted => a # Absent
          /\ r.agentsHash.section # "none"
          /\ (Section(a) # "none" /\ "drifted" \notin t)
                => r.agentsHash = a /\ (r.sep <=> Sep(a))
AgentsHeld(a, r, u, t) ==
    /\ AgentsRead(a, r, t)
    /\ (r # Absent /\ r.agentsExisted) => u # Absent
    /\ Section(a) = "none" => (a = Absent <=> u = Absent)
    /\ (Section(a) = "none" /\ "drifted" \notin t) => a = u

MaybeCodex == CodexText \cup {Absent}
MaybeAgents == AgentsText \cup {Absent}
MaybeRecord == Record \cup {Absent}

LEMMA CodexFields ==
    ASSUME NEW c \in MaybeCodex
    PROVE  /\ Server(c) \in {0} \cup Tiers /\ Limit(c) \in Limits
           /\ TextOf(c) = OrElse(c, NoCodex).text
           /\ TextOf(c) \in Nat /\ OrElse(c, NoCodex) \in CodexText
           /\ c # Absent => c \in CodexText /\ OrElse(c, NoCodex) = c
           /\ c = Absent => Server(c) = 0 /\ Limit(c) = 0 /\ TextOf(c) = 0
           /\ NoCodex # Absent /\ Server(NoCodex) = 0 /\ Limit(NoCodex) = 0
           /\ TextOf(NoCodex) = 0 /\ NoCodex \in CodexText
<1>1. NoCodex \in CodexText /\ NoCodex.text = 0 /\ NoCodex.server = 0 /\ NoCodex.limit = 0
  BY DEF NoCodex, CodexText, Limits
<1>2. NoCodex # Absent
  BY <1>1
<1>3. CASE c = Absent
  BY <1>1, <1>2, <1>3 DEF Server, Limit, TextOf, OrElse, Limits
<1>4. CASE c # Absent
  <2>1. c \in CodexText
    BY <1>4 DEF MaybeCodex
  <2>2. c.text \in Nat /\ c.server \in {0} \cup Tiers /\ c.limit \in Limits
    BY <2>1 DEF CodexText
  <2>. QED  BY <1>1, <1>2, <1>4, <2>1, <2>2 DEF Server, Limit, TextOf, OrElse
<1>. QED  BY <1>3, <1>4

LEMMA CodexAlike ==
    ASSUME NEW c \in MaybeCodex, NEW e \in MaybeCodex,
           Server(c) = Server(e), Limit(c) = Limit(e), TextOf(c) = TextOf(e)
    PROVE  /\ c # Absent /\ e # Absent => c = e
           /\ e = Absent => c \in {Absent, NoCodex}
<1>1. ASSUME NEW x \in CodexText, NEW y \in CodexText,
             x.text = y.text, x.server = y.server, x.limit = y.limit
      PROVE  x = y
  BY <1>1 DEF CodexText
<1>2. /\ TextOf(c) = OrElse(c, NoCodex).text /\ TextOf(e) = OrElse(e, NoCodex).text
      /\ OrElse(c, NoCodex) \in CodexText /\ OrElse(e, NoCodex) \in CodexText
  BY CodexFields
<1>3. OrElse(c, NoCodex) = OrElse(e, NoCodex)
  BY <1>1, <1>2 DEF Server, Limit
<1>. QED  BY <1>3 DEF OrElse

(* Apply, beside what it read or beside what it found.                     *)
LEMMA CodexApplied ==
    ASSUME NEW c \in MaybeCodex, NEW u \in MaybeCodex, NEW r \in MaybeRecord,
           NEW new \in Record, NEW t, NEW e \in MaybeCodex, PlainCodex(u),
           CodexHeld(c, r, u, t), TextOf(c) = TextOf(u),
           e # Absent, Server(e) = new.limit, Limit(e) = new.limit,
           r = Absent => /\ new.previous = Limit(c)
                         /\ new.codexExisted = (c # Absent),
           r # Absent => /\ new.previous = r.previous
                         /\ new.codexExisted = r.codexExisted,
           "overruled" \notin t => (r = Absent \/ Limit(c) = r.limit)
    PROVE  CodexHeld(e, new, u, t)
<1>1. new.limit \in Tiers /\ new # Absent /\ new.limit # 0
  BY DEF Record
<1>2. ASSUME "overruled" \notin t
      PROVE  /\ new.codexExisted => u # Absent
             /\ ~new.codexExisted => u # NoCodex
             /\ new.previous = Limit(u)
  <2>1. CASE r = Absent
    <3>1. c = u
      BY <1>2, <2>1 DEF CodexHeld
    <3>. QED  BY <2>1, <3>1, CodexFields
  <2>2. CASE r # Absent
    BY <1>2, <2>2 DEF CodexHeld
  <2>. QED  BY <2>1, <2>2
<1>. QED  BY <1>1, <1>2 DEF CodexHeld

LEMMA CodexApplyUndone ==
    ASSUME NEW c \in MaybeCodex, NEW u \in MaybeCodex, NEW r \in MaybeRecord,
           NEW new \in Record, NEW t, NEW e \in MaybeCodex, PlainCodex(u),
           CodexHeld(e, new, u, t), CodexRead(c, r, t),
           TextOf(c) = TextOf(u), Limit(e) = new.limit,
           r = Absent => /\ new.previous = Limit(c)
                         /\ new.codexExisted = (c # Absent),
           r # Absent => /\ new.previous = r.previous
                         /\ new.codexExisted = r.codexExisted,
           "overruled" \notin t => (r = Absent \/ Limit(c) = r.limit)
    PROVE  CodexHeld(c, r, u, t)
<1>1. new # Absent
  BY DEF Record
<1>2. ASSUME "overruled" \notin t
      PROVE  /\ new.codexExisted => u # Absent
             /\ ~new.codexExisted => u # NoCodex
             /\ new.previous = Limit(u)
  BY <1>1, <1>2 DEF CodexHeld
<1>3. CASE r = Absent
  <2>1. Server(c) = 0
    BY <1>3 DEF CodexRead
  <2>2. ASSUME "overruled" \notin t PROVE c = u
    <3>1. Server(c) = Server(u) /\ Limit(c) = Limit(u)
      BY <1>2, <1>3, <2>1, <2>2 DEF PlainCodex
    <3>. QED  BY <1>2, <1>3, <2>2, <3>1, CodexAlike
  <2>. QED  BY <1>3, <2>1, <2>2 DEF CodexHeld
<1>4. CASE r # Absent
  <2>1. ASSUME "overruled" \notin t PROVE Limit(c) = r.limit /\ Server(c) # 0
    BY <1>4, <2>1 DEF CodexRead
  <2>2. r.codexExisted => c # Absent
    BY <1>4 DEF CodexRead
  <2>. QED  BY <1>2, <1>4, <2>1, <2>2 DEF CodexHeld
<1>. QED  BY <1>3, <1>4

(* Unapply: e is what it makes of c.                                       *)
UndoneCodex(c, r, e) ==
    /\ Server(e) = 0 /\ TextOf(e) = TextOf(c)
    /\ Limit(e) = IF r # Absent /\ Limit(c) = r.limit THEN r.previous ELSE Limit(c)
    /\ LET existed == IF r = Absent THEN c # Absent ELSE r.codexExisted
       IN  /\ e = Absent => ~existed
           /\ (e # Absent /\ ~existed) => e # NoCodex

LEMMA CodexUnapplied ==
    ASSUME NEW c \in MaybeCodex, NEW u \in MaybeCodex, NEW r \in MaybeRecord,
           NEW t, NEW e \in MaybeCodex, PlainCodex(u),
           CodexHeld(c, r, u, t), TextOf(c) = TextOf(u), UndoneCodex(c, r, e)
    PROVE  CodexHeld(e, r, u, t)
<1>0. Server(e) = 0 /\ TextOf(e) = TextOf(c)
  BY DEF UndoneCodex
<1>1. ASSUME "overruled" \notin t PROVE e = u
  <2>1. CASE r = Absent
    <3>1. c = u /\ Limit(e) = Limit(c) /\ (e = Absent => c = Absent)
          /\ (e # Absent /\ c = Absent => e # NoCodex)
      BY <1>1, <2>1 DEF CodexHeld, UndoneCodex
    <3>2. Server(e) = Server(u)
      BY <1>0 DEF PlainCodex
    <3>. QED  BY <1>0, <3>1, <3>2, CodexAlike
  <2>2. CASE r # Absent
    <3>1. /\ r.codexExisted => u # Absent
          /\ ~r.codexExisted => u # NoCodex
          /\ Limit(c) = r.limit => r.previous = Limit(u)
          /\ Limit(c) # r.limit => Limit(c) = Limit(u)
      BY <1>1, <2>2 DEF CodexHeld
    <3>2. /\ Limit(e) = IF Limit(c) = r.limit THEN r.previous ELSE Limit(c)
          /\ e = Absent => ~r.codexExisted
          /\ (e # Absent /\ ~r.codexExisted) => e # NoCodex
      BY <2>2 DEF UndoneCodex
    <3>3. Limit(e) = Limit(u) /\ Server(e) = Server(u) /\ TextOf(e) = TextOf(u)
      BY <1>0, <3>1, <3>2 DEF PlainCodex
    <3>4. /\ e # Absent /\ u # Absent => e = u
          /\ u = Absent => e \in {Absent, NoCodex}
          /\ e = Absent => u \in {Absent, NoCodex}
      BY <3>3, CodexAlike
    <3>. QED  BY <3>1, <3>2, <3>4
  <2>. QED  BY <2>1, <2>2
<1>2. (r # Absent /\ r.codexExisted) => e # Absent
  BY DEF UndoneCodex
<1>3. CASE r = Absent
  BY <1>0, <1>1, <1>3 DEF CodexHeld
<1>4. CASE r # Absent
  <2>1. r.limit \in Tiers
    BY <1>4 DEF MaybeRecord, Record
  <2>2. Limit(u) # r.limit
    BY <2>1 DEF PlainCodex
  <2>3. ASSUME "overruled" \notin t
        PROVE  /\ r.codexExisted => u # Absent
               /\ ~r.codexExisted => u # NoCodex
    BY <1>4, <2>3 DEF CodexHeld
  <2>. QED  BY <1>1, <1>2, <1>4, <2>2, <2>3 DEF CodexHeld
<1>. QED  BY <1>3, <1>4

LEMMA CodexUnapplyUndone ==
    ASSUME NEW c \in MaybeCodex, NEW u \in MaybeCodex, NEW r \in MaybeRecord,
           NEW t, NEW e \in MaybeCodex, PlainCodex(u),
           CodexHeld(e, r, u, t), CodexRead(c, r, t),
           TextOf(c) = TextOf(u), UndoneCodex(c, r, e)
    PROVE  CodexHeld(c, r, u, t)
<1>0. Server(e) = 0 /\ TextOf(e) = TextOf(c)
  BY DEF UndoneCodex
<1>1. ASSUME "overruled" \notin t PROVE e = u
  BY <1>0, <1>1 DEF CodexHeld
<1>2. CASE r = Absent
  <2>1. Server(c) = 0
    BY <1>2 DEF CodexRead
  <2>2. ASSUME "overruled" \notin t PROVE c = u
    <3>1. Limit(e) = Limit(c) /\ (e = Absent => c = Absent)
          /\ (e # Absent /\ c = Absent => e # NoCodex)
      BY <1>2 DEF UndoneCodex
    <3>2. /\ c # Absent /\ e # Absent => c = e
          /\ c = Absent => e \in {Absent, NoCodex}
      BY <1>0, <2>1, <3>1, CodexAlike
    <3>. QED  BY <1>1, <2>2, <3>1, <3>2
  <2>. QED  BY <1>2, <2>1, <2>2 DEF CodexHeld
<1>3. CASE r # Absent
  <2>1. r.codexExisted => c # Absent
    BY <1>3 DEF CodexRead
  <2>2. /\ Limit(e) = IF Limit(c) = r.limit THEN r.previous ELSE Limit(c)
        /\ e = Absent => ~r.codexExisted
        /\ (e # Absent /\ ~r.codexExisted) => e # NoCodex
    BY <1>3 DEF UndoneCodex
  <2>3. ASSUME "overruled" \notin t
        PROVE  /\ r.codexExisted => u # Absent
               /\ ~r.codexExisted => u # NoCodex
               /\ Limit(c) = r.limit => r.previous = Limit(u)
               /\ Limit(c) # r.limit => Limit(c) = Limit(u)
    BY <1>1, <1>3, <2>2, <2>3 DEF CodexHeld
  <2>4. ASSUME "overruled" \notin t, Server(c) = 0 PROVE c = u
    <3>1. Limit(c) # r.limit /\ (c # NoCodex \/ r.codexExisted)
      BY <1>3, <2>4 DEF CodexRead
    <3>2. Limit(e) = Limit(c)
      BY <2>2, <3>1
    <3>3. /\ c # Absent /\ e # Absent => c = e
          /\ c = Absent => e \in {Absent, NoCodex}
          /\ e = Absent => c \in {Absent, NoCodex}
      BY <1>0, <2>4, <3>2, CodexAlike
    <3>. QED  BY <1>1, <2>1, <2>2, <2>4, <3>1, <3>3
  <2>. QED  BY <1>3, <2>1, <2>3, <2>4 DEF CodexHeld
<1>. QED  BY <1>2, <1>3

(* A receipt that differs only in what the configuration does not turn on. *)
SameCodexRecord(r, new) ==
    /\ r # Absent /\ new # Absent /\ new.limit = r.limit
    /\ new.previous = r.previous /\ new.codexExisted = r.codexExisted
LEMMA CodexRenewed ==
    ASSUME NEW c, NEW r, NEW new, NEW u, NEW t, SameCodexRecord(r, new)
    PROVE  CodexHeld(c, r, u, t) <=> CodexHeld(c, new, u, t)
BY DEF SameCodexRecord, CodexHeld

LEMMA CodexReadable ==
    ASSUME NEW c \in MaybeCodex, NEW u \in MaybeCodex, NEW r \in MaybeRecord,
           NEW t, PlainCodex(u), CodexHeld(c, r, u, t)
    PROVE  CodexRead(c, r, t)
<1>1. CASE r = Absent
  BY <1>1 DEF CodexHeld, CodexRead
<1>2. CASE r # Absent
  <2>1. r.limit \in Tiers
    BY <1>2 DEF MaybeRecord, Record
  <2>2. ASSUME "overruled" \notin t, Server(c) = 0
        PROVE  Limit(c) # r.limit /\ (c # NoCodex \/ r.codexExisted)
    <3>1. c = u /\ (~r.codexExisted => u # NoCodex)
      BY <1>2, <2>2 DEF CodexHeld
    <3>. QED  BY <2>1, <3>1 DEF PlainCodex
  <2>. QED  BY <1>2, <2>2 DEF CodexHeld, CodexRead
<1>. QED  BY <1>1, <1>2

LEMMA CodexLater ==
    ASSUME NEW c, NEW r, NEW u, NEW t, NEW s, t \subseteq s
    PROVE  /\ CodexHeld(c, r, u, t) => CodexHeld(c, r, u, s)
           /\ CodexRead(c, r, t) => CodexRead(c, r, s)
BY DEF CodexHeld, CodexRead

(* The user edits the text or the limit.                                   *)
LEMMA CodexEdited ==
    ASSUME NEW c \in MaybeCodex, NEW u \in MaybeCodex, NEW r \in MaybeRecord, NEW t,
           NEW n \in CodexText, NEW v \in CodexText, CodexHeld(c, r, u, t),
           Server(n) = Server(c),
           \/ Limit(n) = Limit(c) /\ Limit(v) = Limit(u)
           \/ Limit(n) \in UserLimits /\ Limit(v) = Limit(n),
           v # NoCodex,
           OrElse(c, NoCodex) = OrElse(u, NoCodex) => n = v
    PROVE  CodexHeld(n, r, v, t)
<1>1. n # Absent /\ v # Absent
  OBVIOUS
<1>2. CASE r = Absent
  BY <1>2 DEF CodexHeld
<1>3. CASE r # Absent
  <2>1. r.limit \in Tiers
    BY <1>3 DEF MaybeRecord, Record
  <2>2. ASSUME "overruled" \notin t
        PROVE  /\ Limit(n) = r.limit => r.previous = Limit(v)
               /\ Limit(n) # r.limit => Limit(n) = Limit(v)
               /\ Server(n) = 0 => n = v
    BY <1>3, <2>1, <2>2 DEF CodexHeld
  <2>. QED  BY <1>1, <1>3, <2>2 DEF CodexHeld
<1>. QED  BY <1>2, <1>3

LEMMA AgentsFields ==
    ASSUME NEW a \in MaybeAgents
    PROVE  /\ Section(a) \in {"none", "old", "new"} /\ Sep(a) \in BOOLEAN
           /\ TextOf(a) = OrElse(a, NoAgents).text
           /\ TextOf(a) \in Nat /\ OrElse(a, NoAgents) \in AgentsText
           /\ a # Absent => a \in AgentsText /\ OrElse(a, NoAgents) = a
           /\ a = Absent => Section(a) = "none" /\ ~Sep(a) /\ TextOf(a) = 0
           /\ NoAgents # Absent /\ Section(NoAgents) = "none" /\ ~Sep(NoAgents)
           /\ TextOf(NoAgents) = 0 /\ NoAgents \in AgentsText
<1>1. /\ NoAgents \in AgentsText /\ NoAgents.text = 0 /\ ~NoAgents.sep
      /\ NoAgents.section = "none"
  BY DEF NoAgents, AgentsText
<1>2. NoAgents # Absent
  BY <1>1
<1>3. CASE a = Absent
  BY <1>1, <1>2, <1>3 DEF Section, Sep, TextOf, OrElse, NoAgents
<1>4. CASE a # Absent
  <2>1. a \in AgentsText
    BY <1>4 DEF MaybeAgents
  <2>2. a.text \in Nat /\ a.sep \in BOOLEAN /\ a.section \in {"none", "old", "new"}
    BY <2>1 DEF AgentsText
  <2>. QED  BY <1>1, <1>2, <1>4, <2>1, <2>2 DEF Section, Sep, TextOf, OrElse
<1>. QED  BY <1>3, <1>4

LEMMA AgentsAlike ==
    ASSUME NEW a \in MaybeAgents, NEW e \in MaybeAgents,
           Section(a) = Section(e), Sep(a) <=> Sep(e), TextOf(a) = TextOf(e)
    PROVE  /\ a # Absent /\ e # Absent => a = e
           /\ e = Absent => a \in {Absent, NoAgents}
<1>1. ASSUME NEW x \in AgentsText, NEW y \in AgentsText,
             x.text = y.text, x.sep = y.sep, x.section = y.section
      PROVE  x = y
  BY <1>1 DEF AgentsText
<1>2. /\ TextOf(a) = OrElse(a, NoAgents).text /\ TextOf(e) = OrElse(e, NoAgents).text
      /\ OrElse(a, NoAgents) \in AgentsText /\ OrElse(e, NoAgents) \in AgentsText
  BY AgentsFields
<1>3. OrElse(a, NoAgents).sep = OrElse(e, NoAgents).sep
  BY AgentsFields DEF Sep
<1>4. OrElse(a, NoAgents) = OrElse(e, NoAgents)
  BY <1>1, <1>2, <1>3 DEF Section
<1>. QED  BY <1>4 DEF OrElse

(* Apply: e is what it makes of a, and new the receipt.                    *)
OwnsSeparator(a, r) == r # Absent /\ a # Absent /\ r.agentsHash = a /\ r.sep
Separates(a) == Section(a) = "none" /\ TextOf(a) > 0 /\ ~Sep(a)
AppliedAgents(a, r, e, new) ==
    /\ e # Absent /\ Section(e) # "none" /\ TextOf(e) = TextOf(a)
    /\ Sep(e) <=> (Sep(a) \/ Separates(a))
    /\ new # Absent /\ new.agentsHash = e
    /\ new.sep <=> (OwnsSeparator(a, r) \/ Separates(a))
    /\ r = Absent => (new.agentsExisted <=> a # Absent)
    /\ r # Absent => (new.agentsExisted <=> r.agentsExisted)

LEMMA AgentsApplied ==
    ASSUME NEW a \in MaybeAgents, NEW u \in MaybeAgents, NEW r \in MaybeRecord,
           NEW new \in Record, NEW t, NEW e \in MaybeAgents, PlainAgents(u),
           AgentsHeld(a, r, u, t), AppliedAgents(a, r, e, new)
    PROVE  AgentsHeld(e, new, u, t)
<1>1. AgentsRead(a, r, t)
  BY DEF AgentsHeld
<1>2. e # Absent /\ Section(e) # "none" /\ TextOf(e) = TextOf(a) /\ new # Absent
      /\ new.agentsHash = e
  BY DEF AppliedAgents
<1>3. Sep(e) => TextOf(e) > 0
  <2>1. Sep(e) <=> (Sep(a) \/ Separates(a))
    BY DEF AppliedAgents
  <2>. QED  BY <1>1, <1>2, <2>1 DEF AgentsRead, Separates
<1>4. new.agentsHash.section # "none"
  BY <1>2, AgentsFields DEF Section
<1>5. ASSUME "drifted" \notin t PROVE new.sep <=> Sep(e)
  <2>1. /\ Sep(e) <=> (Sep(a) \/ Separates(a))
        /\ new.sep <=> (OwnsSeparator(a, r) \/ Separates(a))
    BY DEF AppliedAgents
  <2>2. CASE Section(a) = "none"
    <3>1. ~Sep(a) /\ (r # Absent => r.agentsHash.section # "none")
      BY <1>1, <1>5, <2>2 DEF AgentsRead
    <3>2. ~OwnsSeparator(a, r)
      BY <2>2, <3>1, AgentsFields DEF OwnsSeparator, Section
    <3>. QED  BY <2>1, <3>1, <3>2
  <2>3. CASE Section(a) # "none"
    <3>1. r # Absent /\ r.agentsHash = a /\ (r.sep <=> Sep(a))
      BY <1>1, <1>5, <2>3 DEF AgentsRead
    <3>2. a # Absent
      BY <2>3, AgentsFields
    <3>. QED  BY <2>1, <2>3, <3>1, <3>2 DEF OwnsSeparator, Separates
  <2>. QED  BY <2>2, <2>3
<1>6. new.agentsExisted => u # Absent
  <2>1. CASE r = Absent
    <3>1. Section(a) = "none" /\ (new.agentsExisted <=> a # Absent)
      BY <1>1, <2>1 DEF AgentsRead, AppliedAgents
    <3>. QED  BY <3>1 DEF AgentsHeld
  <2>2. CASE r # Absent
    BY <2>2 DEF AppliedAgents, AgentsHeld
  <2>. QED  BY <2>1, <2>2
<1>7. AgentsRead(e, new, t)
  BY <1>2, <1>3, <1>4, <1>5 DEF AgentsRead
<1>. QED  BY <1>2, <1>6, <1>7 DEF AgentsHeld

LEMMA AgentsApplyUndone ==
    ASSUME NEW a \in MaybeAgents, NEW u \in MaybeAgents, NEW r \in MaybeRecord,
           NEW new \in Record, NEW t, NEW e \in MaybeAgents, PlainAgents(u),
           AgentsHeld(e, new, u, t), AgentsRead(a, r, t), TextOf(a) = TextOf(u),
           AppliedAgents(a, r, e, new)
    PROVE  AgentsHeld(a, r, u, t)
<1>1. u # Absent => TextOf(u) > 0
  BY DEF PlainAgents
<1>2. new.agentsExisted => u # Absent
  BY DEF AgentsHeld, AppliedAgents
<1>3. (r # Absent /\ r.agentsExisted) => u # Absent
  BY <1>2 DEF AppliedAgents
<1>4. ASSUME Section(a) = "none" PROVE a = Absent <=> u = Absent
  <2>1. a = Absent => u = Absent
    BY <1>1, AgentsFields
  <2>2. a # Absent => u # Absent
    <3>1. a # Absent => TextOf(a) > 0
      BY <1>4 DEF AgentsRead
    <3>. QED  BY <3>1, AgentsFields
  <2>. QED  BY <2>1, <2>2
<1>5. ASSUME Section(a) = "none", "drifted" \notin t PROVE a = u
  <2>1. ~Sep(a)
    BY <1>5 DEF AgentsRead
  <2>2. ~Sep(u) /\ Section(u) = "none"
    BY DEF PlainAgents
  <2>3. a # Absent /\ u # Absent => a = u
    BY <1>5, <2>1, <2>2, AgentsAlike
  <2>. QED  BY <1>4, <1>5, <2>3
<1>. QED  BY <1>3, <1>4, <1>5 DEF AgentsHeld

(* Unapply: e is what it makes of a.                                       *)
UndoneAgents(a, r, e) ==
    /\ Section(e) = "none" /\ TextOf(e) = TextOf(a)
    /\ Sep(e) <=> (Sep(a) /\ (Section(a) = "none" \/ ~OwnsSeparator(a, r)))
    /\ a = Absent => e = Absent
    /\ LET existed == IF r = Absent THEN a # Absent ELSE r.agentsExisted
       IN  /\ (a # Absent /\ e = Absent) => ~existed
           /\ (e # Absent /\ ~existed) => e # NoAgents

LEMMA AgentsUnapplied ==
    ASSUME NEW a \in MaybeAgents, NEW u \in MaybeAgents, NEW r \in MaybeRecord,
           NEW t, NEW e \in MaybeAgents, PlainAgents(u),
           AgentsHeld(a, r, u, t), TextOf(a) = TextOf(u), UndoneAgents(a, r, e)
    PROVE  AgentsHeld(e, r, u, t)
<1>0. AgentsRead(a, r, t) /\ Section(e) = "none" /\ TextOf(e) = TextOf(a)
  BY DEF AgentsHeld, UndoneAgents
<1>1. Sep(e) => Sep(a)
  BY DEF UndoneAgents
<1>2. (r # Absent /\ r.agentsExisted) => u # Absent /\ a # Absent
  BY <1>0 DEF AgentsHeld, AgentsRead
<1>3. (r # Absent /\ r.agentsExisted) => e # Absent
  BY <1>2 DEF UndoneAgents
<1>4. u # Absent => TextOf(u) > 0
  BY DEF PlainAgents
<1>5. Sep(e) => TextOf(e) > 0
  BY <1>0, <1>1 DEF AgentsRead
<1>6. e = Absent <=> u = Absent
  <2>1. e = Absent => u = Absent
    BY <1>0, <1>4, AgentsFields
  <2>2. ASSUME u = Absent PROVE e = Absent
    <3>1. TextOf(e) = 0
      BY <1>0, <2>2, AgentsFields
    <3>2. ~Sep(e)
      BY <1>5, <3>1
    <3>3. e \in {Absent, NoAgents}
      <4>1. Absent \in MaybeAgents /\ Section(Absent) = "none" /\ ~Sep(Absent) /\ TextOf(Absent) = 0
        BY AgentsFields DEF MaybeAgents
      <4>. QED  BY <1>0, <3>1, <3>2, <4>1, AgentsAlike
    <3>4. CASE r = Absent
      <4>1. Section(a) = "none"
        BY <1>0, <3>4 DEF AgentsRead
      <4>2. a = Absent
        BY <2>2, <4>1 DEF AgentsHeld
      <4>. QED  BY <4>2 DEF UndoneAgents
    <3>5. CASE r # Absent
      BY <1>2, <2>2, <3>3, <3>5 DEF UndoneAgents
    <3>. QED  BY <3>4, <3>5
  <2>. QED  BY <2>1, <2>2
<1>7. ASSUME "drifted" \notin t PROVE e = u
  <2>1. ~Sep(e)
    <3>1. CASE Section(a) = "none"
      BY <1>0, <1>1, <1>7, <3>1 DEF AgentsRead
    <3>2. CASE Section(a) # "none"
      <4>1. r # Absent /\ r.agentsHash = a /\ (r.sep <=> Sep(a)) /\ a # Absent
        BY <1>0, <1>7, <3>2, AgentsFields DEF AgentsRead
      <4>. QED  BY <3>2, <4>1 DEF UndoneAgents, OwnsSeparator
    <3>. QED  BY <3>1, <3>2
  <2>2. e # Absent /\ u # Absent => e = u
    BY <1>0, <2>1, AgentsAlike DEF PlainAgents
  <2>. QED  BY <1>6, <2>2
<1>8. (e # Absent) => TextOf(e) > 0
  BY <1>0, <1>4, <1>6
<1>9. AgentsRead(e, r, t)
  <2>1. "drifted" \notin t => ~Sep(e)
    BY <1>7 DEF PlainAgents
  <2>2. r # Absent => r.agentsHash.section # "none"
    BY <1>0 DEF AgentsRead
  <2>. QED  BY <1>0, <1>3, <1>5, <1>8, <2>1, <2>2 DEF AgentsRead
<1>. QED  BY <1>2, <1>6, <1>7, <1>9 DEF AgentsHeld

LEMMA AgentsUnapplyUndone ==
    ASSUME NEW a \in MaybeAgents, NEW u \in MaybeAgents, NEW r \in MaybeRecord,
           NEW t, NEW e \in MaybeAgents, PlainAgents(u),
           AgentsHeld(e, r, u, t), AgentsRead(a, r, t), TextOf(a) = TextOf(u)
    PROVE  AgentsHeld(a, r, u, t)
<1>1. u # Absent => TextOf(u) > 0
  BY DEF PlainAgents
<1>3. (r # Absent /\ r.agentsExisted) => u # Absent
  BY DEF AgentsHeld
<1>4. ASSUME Section(a) = "none" PROVE a = Absent <=> u = Absent
  <2>1. a = Absent => u = Absent
    BY <1>1, AgentsFields
  <2>2. a # Absent => u # Absent
    <3>1. a # Absent => TextOf(a) > 0
      BY <1>4 DEF AgentsRead
    <3>. QED  BY <3>1, AgentsFields
  <2>. QED  BY <2>1, <2>2
<1>5. ASSUME Section(a) = "none", "drifted" \notin t PROVE a = u
  <2>1. ~Sep(a)
    BY <1>5 DEF AgentsRead
  <2>2. ~Sep(u) /\ Section(u) = "none"
    BY DEF PlainAgents
  <2>3. a # Absent /\ u # Absent => a = u
    BY <1>5, <2>1, <2>2, AgentsAlike
  <2>. QED  BY <1>4, <1>5, <2>3
<1>. QED  BY <1>3, <1>4, <1>5 DEF AgentsHeld

(* A synchronisation puts the new section in the place of the old one.     *)
LEMMA AgentsRefreshed ==
    ASSUME NEW a \in MaybeAgents, NEW u \in MaybeAgents, NEW r \in MaybeRecord,
           NEW t, NEW e \in MaybeAgents, "drifted" \in t,
           a # Absent, e # Absent, Section(a) # "none", Section(e) # "none",
           Sep(a) <=> Sep(e), TextOf(a) = TextOf(e)
    PROVE  AgentsHeld(a, r, u, t) <=> AgentsHeld(e, r, u, t)
BY DEF AgentsHeld, AgentsRead

SameAgentsRecord(r, new) ==
    /\ r # Absent /\ new # Absent /\ new.agentsExisted = r.agentsExisted
    /\ new.agentsHash = r.agentsHash /\ new.sep = r.sep
LEMMA AgentsRenewed ==
    ASSUME NEW a, NEW r, NEW new, NEW u, NEW t, SameAgentsRecord(r, new)
    PROVE  AgentsHeld(a, r, u, t) <=> AgentsHeld(a, new, u, t)
BY DEF SameAgentsRecord, AgentsHeld, AgentsRead

LEMMA AgentsReadable ==
    ASSUME NEW a, NEW r, NEW u, NEW t, AgentsHeld(a, r, u, t)
    PROVE  AgentsRead(a, r, t)
BY DEF AgentsHeld

LEMMA AgentsLater ==
    ASSUME NEW a, NEW r, NEW u, NEW t, NEW s, t \subseteq s
    PROVE  /\ AgentsHeld(a, r, u, t) => AgentsHeld(a, r, u, s)
           /\ AgentsRead(a, r, t) => AgentsRead(a, r, s)
BY DEF AgentsHeld, AgentsRead

LEMMA AgentsEdited ==
    ASSUME NEW a \in MaybeAgents, NEW u \in MaybeAgents, NEW r \in MaybeRecord, NEW t,
           NEW s, t \subseteq s, NEW n \in AgentsText, NEW v \in AgentsText,
           AgentsHeld(a, r, u, t), Section(n) = Section(a), Sep(n) <=> Sep(a),
           TextOf(n) > 0, Section(a) # "none" => "drifted" \in s,
           OrElse(a, NoAgents) = OrElse(u, NoAgents) => n = v
    PROVE  AgentsHeld(n, r, v, s)
<1>1. n # Absent /\ v # Absent
  OBVIOUS
<1>2. AgentsRead(a, r, t)
  BY DEF AgentsHeld
<1>3. ASSUME Section(a) = "none", "drifted" \notin s PROVE n = v
  BY <1>3 DEF AgentsHeld
<1>4. AgentsRead(n, r, s)
  BY <1>1, <1>2 DEF AgentsRead
<1>. QED  BY <1>1, <1>3, <1>4 DEF AgentsHeld

-----------------------------------------------------------------------------
(* Plans beside receipts                                                   *)

True(d, t) ==
    Applied(d) # Absent =>
        /\ Applied(d).binary = d["binary"]
        /\ Server(d["codex"]) = Applied(d).limit \/ "crashed" \in t
NoneThere(d) == d["codex"] = Absent /\ d["agents"] = Absent

(* What a commit goes by: the receipt that its plan read, and the one that *)
(* a file it has written belongs to.                                       *)
Before(s) == Applied(s.old)
After(s) == IF s.op = "unapply" THEN Applied(s.old) ELSE Applied(s.plan)
Commits == {"apply", "unapply", "sync"}

ReadWell(s, t) ==
    /\ CodexRead(s.old["codex"], Before(s), t)
    /\ AgentsRead(s.old["agents"], Before(s), t)
    /\ True(s.old, t)
    /\ (s.op = "apply" /\ "overruled" \notin t) =>
           Before(s) = Absent \/ Limit(s.old["codex"]) = Before(s).limit
    /\ (s.op = "sync" /\ s.plan["agents"] # s.old["agents"]) => "drifted" \in t
    /\ (s.op = "apply" /\ "crashed" \notin t) =>
           (Applied(s.plan).dirCreated <=>
              IF Before(s) = Absent THEN NoneThere(s.old) ELSE Before(s).dirCreated)

LEMMA DiskKinds ==
    ASSUME NEW d \in Disks
    PROVE  /\ d["codex"] \in MaybeCodex /\ d["agents"] \in MaybeAgents
           /\ Applied(d) \in MaybeRecord
BY Kinds, DiskTypes DEF MaybeCodex, MaybeAgents, MaybeRecord

LEMMA ApplyShape ==
    ASSUME NEW d \in Disks, NEW dir \in BOOLEAN, NEW version \in Versions,
           NEW tier \in Tiers, NEW section \in {"old", "new"}
    PROVE  LET e == PlanApply(d, dir, version, tier, section)
               c == d["codex"]
               r == Applied(d)
               new == Applied(e)
           IN  /\ e \in Disks /\ new \in Record /\ e["binary"] = new.binary
               /\ e["codex"] # Absent
               /\ Server(e["codex"]) = new.limit
               /\ Limit(e["codex"]) = new.limit
               /\ r = Absent => /\ new.previous = Limit(c)
                                /\ new.codexExisted = (c # Absent)
               /\ r # Absent => /\ new.previous = r.previous
                                /\ new.codexExisted = r.codexExisted
               /\ AppliedAgents(d["agents"], r, e["agents"], new)
               /\ r = Absent => (new.dirCreated <=> ~dir)
               /\ r # Absent => (new.dirCreated <=> (~dir \/ r.dirCreated))
<1> DEFINE e == PlanApply(d, dir, version, tier, section)
           r == Applied(d)
           new == Receipt(d, dir, version, tier, section)
           agents == OrElse(d["agents"], NoAgents)
<1>2. /\ e \in Disks /\ e["binary"] = version
      /\ e["codex"] = CodexApply(d["codex"], tier)
      /\ e["agents"] = AgentsApply(agents, section)
      /\ e["settings"] \in Settings /\ e["settings"].applied = new
  BY ApplyKinds
<1>3. /\ new \in Record /\ new.limit = tier /\ new.binary = version
      /\ new.agentsHash = AgentsApply(agents, section)
      /\ new.sep = (SeparatorOwned(d) \/ InsertsSeparator(agents))
      /\ r = Absent =>
            /\ new.previous = OrElse(d["codex"], NoCodex).limit
            /\ new.codexExisted = (d["codex"] # Absent)
            /\ new.agentsExisted = (d["agents"] # Absent)
            /\ new.dirCreated = ~dir
      /\ r # Absent =>
            /\ new.previous = r.previous
            /\ new.codexExisted = r.codexExisted
            /\ new.agentsExisted = r.agentsExisted
            /\ new.dirCreated = (~dir \/ r.dirCreated)
  BY ReceiptKinds
<1>4. Applied(e) = new
  <2>1. e["settings"] # Absent
    BY <1>2
  <2>. QED  BY <1>2, <2>1 DEF Applied
<1>5. /\ d["codex"] \in CodexText \cup {Absent} /\ agents \in AgentsText
      /\ d["agents"] \in MaybeAgents /\ tier \in {0} \cup Tiers
  BY Kinds, DiskTypes, DiskKinds
<1>6. /\ e["codex"] \in CodexText /\ e["codex"].server = tier /\ e["codex"].limit = tier
  BY <1>2, <1>5, CodexKinds DEF Limits
<1>7. e["codex"] # Absent /\ Server(e["codex"]) = tier /\ Limit(e["codex"]) = tier
  <2>1. e["codex"] # Absent
    BY <1>6
  <2>. QED  BY <1>6, <2>1 DEF Server, Limit, OrElse
<1> HIDE DEF new, e
<1>8. AppliedAgents(d["agents"], r, e["agents"], new)
  <2> DEFINE a == d["agents"]
             n == e["agents"]
  <2>1. /\ n \in AgentsText /\ n.text = agents.text /\ n.section = section
        /\ n.sep = (agents.sep \/ InsertsSeparator(agents))
        /\ InsertsSeparator(agents) \in BOOLEAN
    BY <1>2, <1>5, AgentsKinds
  <2>2. n # Absent
    BY <2>1
  <2>3. Section(n) = section /\ TextOf(n) = TextOf(a)
        /\ (Sep(n) <=> (Sep(a) \/ InsertsSeparator(agents)))
    <3>1. TextOf(a) = agents.text
      BY <1>5, AgentsFields
    <3>2. TextOf(n) = n.text /\ Section(n) = n.section /\ Sep(n) = n.sep
      BY <2>2 DEF TextOf, Section, Sep, OrElse
    <3>3. Sep(a) = agents.sep
      BY DEF Sep
    <3>. QED  BY <2>1, <3>1, <3>2, <3>3
  <2>4. InsertsSeparator(agents) <=> Separates(a)
    <3>1. TextOf(a) = agents.text
      BY <1>5, AgentsFields
    <3>. QED  BY <3>1 DEF InsertsSeparator, Separates, Section, Sep
  <2>5. SeparatorOwned(d) <=> OwnsSeparator(a, r)
    BY DEF SeparatorOwned, OwnsSeparator
  <2>6. new # Absent
    BY <1>3
  <2>. QED  BY <1>2, <1>3, <2>2, <2>3, <2>4, <2>5, <2>6 DEF AppliedAgents
<1>9. /\ e \in Disks /\ Applied(e) \in Record /\ e["binary"] = Applied(e).binary
      /\ e["codex"] # Absent
      /\ Server(e["codex"]) = Applied(e).limit /\ Limit(e["codex"]) = Applied(e).limit
  BY <1>2, <1>3, <1>4, <1>7
<1>. QED  BY <1>3, <1>4, <1>8, <1>9 DEF e, Limit

LEMMA ApplyPlan ==
    ASSUME NEW s, s.old \in Disks, MadeFrom(s), s.op = "apply"
    PROVE  LET c == s.old["codex"]
               r == Applied(s.old)
               new == Applied(s.plan)
           IN  /\ new \in Record /\ s.plan["binary"] = new.binary
               /\ s.plan["codex"] # Absent
               /\ Server(s.plan["codex"]) = new.limit
               /\ Limit(s.plan["codex"]) = new.limit
               /\ r = Absent => /\ new.previous = Limit(c)
                                /\ new.codexExisted = (c # Absent)
               /\ r # Absent => /\ new.previous = r.previous
                                /\ new.codexExisted = r.codexExisted
               /\ AppliedAgents(s.old["agents"], r, s.plan["agents"], new)
<1>1. PICK version \in Versions, tier \in Tiers, dir \in BOOLEAN :
         s.plan = PlanApply(s.old, dir, version, tier, "new")
  BY DEF MadeFrom
<1> DEFINE d == s.old
           c == d["codex"]
           r == Applied(d)
<1>2. LET e == PlanApply(d, dir, version, tier, "new")
          new == Applied(e)
      IN  /\ e \in Disks /\ new \in Record /\ e["binary"] = new.binary
          /\ e["codex"] # Absent
          /\ Server(e["codex"]) = new.limit
          /\ Limit(e["codex"]) = new.limit
          /\ r = Absent => /\ new.previous = Limit(c)
                           /\ new.codexExisted = (c # Absent)
          /\ r # Absent => /\ new.previous = r.previous
                           /\ new.codexExisted = r.codexExisted
          /\ AppliedAgents(d["agents"], r, e["agents"], new)
          /\ r = Absent => (new.dirCreated <=> ~dir)
          /\ r # Absent => (new.dirCreated <=> (~dir \/ r.dirCreated))
  BY <1>1, ApplyShape
<1>. QED  BY <1>1, <1>2

LEMMA UnapplyPlan ==
    ASSUME NEW s, s.old \in Disks, MadeFrom(s), s.op = "unapply"
    PROVE  LET r == Applied(s.old)
           IN  /\ UndoneCodex(s.old["codex"], r, s.plan["codex"])
               /\ UndoneAgents(s.old["agents"], r, s.plan["agents"])
               /\ s.plan["binary"] = Absent /\ s.plan["settings"] = Absent
               /\ s.removesDir <=> (r # Absent /\ r.dirCreated)
<1> DEFINE d == s.old
           e == s.plan
           r == Applied(d)
           c == d["codex"]
           a == d["agents"]
<1>1. e = PlanUnapply(d) /\ s.removesDir = (r # Absent /\ r.dirCreated)
  BY DEF MadeFrom
<1>0. LET plan == PlanUnapply(d)
      IN  /\ plan \in Disks
          /\ plan["binary"] = Absent /\ plan["settings"] = Absent
          /\ plan["codex"] = IF CodexUndone(d) = NoCodex /\ ~Existed(d, "codex")
                             THEN Absent ELSE CodexUndone(d)
          /\ plan["agents"] =
                IF \/ d["agents"] = Absent
                   \/ (AgentsUndone(d) = NoAgents /\ ~Existed(d, "agents"))
                THEN Absent ELSE AgentsUndone(d)
          /\ CodexUndone(d) \in CodexText /\ AgentsUndone(d) \in AgentsText
          /\ CodexUndone(d).text = OrElse(d["codex"], NoCodex).text
          /\ CodexUndone(d).server = 0
          /\ CodexUndone(d).limit =
                IF Restores(d) THEN Applied(d).previous
                ELSE OrElse(d["codex"], NoCodex).limit
          /\ AgentsUndone(d).text = OrElse(d["agents"], NoAgents).text
          /\ AgentsUndone(d).section = "none"
          /\ AgentsUndone(d).sep =
                (/\ OrElse(d["agents"], NoAgents).sep
                 /\ \/ OrElse(d["agents"], NoAgents).section = "none"
                    \/ ~SeparatorOwned(d))
  BY UnapplyKinds
<1>2. /\ e \in Disks
      /\ e["binary"] = Absent /\ e["settings"] = Absent
      /\ e["codex"] = IF CodexUndone(d) = NoCodex /\ ~Existed(d, "codex")
                      THEN Absent ELSE CodexUndone(d)
      /\ e["agents"] =
            IF \/ d["agents"] = Absent
               \/ (AgentsUndone(d) = NoAgents /\ ~Existed(d, "agents"))
            THEN Absent ELSE AgentsUndone(d)
      /\ CodexUndone(d) \in CodexText /\ AgentsUndone(d) \in AgentsText
      /\ CodexUndone(d).text = OrElse(d["codex"], NoCodex).text
      /\ CodexUndone(d).server = 0
      /\ CodexUndone(d).limit =
            IF Restores(d) THEN Applied(d).previous
            ELSE OrElse(d["codex"], NoCodex).limit
      /\ AgentsUndone(d).text = OrElse(d["agents"], NoAgents).text
      /\ AgentsUndone(d).section = "none"
      /\ AgentsUndone(d).sep =
            (/\ OrElse(d["agents"], NoAgents).sep
             /\ \/ OrElse(d["agents"], NoAgents).section = "none"
                \/ ~SeparatorOwned(d))
  BY <1>0, <1>1
<1>3. c \in MaybeCodex /\ a \in MaybeAgents /\ e["codex"] \in MaybeCodex /\ e["agents"] \in MaybeAgents
  BY <1>2, DiskKinds
<1>4. UndoneCodex(c, r, e["codex"])
  <2> DEFINE n == CodexUndone(d)
             existed == Existed(d, "codex")
  <2>1. n # Absent /\ n \in MaybeCodex
    BY <1>2 DEF MaybeCodex
  <2>2. Server(n) = 0 /\ TextOf(n) = TextOf(c)
        /\ Limit(n) = IF r # Absent /\ Limit(c) = r.limit THEN r.previous ELSE Limit(c)
    <3>1. Server(n) = n.server /\ Limit(n) = n.limit /\ TextOf(n) = n.text
      BY <2>1 DEF Server, Limit, TextOf, OrElse
    <3>2. TextOf(c) = OrElse(c, NoCodex).text
      BY <1>3, CodexFields
    <3>. QED  BY <1>2, <3>1, <3>2 DEF Restores, Limit
  <2>3. existed <=> (IF r = Absent THEN c # Absent ELSE r.codexExisted)
    BY DEF Existed
  <2>4. e["codex"] = IF n = NoCodex /\ ~existed THEN Absent ELSE n
    BY <1>2
  <2>5. NoCodex # Absent /\ Server(NoCodex) = Server(Absent) /\ Limit(NoCodex) = Limit(Absent)
        /\ TextOf(NoCodex) = TextOf(Absent)
    <3>1. Absent \in MaybeCodex
      BY DEF MaybeCodex
    <3>. QED  BY <3>1, CodexFields
  <2> HIDE DEF n, existed
  <2>6. CASE n = NoCodex /\ ~existed
    BY <2>1, <2>2, <2>3, <2>4, <2>5, <2>6 DEF UndoneCodex
  <2>7. CASE ~(n = NoCodex /\ ~existed)
    BY <2>1, <2>2, <2>3, <2>4, <2>7 DEF UndoneCodex
  <2>. QED  BY <2>6, <2>7
<1>5. UndoneAgents(a, r, e["agents"])
  <2> DEFINE n == AgentsUndone(d)
             existed == Existed(d, "agents")
  <2>1. n # Absent /\ n \in MaybeAgents
    BY <1>2 DEF MaybeAgents
  <2>2. Section(n) = "none" /\ TextOf(n) = TextOf(a)
        /\ (Sep(n) <=> (Sep(a) /\ (Section(a) = "none" \/ ~OwnsSeparator(a, r))))
    <3>1. Section(n) = n.section /\ Sep(n) = n.sep /\ TextOf(n) = n.text
      BY <2>1 DEF Section, Sep, TextOf, OrElse
    <3>2. TextOf(a) = OrElse(a, NoAgents).text
      BY <1>3, AgentsFields
    <3>3. SeparatorOwned(d) <=> OwnsSeparator(a, r)
      BY DEF SeparatorOwned, OwnsSeparator
    <3>. QED  BY <1>2, <3>1, <3>2, <3>3 DEF Section, Sep
  <2>3. existed <=> (IF r = Absent THEN a # Absent ELSE r.agentsExisted)
    BY DEF Existed
  <2>4. e["agents"] = IF a = Absent \/ (n = NoAgents /\ ~existed) THEN Absent ELSE n
    BY <1>2
  <2>5. /\ NoAgents # Absent /\ Section(Absent) = "none" /\ ~Sep(Absent) /\ TextOf(Absent) = 0
        /\ TextOf(NoAgents) = 0 /\ ~Sep(NoAgents)
        /\ a = Absent => TextOf(a) = 0 /\ ~Sep(a)
    <3>1. Absent \in MaybeAgents
      BY DEF MaybeAgents
    <3>. QED  BY <1>3, <3>1, AgentsFields
  <2> HIDE DEF n, existed
  <2>6. CASE a = Absent
    BY <2>2, <2>4, <2>5, <2>6 DEF UndoneAgents
  <2>7. CASE a # Absent /\ n = NoAgents /\ ~existed
    BY <2>2, <2>3, <2>4, <2>5, <2>7 DEF UndoneAgents
  <2>8. CASE a # Absent /\ ~(n = NoAgents /\ ~existed)
    BY <2>1, <2>2, <2>3, <2>4, <2>8 DEF UndoneAgents
  <2>. QED  BY <2>6, <2>7, <2>8
<1>. QED  BY <1>1, <1>2, <1>4, <1>5

LEMMA SyncPlan ==
    ASSUME NEW s, s.old \in Disks, MadeFrom(s), s.op = "sync"
    PROVE  LET d == s.old
               e == s.plan
               r == Applied(s.old)
               new == Applied(s.plan)
           IN  /\ e["codex"] = d["codex"] /\ r # Absent /\ new # Absent
               /\ r \in Record /\ new \in Record
               /\ SameCodexRecord(r, new) /\ SameAgentsRecord(r, new)
               /\ new.dirCreated = r.dirCreated
               /\ \/ e["agents"] = d["agents"] /\ new.binary = e["binary"]
                  \/ /\ e["binary"] = d["binary"] /\ new = r
                     /\ d["agents"] # Absent /\ e["agents"] # Absent
                     /\ Section(d["agents"]) # "none" /\ Section(e["agents"]) # "none"
                     /\ Sep(d["agents"]) <=> Sep(e["agents"])
                     /\ TextOf(d["agents"]) = TextOf(e["agents"])
<1> DEFINE d == s.old
           e == s.plan
           r == Applied(d)
           new == Applied(e)
<1>1. CASE CanSyncBinary(d) /\ \E version \in Versions : e = PlanSyncBinary(d, version)
  <2>1. PICK version \in Versions : e = PlanSyncBinary(d, version)
    BY <1>1
  <2>2. /\ e \in Disks /\ e["binary"] = version
        /\ e["codex"] = d["codex"] /\ e["agents"] = d["agents"]
        /\ e["settings"] \in Settings /\ r \in Record /\ e["settings"].applied \in Record
        /\ e["settings"].applied = [r EXCEPT !.binary = version, !.version = version]
    <3>1. LET plan == PlanSyncBinary(d, version)
          IN  /\ plan \in Disks
              /\ plan["binary"] = version
              /\ plan["codex"] = d["codex"] /\ plan["agents"] = d["agents"]
              /\ plan["settings"] \in Settings
              /\ r \in Record /\ plan["settings"].applied \in Record
              /\ plan["settings"].applied =
                    [r EXCEPT !.binary = version, !.version = version]
      BY <1>1, SyncBinaryKinds
    <3>. QED  BY <2>1, <3>1
  <2>3. new = [r EXCEPT !.binary = version, !.version = version]
    <3>1. e["settings"] # Absent
      BY <2>2
    <3>. QED  BY <2>2, <3>1 DEF Applied
  <2> HIDE DEF r, new, d, e
  <2>4. /\ new.binary = version /\ new.limit = r.limit /\ new.previous = r.previous
        /\ new.codexExisted = r.codexExisted /\ new.agentsExisted = r.agentsExisted
        /\ new.agentsHash = r.agentsHash /\ new.sep = r.sep
        /\ new.dirCreated = r.dirCreated /\ new \in Record
    BY <2>2, <2>3 DEF Record
  <2>5. r # Absent /\ new # Absent
    BY <2>2, <2>4
  <2>. QED  BY <2>2, <2>4, <2>5 DEF SameCodexRecord, SameAgentsRecord, r, new, d, e
<1>2. CASE CanSyncGuidance(d) /\ e = PlanSyncGuidance(d)
  <2>1. /\ e \in Disks /\ e["binary"] = d["binary"]
        /\ e["codex"] = d["codex"] /\ e["settings"] = d["settings"]
        /\ d["agents"] \in AgentsText /\ d["agents"].section = "old"
        /\ e["agents"] \in AgentsText
        /\ e["agents"].text = d["agents"].text
        /\ e["agents"].sep = d["agents"].sep
        /\ e["agents"].section = "new"
    BY <1>2, SyncGuidanceKinds
  <2>2. new = r
    BY <2>1 DEF Applied
  <2>3. r # Absent
    BY <1>2 DEF CanSyncGuidance
  <2>4. r \in Record
    BY <2>3, DiskKinds DEF MaybeRecord
  <2>5. d["agents"] # Absent /\ e["agents"] # Absent
    BY <2>1
  <2>6. /\ Section(d["agents"]) = "old" /\ Section(e["agents"]) = "new"
        /\ Sep(d["agents"]) = d["agents"].sep /\ Sep(e["agents"]) = e["agents"].sep
        /\ TextOf(d["agents"]) = d["agents"].text /\ TextOf(e["agents"]) = e["agents"].text
    BY <2>1, <2>5 DEF Section, Sep, TextOf, OrElse
  <2>. QED  BY <2>1, <2>2, <2>3, <2>4, <2>5, <2>6 DEF SameCodexRecord, SameAgentsRecord
<1>. QED  BY <1>1, <1>2 DEF MadeFrom

-----------------------------------------------------------------------------
(* What writing a file of a plan, and taking it back, keeps.               *)

LEMMA CodexDone ==
    ASSUME NEW s, s.old \in Disks, s.plan \in Disks, MadeFrom(s), s.op \in Commits,
           NEW u \in MaybeCodex, NEW t, PlainCodex(u), ReadWell(s, t),
           CodexHeld(s.old["codex"], Before(s), u, t),
           TextOf(s.old["codex"]) = TextOf(u)
    PROVE  CodexHeld(s.plan["codex"], After(s), u, t)
<1>0. /\ s.old["codex"] \in MaybeCodex /\ s.plan["codex"] \in MaybeCodex
      /\ Before(s) \in MaybeRecord
  BY DiskKinds DEF Before
<1>1. CASE s.op = "apply"
  BY <1>0, <1>1, ApplyPlan, CodexApplied DEF Before, After, ReadWell
<1>2. CASE s.op = "unapply"
  BY <1>0, <1>2, UnapplyPlan, CodexUnapplied DEF Before, After
<1>3. CASE s.op = "sync"
  BY <1>0, <1>3, SyncPlan, CodexRenewed DEF Before, After
<1>. QED  BY <1>1, <1>2, <1>3 DEF Commits

LEMMA CodexTakenBack ==
    ASSUME NEW s, s.old \in Disks, s.plan \in Disks, MadeFrom(s), s.op \in Commits,
           NEW u \in MaybeCodex, NEW t, PlainCodex(u), ReadWell(s, t),
           CodexHeld(s.plan["codex"], After(s), u, t),
           TextOf(s.old["codex"]) = TextOf(u)
    PROVE  CodexHeld(s.old["codex"], Before(s), u, t)
<1>0. /\ s.old["codex"] \in MaybeCodex /\ s.plan["codex"] \in MaybeCodex
      /\ Before(s) \in MaybeRecord
  BY DiskKinds DEF Before
<1>1. CASE s.op = "apply"
  BY <1>0, <1>1, ApplyPlan, CodexApplyUndone DEF Before, After, ReadWell
<1>2. CASE s.op = "unapply"
  BY <1>0, <1>2, UnapplyPlan, CodexUnapplyUndone DEF Before, After, ReadWell
<1>3. CASE s.op = "sync"
  BY <1>0, <1>3, SyncPlan, CodexRenewed DEF Before, After
<1>. QED  BY <1>1, <1>2, <1>3 DEF Commits

LEMMA CodexUntouched ==
    ASSUME NEW s, s.old \in Disks, s.plan \in Disks, MadeFrom(s), s.op \in Commits,
           NEW u, NEW t, ReadWell(s, t), s.plan["codex"] = s.old["codex"],
           NEW c, CodexHeld(c, Before(s), u, t)
    PROVE  CodexHeld(c, After(s), u, t)
<1>1. CASE s.op = "apply"
  <2> DEFINE r == Before(s)
             new == Applied(s.plan)
  <2>1. /\ new \in Record /\ Server(s.old["codex"]) = new.limit
        /\ Limit(s.old["codex"]) = new.limit
        /\ r # Absent => new.previous = r.previous /\ new.codexExisted = r.codexExisted
    BY <1>1, ApplyPlan DEF Before
  <2>2. new.limit # 0 /\ new # Absent
    BY <2>1 DEF Record
  <2>3. r # Absent
    BY <2>1, <2>2 DEF ReadWell, CodexRead
  <2>4. "overruled" \notin t => new.limit = r.limit
    BY <1>1, <2>1, <2>3 DEF ReadWell
  <2> HIDE DEF r, new
  <2>5. After(s) = new
    BY <1>1 DEF After, new
  <2>6. CodexHeld(c, new, u, t)
    BY <2>1, <2>2, <2>3, <2>4 DEF CodexHeld, r
  <2>. QED  BY <2>5, <2>6
<1>2. CASE s.op = "unapply"
  BY <1>2 DEF Before, After
<1>3. CASE s.op = "sync"
  BY <1>3, SyncPlan, CodexRenewed DEF Before, After
<1>. QED  BY <1>1, <1>2, <1>3 DEF Commits

LEMMA AgentsDone ==
    ASSUME NEW s, s.old \in Disks, s.plan \in Disks, MadeFrom(s), s.op \in Commits,
           NEW u \in MaybeAgents, NEW t, PlainAgents(u), ReadWell(s, t),
           AgentsHeld(s.old["agents"], Before(s), u, t),
           TextOf(s.old["agents"]) = TextOf(u)
    PROVE  AgentsHeld(s.plan["agents"], After(s), u, t)
<1>0. /\ s.old["agents"] \in MaybeAgents /\ s.plan["agents"] \in MaybeAgents
      /\ Before(s) \in MaybeRecord /\ Applied(s.plan) \in MaybeRecord
  BY DiskKinds DEF Before
<1>1. CASE s.op = "apply"
  BY <1>0, <1>1, ApplyPlan, AgentsApplied DEF Before, After
<1>2. CASE s.op = "unapply"
  BY <1>0, <1>2, UnapplyPlan, AgentsUnapplied DEF Before, After
<1>3. CASE s.op = "sync"
  <2>1. AgentsHeld(s.plan["agents"], Before(s), u, t)
    <3>1. CASE s.plan["agents"] = s.old["agents"]
      BY <3>1
    <3>2. CASE s.plan["agents"] # s.old["agents"]
      <4>1. "drifted" \in t
        BY <1>3, <3>2 DEF ReadWell
      <4>. QED  BY <1>0, <1>3, <3>2, <4>1, SyncPlan, AgentsRefreshed
    <3>. QED  BY <3>1, <3>2
  <2>. QED  BY <1>3, <2>1, SyncPlan, AgentsRenewed DEF Before, After
<1>. QED  BY <1>1, <1>2, <1>3 DEF Commits

LEMMA AgentsTakenBack ==
    ASSUME NEW s, s.old \in Disks, s.plan \in Disks, MadeFrom(s), s.op \in Commits,
           NEW u \in MaybeAgents, NEW t, PlainAgents(u), ReadWell(s, t),
           AgentsHeld(s.plan["agents"], After(s), u, t),
           TextOf(s.old["agents"]) = TextOf(u)
    PROVE  AgentsHeld(s.old["agents"], Before(s), u, t)
<1>0. /\ s.old["agents"] \in MaybeAgents /\ s.plan["agents"] \in MaybeAgents
      /\ Before(s) \in MaybeRecord /\ Applied(s.plan) \in MaybeRecord
  BY DiskKinds DEF Before
<1>1. CASE s.op = "apply"
  BY <1>0, <1>1, ApplyPlan, AgentsApplyUndone DEF Before, After, ReadWell
<1>2. CASE s.op = "unapply"
  BY <1>0, <1>2, AgentsUnapplyUndone DEF Before, After, ReadWell
<1>3. CASE s.op = "sync"
  <2>1. AgentsHeld(s.plan["agents"], Before(s), u, t)
    BY <1>3, SyncPlan, AgentsRenewed DEF Before, After
  <2>2. CASE s.plan["agents"] = s.old["agents"]
    BY <2>1, <2>2
  <2>3. CASE s.plan["agents"] # s.old["agents"]
    <3>1. "drifted" \in t
      BY <1>3, <2>3 DEF ReadWell
    <3>. QED  BY <1>0, <1>3, <2>1, <2>3, <3>1, SyncPlan, AgentsRefreshed
  <2>. QED  BY <2>2, <2>3
<1>. QED  BY <1>1, <1>2, <1>3 DEF Commits

LEMMA AgentsUntouched ==
    ASSUME NEW s, s.old \in Disks, s.plan \in Disks, MadeFrom(s), s.op \in Commits,
           NEW u, NEW t, ReadWell(s, t), s.plan["agents"] = s.old["agents"],
           NEW a, AgentsHeld(a, Before(s), u, t),
           Section(a) = Section(s.old["agents"])
    PROVE  AgentsHeld(a, After(s), u, t)
<1>1. CASE s.op = "apply"
  <2> DEFINE r == Before(s)
             new == Applied(s.plan)
             o == s.old["agents"]
  <2>1. new \in Record /\ AppliedAgents(o, r, o, new)
    BY <1>1, ApplyPlan DEF Before
  <2>2. new # Absent /\ Section(o) # "none" /\ AgentsRead(o, r, t) /\ AgentsRead(a, r, t)
        /\ Section(a) = Section(o) /\ o \in MaybeAgents /\ AgentsHeld(a, r, u, t)
    BY <2>1, DiskKinds DEF AppliedAgents, ReadWell, AgentsHeld
  <2>3. After(s) = new
    BY <1>1 DEF After
  <2> HIDE DEF r, new, o
  <2>4. r # Absent
    BY <2>2 DEF AgentsRead
  <2>5. (new.agentsExisted <=> r.agentsExisted) /\ new.agentsHash = o
    BY <2>1, <2>4 DEF AppliedAgents
  <2>6. new.agentsHash.section # "none"
    BY <2>2, <2>5, AgentsFields DEF Section
  <2>7. ASSUME "drifted" \notin t PROVE new.agentsHash = a /\ (new.sep <=> Sep(a))
    <3>1. r.agentsHash = a /\ r.agentsHash = o /\ (r.sep <=> Sep(a))
      BY <2>2, <2>4, <2>7 DEF AgentsRead
    <3>2. OwnsSeparator(o, r) <=> r.sep
      BY <2>2, <2>4, <3>1, AgentsFields DEF OwnsSeparator
    <3>. QED  BY <2>1, <2>2, <2>5, <3>1, <3>2 DEF AppliedAgents, Separates
  <2>8. AgentsRead(a, new, t)
    BY <2>2, <2>4, <2>5, <2>6, <2>7 DEF AgentsRead
  <2>9. AgentsHeld(a, new, u, t)
    BY <2>2, <2>4, <2>5, <2>8 DEF AgentsHeld
  <2>. QED  BY <2>3, <2>9
<1>2. CASE s.op = "unapply"
  BY <1>2 DEF Before, After
<1>3. CASE s.op = "sync"
  BY <1>3, SyncPlan, AgentsRenewed DEF Before, After
<1>. QED  BY <1>1, <1>2, <1>3 DEF Commits

-----------------------------------------------------------------------------
(* The files between and within commits                                    *)

Held(d, r, u, t) == /\ CodexHeld(d["codex"], r, u["codex"], t)
                    /\ AgentsHeld(d["agents"], r, u["agents"], t)

(* The Codex directory is there for the user's sake, or the receipt (or    *)
(* the commit that made it) knows that it is not.                          *)
DirHeld(d, dir, made, r, u) ==
    /\ r = Absent => /\ dir <=> (made \/ ~NoneThere(d))
                     /\ u["dir"] => ~NoneThere(d)
    /\ r # Absent => /\ dir /\ ~made
                     /\ r.dirCreated => ~u["dir"]
                     /\ ~r.dirCreated => r.codexExisted \/ r.agentsExisted

AtRest(d, dir, u, t) ==
    /\ Held(d, Applied(d), u, t) /\ True(d, t)
    /\ "crashed" \notin t => DirHeld(d, dir, FALSE, Applied(d), u)

(* What two states of a file share that differ at most in the user's part. *)
Agree(g, d, e) ==
    /\ g = "binary" => d["binary"] = e["binary"]
    /\ g = "codex" => Server(d["codex"]) = Server(e["codex"])
    /\ g = "agents" => Section(d["agents"]) = Section(e["agents"])
    /\ g = "settings" => Applied(d) = Applied(e)

Listed(s) == Upto(s, Len(s.changes))
Written(s) ==
    CASE s.pc \in {"compare", "replace"} -> Upto(s, s.index - 1)
      [] s.pc \in {"recheck", "restore"} -> Upto(s, s.index)
      [] s.pc \in {"tree", "dir"} -> Listed(s)
      [] OTHER -> {}

(* Commit s has written the files W and no other, and the files of the     *)
(* user are held to the receipt that their content belongs to.             *)
UnderWay(s, W, d, u, t) ==
    /\ \A g \in W : Agree(g, d, s.plan)
    /\ \A g \in Files \ W : Agree(g, d, s.old)
    /\ CodexHeld(d["codex"], IF "codex" \in W THEN After(s) ELSE Before(s),
                 u["codex"], t)
    /\ AgentsHeld(d["agents"], IF "agents" \in W THEN After(s) ELSE Before(s),
                  u["agents"], t)
KeepsFiles(s, W, d) ==
    \A g \in Owned \cap Listed(s) :
        g \notin W /\ s.old[g] # Absent => d[g] # Absent
FilesMid(s, W, d, u, t) ==
    /\ ~s.unclean /\ s.op \in Commits /\ KeepsFiles(s, W, d)
    /\ W = {} => /\ \A g \in Listed(s) : Agree(g, d, s.old)
                 /\ Held(d, Applied(d), u, t) /\ True(d, t)
    /\ W # {} => UnderWay(s, W, d, u, t)
    /\ s.pc = "dir" => Applied(d) = Absent

FirstApply(s) == s.op = "apply" /\ Before(s) = Absent
DirMid(s, W, d, dir, u) ==
    /\ FirstApply(s) => /\ dir /\ (s.madeDir <=> NoneThere(s.old))
                        /\ u["dir"] => ~NoneThere(s.old)
    /\ (s.op # "apply" /\ Before(s) = Absent) => ~s.madeDir
    /\ W = {} => DirHeld(d, dir, s.madeDir, Applied(d), u)
    /\ (W # {} /\ ~FirstApply(s)) => DirHeld(d, dir, s.madeDir, Before(s), u)

MidOK(s, W, d, dir, u, t) ==
    /\ FilesMid(s, W, d, u, t)
    /\ "crashed" \notin t => DirMid(s, W, d, dir, u)
-----------------------------------------------------------------------------
(* The files that a commit has written                                     *)

LEMMA UptoGrows ==
    ASSUME NEW s, NEW want, Lists(s.changes, want), NEW i \in 1..Len(s.changes)
    PROVE  LET f == s.changes[i] IN
           /\ f \notin Upto(s, i - 1) /\ f \in Listed(s)
           /\ Upto(s, i) = Upto(s, i - 1) \cup {f}
           /\ Upto(s, i - 1) = Upto(s, i) \ {f}
<1> DEFINE f == s.changes[i]
           n == Len(s.changes)
<1>1. n \in Nat /\ i \in Nat /\ i > 0 /\ i - 1 \in Nat /\ i - 1 < i /\ i <= n
  BY DEF Lists
<1>2. f \notin Upto(s, i - 1)
  <2>1. ASSUME NEW j \in 1..(i - 1) PROVE s.changes[j] # f
    <3>1. j \in 1..n /\ j # i
      BY <1>1
    <3>. QED  BY <3>1 DEF Lists
  <2>. QED  BY <2>1 DEF Upto
<1>3. f \in Listed(s)
  BY DEF Listed, Upto
<1>4. Upto(s, i) = Upto(s, i - 1) \cup {f}
  BY <1>1, UptoNext
<1>. QED  BY <1>2, <1>3, <1>4

LEMMA UptoEnds ==
    ASSUME NEW s, NEW want, Lists(s.changes, want), want \subseteq Files
    PROVE  /\ Upto(s, 0) = {} /\ Listed(s) = want
           /\ \A i \in 0..Len(s.changes) : Upto(s, i) \subseteq Listed(s)
<1>1. Len(s.changes) \in Nat
  BY DEF Lists
<1>2. Upto(s, 0) = {}
  BY DEF Upto
<1>3. Listed(s) = want
  BY DEF Listed, Upto, Lists
<1>4. \A i \in 0..Len(s.changes) : Upto(s, i) \subseteq Listed(s)
  BY <1>1 DEF Listed, Upto
<1>. QED  BY <1>2, <1>3, <1>4

(* Unapply without a receipt leaves the files of the user alone.           *)
LEMMA NothingToUndo ==
    ASSUME NEW s, s.old \in Disks, s.plan \in Disks, MadeFrom(s), s.op = "unapply",
           NEW t, ReadWell(s, t), Before(s) = Absent
    PROVE  /\ s.plan["codex"] = s.old["codex"] /\ s.plan["agents"] = s.old["agents"]
           /\ ~s.removesDir
<1>1. /\ UndoneCodex(s.old["codex"], Absent, s.plan["codex"])
      /\ UndoneAgents(s.old["agents"], Absent, s.plan["agents"])
      /\ ~s.removesDir
  BY UnapplyPlan DEF Before
<1>2. /\ s.old["codex"] \in MaybeCodex /\ s.plan["codex"] \in MaybeCodex
      /\ s.old["agents"] \in MaybeAgents /\ s.plan["agents"] \in MaybeAgents
  BY DiskKinds
<1>3. Server(s.old["codex"]) = 0 /\ Section(s.old["agents"]) = "none"
  BY DEF ReadWell, CodexRead, AgentsRead
<1>4. s.plan["codex"] = s.old["codex"]
  <2> DEFINE c == s.old["codex"]
             e == s.plan["codex"]
  <2>1. c \in MaybeCodex /\ e \in MaybeCodex /\ UndoneCodex(c, Absent, e) /\ Server(c) = 0
    BY <1>1, <1>2, <1>3
  <2> HIDE DEF c, e
  <2>2. Server(e) = Server(c) /\ Limit(e) = Limit(c) /\ TextOf(e) = TextOf(c)
        /\ (e = Absent => c = Absent) /\ (e # Absent /\ c = Absent => e # NoCodex)
    BY <2>1 DEF UndoneCodex
  <2>3. e = c
    BY <2>1, <2>2, CodexAlike
  <2>. QED  BY <2>3 DEF c, e
<1>5. s.plan["agents"] = s.old["agents"]
  <2> DEFINE a == s.old["agents"]
             e == s.plan["agents"]
  <2>1. a \in MaybeAgents /\ e \in MaybeAgents /\ UndoneAgents(a, Absent, e)
        /\ Section(a) = "none"
    BY <1>1, <1>2, <1>3
  <2> HIDE DEF a, e
  <2>2. Section(e) = Section(a) /\ (Sep(e) <=> Sep(a)) /\ TextOf(e) = TextOf(a)
        /\ (e = Absent => a = Absent) /\ (a = Absent => e = Absent)
    BY <2>1 DEF UndoneAgents, OwnsSeparator
  <2>3. e = a
    BY <2>1, <2>2, AgentsAlike
  <2>. QED  BY <2>3 DEF a, e
<1>. QED  BY <1>1, <1>4, <1>5
-----------------------------------------------------------------------------
(* Steps that leave the managed part of the files alone                    *)

Undisturbed(d, u, t, e, v, s) ==
    /\ \A g \in Files : Agree(g, e, d)
    /\ \A g \in Owned : d[g] # Absent => e[g] # Absent
    /\ t \subseteq s
    /\ \A r \in MaybeRecord :
          /\ CodexHeld(d["codex"], r, u["codex"], t) => CodexHeld(e["codex"], r, v["codex"], s)
          /\ AgentsHeld(d["agents"], r, u["agents"], t) => AgentsHeld(e["agents"], r, v["agents"], s)
DirUndisturbed(d, dir, u, e, to, v) ==
    /\ dir => to /\ (v["dir"] => u["dir"])
    /\ \A r \in MaybeRecord, made \in BOOLEAN :
          DirHeld(d, dir, made, r, u) => DirHeld(e, to, made, r, v)

(* Nothing happens but what the history records.                           *)
LEMMA NothingChanges ==
    ASSUME NEW d \in Disks, NEW u, NEW t, NEW s, t \subseteq s, NEW dir
    PROVE  Undisturbed(d, u, t, d, u, s) /\ DirUndisturbed(d, dir, u, d, dir, u)
BY CodexLater, AgentsLater DEF Undisturbed, DirUndisturbed, Agree

LEMMA RestKept ==
    ASSUME NEW d \in Disks, NEW e \in Disks, NEW dir, NEW to, NEW u, NEW v, NEW t, NEW s,
           AtRest(d, dir, u, t), Undisturbed(d, u, t, e, v, s),
           DirUndisturbed(d, dir, u, e, to, v)
    PROVE  AtRest(e, to, v, s)
<1>1. Applied(d) \in MaybeRecord /\ Applied(e) = Applied(d)
  BY DiskKinds DEF Undisturbed, Agree, Files
<1>2. Held(e, Applied(e), v, s)
  BY <1>1 DEF AtRest, Held, Undisturbed
<1>3. True(e, s)
  <2>1. e["binary"] = d["binary"] /\ Server(e["codex"]) = Server(d["codex"]) /\ t \subseteq s
    BY DEF Undisturbed, Agree, Files
  <2>. QED  BY <1>1, <2>1 DEF AtRest, True
<1>4. ASSUME "crashed" \notin s PROVE DirHeld(e, to, FALSE, Applied(e), v)
  <2>1. DirHeld(d, dir, FALSE, Applied(d), u)
    BY <1>4 DEF AtRest, Undisturbed
  <2>. QED  BY <1>1, <2>1 DEF DirUndisturbed
<1>. QED  BY <1>2, <1>3, <1>4 DEF AtRest

LEMMA MidKept ==
    ASSUME NEW d \in Disks, NEW e \in Disks, NEW dir, NEW to, NEW u, NEW v, NEW t, NEW s,
           NEW r, NEW q, NEW W \in SUBSET Files, r.old \in Disks, r.plan \in Disks,
           MidOK(r, W, d, dir, u, t), Undisturbed(d, u, t, e, v, s),
           DirUndisturbed(d, dir, u, e, to, v),
           Alike(r, q), q.madeDir = r.madeDir, ~q.unclean, q.madeDir \in BOOLEAN,
           q.pc = "dir" => r.pc = "dir" \/ Applied(d) = Absent
    PROVE  MidOK(q, W, e, to, v, s)
<1>1. /\ Applied(d) \in MaybeRecord /\ Applied(e) = Applied(d)
      /\ e["binary"] = d["binary"] /\ Server(e["codex"]) = Server(d["codex"])
      /\ Section(e["agents"]) = Section(d["agents"])
  BY DiskKinds DEF Undisturbed, Agree, Files
<1>2. /\ Before(r) \in MaybeRecord /\ After(r) \in MaybeRecord
      /\ Before(q) = Before(r) /\ After(q) = After(r) /\ Listed(q) = Listed(r)
      /\ (FirstApply(q) <=> FirstApply(r))
  BY DiskKinds DEF Before, After, Alike, Listed, Upto, FirstApply
<1>3. FilesMid(q, W, e, v, s)
  <2>1. KeepsFiles(q, W, e)
    BY <1>2 DEF MidOK, FilesMid, KeepsFiles, Undisturbed, Alike
  <2>2. \A g \in Files : \A x : Agree(g, d, x) => Agree(g, e, x)
    BY <1>1 DEF Agree
  <2>4. ASSUME W = {}
        PROVE  /\ \A g \in Listed(q) : Agree(g, e, q.old)
               /\ Held(e, Applied(e), v, s) /\ True(e, s)
    <3>1. \A g \in Listed(q) : Agree(g, e, q.old)
      BY <1>1, <1>2, <2>4 DEF MidOK, FilesMid, Alike, Agree
    <3>2. Held(e, Applied(e), v, s)
      BY <1>1, <2>4 DEF MidOK, FilesMid, Held, Undisturbed
    <3>3. True(e, s)
      <4>1. True(d, t) /\ t \subseteq s
        BY <2>4 DEF MidOK, FilesMid, Undisturbed
      <4>. QED  BY <1>1, <4>1 DEF True
    <3>. QED  BY <3>1, <3>2, <3>3
  <2>5. ASSUME W # {} PROVE UnderWay(q, W, e, v, s)
    <3>1. UnderWay(r, W, d, u, t)
      BY <2>5 DEF MidOK, FilesMid
    <3>2. (\A g \in W : Agree(g, e, q.plan)) /\ \A g \in Files \ W : Agree(g, e, q.old)
      BY <2>2, <3>1 DEF UnderWay, Alike
    <3>3. CodexHeld(e["codex"], IF "codex" \in W THEN After(q) ELSE Before(q), v["codex"], s)
      BY <1>2, <3>1 DEF UnderWay, Undisturbed
    <3>4. AgentsHeld(e["agents"], IF "agents" \in W THEN After(q) ELSE Before(q), v["agents"], s)
      BY <1>2, <3>1 DEF UnderWay, Undisturbed
    <3>. QED  BY <3>2, <3>3, <3>4 DEF UnderWay
  <2>6. q.op \in Commits /\ (q.pc = "dir" => Applied(e) = Absent)
    BY <1>1 DEF MidOK, FilesMid, Alike
  <2>. QED  BY <2>1, <2>4, <2>5, <2>6 DEF FilesMid
<1>4. ASSUME "crashed" \notin s PROVE DirMid(q, W, e, to, v)
  <2>1. DirMid(r, W, d, dir, u)
    BY <1>4 DEF MidOK, Undisturbed
  <2>2. NoneThere(q.old) <=> NoneThere(r.old)
    BY DEF Alike, NoneThere
  <2>3. \A x \in MaybeRecord : DirHeld(d, dir, r.madeDir, x, u) => DirHeld(e, to, q.madeDir, x, v)
    BY DEF DirUndisturbed
  <2>. QED  BY <1>1, <1>2, <2>1, <2>2, <2>3 DEF DirMid, DirUndisturbed, Alike
<1>. QED  BY <1>3, <1>4 DEF MidOK

-----------------------------------------------------------------------------
(* Writing one file more, and taking one back                              *)

LEMMA SameFileAgrees ==
    ASSUME NEW d, NEW e, NEW g \in Files, e[g] = d[g]
    PROVE  Agree(g, d, e) /\ \A x : Agree(g, d, x) => Agree(g, e, x)
BY DEF Agree, Applied

LEMMA AllAgree ==
    ASSUME NEW d, NEW e, \A g \in Files : Agree(g, d, e)
    PROVE  /\ d["binary"] = e["binary"] /\ Server(d["codex"]) = Server(e["codex"])
           /\ Section(d["agents"]) = Section(e["agents"]) /\ Applied(d) = Applied(e)
BY DEF Agree, Files

LEMMA Enters ==
    ASSUME NEW s, NEW W \in SUBSET Files, NEW d, NEW u, NEW t, FilesMid(s, W, d, u, t),
           W = {} => \A g \in Files \ Listed(s) : Agree(g, d, s.old)
    PROVE  UnderWay(s, W, d, u, t)
<1>1. CASE W # {}
  BY <1>1 DEF FilesMid
<1>2. CASE W = {}
  <2>1. \A g \in Files : Agree(g, d, s.old)
    BY <1>2 DEF FilesMid
  <2>2. Applied(d) = Before(s)
    BY <2>1, AllAgree DEF Before
  <2>. QED  BY <1>2, <2>1, <2>2 DEF FilesMid, Held, UnderWay
<1>. QED  BY <1>1, <1>2

LEMMA Leaves ==
    ASSUME NEW s, NEW W \in SUBSET Files, NEW d, NEW u, NEW t, UnderWay(s, W, d, u, t),
           Listed(s) \subseteq Files,
           ~s.unclean, s.op \in Commits, KeepsFiles(s, W, d), True(s.old, t), s.pc # "dir"
    PROVE  FilesMid(s, W, d, u, t)
<1>1. ASSUME W = {}
      PROVE  /\ \A g \in Listed(s) : Agree(g, d, s.old)
             /\ Held(d, Applied(d), u, t) /\ True(d, t)
  <2>1. \A g \in Files : Agree(g, d, s.old)
    BY <1>1 DEF UnderWay
  <2>2. Applied(d) = Before(s) /\ d["binary"] = s.old["binary"]
        /\ Server(d["codex"]) = Server(s.old["codex"])
    BY <2>1, AllAgree DEF Before
  <2>. QED  BY <1>1, <2>1, <2>2 DEF UnderWay, Held, True, Before
<1>. QED  BY <1>1 DEF FilesMid

(* What a commit may rely on about its own record.                         *)
Sensible(s, t) ==
    /\ s.old \in Disks /\ s.plan \in Disks /\ MadeFrom(s) /\ s.op \in Commits
    /\ ReadWell(s, t) /\ Lists(s.changes, Differing(s))
Plain(u) == /\ u["codex"] \in MaybeCodex /\ u["agents"] \in MaybeAgents
            /\ PlainCodex(u["codex"]) /\ PlainAgents(u["agents"])
SameText(d, u) == \A f \in Owned : TextOf(d[f]) = TextOf(u[f])

LEMMA OneMore ==
    ASSUME NEW s, NEW t, Sensible(s, t), NEW u, Plain(u),
           NEW d \in Disks, NEW e \in Disks, SameText(d, u),
           NEW f \in Files, NEW W \in SUBSET Files, NEW V \in SUBSET Files, f \notin W,
           V = W \cup {f}, d[f] = s.old[f], e[f] = s.plan[f],
           \A g \in Files : g # f => e[g] = d[g], UnderWay(s, W, d, u, t)
    PROVE  UnderWay(s, V, e, u, t)
<1>1. \A g \in V : Agree(g, e, s.plan)
  <2> TAKE g \in V
  <2>1. CASE g = f
    BY <2>1, SameFileAgrees
  <2>2. CASE g # f
    <3>1. Agree(g, d, s.plan) /\ e[g] = d[g] /\ g \in Files
      BY <2>2 DEF UnderWay
    <3>. QED  BY <3>1, SameFileAgrees
  <2>. QED  BY <2>1, <2>2
<1>2. \A g \in Files \ V : Agree(g, e, s.old)
  <2> TAKE g \in Files \ V
  <2>1. Agree(g, d, s.old) /\ e[g] = d[g] /\ g \in Files
    BY DEF UnderWay
  <2>. QED  BY <2>1, SameFileAgrees
<1>3. CodexHeld(e["codex"], IF "codex" \in V THEN After(s) ELSE Before(s), u["codex"], t)
  <2>1. CASE f = "codex"
    <3>1. CodexHeld(s.old["codex"], Before(s), u["codex"], t)
      BY <2>1 DEF UnderWay
    <3>2. TextOf(s.old["codex"]) = TextOf(u["codex"])
      BY <2>1 DEF SameText, Owned
    <3>3. CodexHeld(s.plan["codex"], After(s), u["codex"], t)
      BY <3>1, <3>2, CodexDone DEF Sensible, Plain
    <3>. QED  BY <2>1, <3>3
  <2>2. CASE f # "codex"
    BY <2>2 DEF UnderWay, Files
  <2>. QED  BY <2>1, <2>2
<1>4. AgentsHeld(e["agents"], IF "agents" \in V THEN After(s) ELSE Before(s), u["agents"], t)
  <2>1. CASE f = "agents"
    <3>1. AgentsHeld(s.old["agents"], Before(s), u["agents"], t)
      BY <2>1 DEF UnderWay
    <3>2. TextOf(s.old["agents"]) = TextOf(u["agents"])
      BY <2>1 DEF SameText, Owned
    <3>3. AgentsHeld(s.plan["agents"], After(s), u["agents"], t)
      BY <3>1, <3>2, AgentsDone DEF Sensible, Plain
    <3>. QED  BY <2>1, <3>3
  <2>2. CASE f # "agents"
    BY <2>2 DEF UnderWay, Files
  <2>. QED  BY <2>1, <2>2
<1>. QED  BY <1>1, <1>2, <1>3, <1>4 DEF UnderWay

LEMMA OneLess ==
    ASSUME NEW s, NEW t, Sensible(s, t), NEW u, Plain(u),
           NEW d \in Disks, NEW e \in Disks, SameText(d, u),
           NEW f \in Files, NEW W \in SUBSET Files, NEW V \in SUBSET Files, f \in W,
           V = W \ {f}, d[f] = s.plan[f], e[f] = s.old[f],
           \A g \in Files : g # f => e[g] = d[g], UnderWay(s, W, d, u, t)
    PROVE  UnderWay(s, V, e, u, t)
<1>1. \A g \in V : Agree(g, e, s.plan)
  <2> TAKE g \in V
  <2>1. Agree(g, d, s.plan) /\ e[g] = d[g] /\ g \in Files
    BY DEF UnderWay
  <2>. QED  BY <2>1, SameFileAgrees
<1>2. \A g \in Files \ V : Agree(g, e, s.old)
  <2> TAKE g \in Files \ V
  <2>1. CASE g = f
    BY <2>1, SameFileAgrees
  <2>2. CASE g # f
    <3>1. Agree(g, d, s.old) /\ e[g] = d[g] /\ g \in Files
      BY <2>2 DEF UnderWay
    <3>. QED  BY <3>1, SameFileAgrees
  <2>. QED  BY <2>1, <2>2
<1>0. \A g \in Owned : TextOf(s.plan[g]) = TextOf(s.old[g])
  BY PlansKeepText DEF Sensible
<1>3. CodexHeld(e["codex"], IF "codex" \in V THEN After(s) ELSE Before(s), u["codex"], t)
  <2>1. CASE f = "codex"
    <3>1. CodexHeld(s.plan["codex"], After(s), u["codex"], t)
      BY <2>1 DEF UnderWay
    <3>2. TextOf(s.old["codex"]) = TextOf(u["codex"])
      BY <1>0, <2>1 DEF SameText, Owned
    <3>3. CodexHeld(s.old["codex"], Before(s), u["codex"], t)
      BY <3>1, <3>2, CodexTakenBack DEF Sensible, Plain
    <3>. QED  BY <2>1, <3>3
  <2>2. CASE f # "codex"
    BY <2>2 DEF UnderWay, Files
  <2>. QED  BY <2>1, <2>2
<1>4. AgentsHeld(e["agents"], IF "agents" \in V THEN After(s) ELSE Before(s), u["agents"], t)
  <2>1. CASE f = "agents"
    <3>1. AgentsHeld(s.plan["agents"], After(s), u["agents"], t)
      BY <2>1 DEF UnderWay
    <3>2. TextOf(s.old["agents"]) = TextOf(u["agents"])
      BY <1>0, <2>1 DEF SameText, Owned
    <3>3. AgentsHeld(s.old["agents"], Before(s), u["agents"], t)
      BY <3>1, <3>2, AgentsTakenBack DEF Sensible, Plain
    <3>. QED  BY <2>1, <3>3
  <2>2. CASE f # "agents"
    BY <2>2 DEF UnderWay, Files
  <2>. QED  BY <2>1, <2>2
<1>. QED  BY <1>1, <1>2, <1>3, <1>4 DEF UnderWay
-----------------------------------------------------------------------------
(* How a commit ends                                                       *)

LEMMA ListedIsDiffering ==
    ASSUME NEW s, NEW t, Sensible(s, t)
    PROVE  /\ Listed(s) = Differing(s) /\ Listed(s) \subseteq Files
           /\ \A g \in Files \ Listed(s) : s.plan[g] = s.old[g]
<1>1. Differing(s) \subseteq Files
  BY DEF Differing
<1>2. Listed(s) = Differing(s)
  BY <1>1, UptoEnds DEF Sensible
<1>. QED  BY <1>1, <1>2 DEF Differing

(* With every file written, the files are as planned.                      *)
LEMMA AllWritten ==
    ASSUME NEW s, NEW t, Sensible(s, t), NEW d, NEW u,
           UnderWay(s, Listed(s), d, u, t)
    PROVE  \A g \in Files : Agree(g, d, s.plan)
<1> TAKE g \in Files
<1>1. CASE g \in Listed(s)
  BY <1>1 DEF UnderWay
<1>2. CASE g \notin Listed(s)
  <2>1. Agree(g, d, s.old) /\ s.plan[g] = s.old[g]
    BY <1>2, ListedIsDiffering DEF UnderWay
  <2>. QED  BY <2>1 DEF Agree, Applied
<1>. QED  BY <1>1, <1>2

LEMMA Completed ==
    ASSUME NEW s, NEW t, Sensible(s, t), s.op # "unapply", NEW d \in Disks,
           NEW u, UnderWay(s, Listed(s), d, u, t)
    PROVE  Held(d, Applied(d), u, t) /\ True(d, t) /\ Applied(d) = Applied(s.plan)
<1>1. /\ d["binary"] = s.plan["binary"] /\ Server(d["codex"]) = Server(s.plan["codex"])
      /\ Applied(d) = Applied(s.plan) /\ After(s) = Applied(s.plan)
  BY AllWritten, AllAgree DEF After
<1>2. CodexHeld(d["codex"], After(s), u["codex"], t)
  <2>1. CASE "codex" \in Listed(s)
    BY <2>1 DEF UnderWay
  <2>2. CASE "codex" \notin Listed(s)
    <3>1. CodexHeld(d["codex"], Before(s), u["codex"], t) /\ s.plan["codex"] = s.old["codex"]
      BY <2>2, ListedIsDiffering DEF UnderWay, Files
    <3>. QED  BY <3>1, CodexUntouched DEF Sensible
  <2>. QED  BY <2>1, <2>2
<1>3. AgentsHeld(d["agents"], After(s), u["agents"], t)
  <2>1. CASE "agents" \in Listed(s)
    BY <2>1 DEF UnderWay
  <2>2. CASE "agents" \notin Listed(s)
    <3>1. /\ AgentsHeld(d["agents"], Before(s), u["agents"], t)
          /\ s.plan["agents"] = s.old["agents"] /\ Agree("agents", d, s.old)
      BY <2>2, ListedIsDiffering DEF UnderWay, Files
    <3>2. Section(d["agents"]) = Section(s.old["agents"])
      BY <3>1 DEF Agree
    <3>. QED  BY <3>1, <3>2, AgentsUntouched DEF Sensible
  <2>. QED  BY <2>1, <2>2
<1>4. True(d, t)
  <2>1. CASE s.op = "apply"
    <3>1. /\ s.plan["binary"] = Applied(s.plan).binary
          /\ Server(s.plan["codex"]) = Applied(s.plan).limit
      BY <2>1, ApplyPlan DEF Sensible
    <3>. QED  BY <1>1, <3>1 DEF True
  <2>2. CASE s.op = "sync"
    <3> DEFINE r == Applied(s.old)
               new == Applied(s.plan)
    <3>1. /\ s.plan["codex"] = s.old["codex"] /\ r # Absent
          /\ SameCodexRecord(r, new)
          /\ \/ new.binary = s.plan["binary"]
             \/ s.plan["binary"] = s.old["binary"] /\ new = r
      BY <2>2, SyncPlan DEF Sensible
    <3>2. r.binary = s.old["binary"] /\ (Server(s.old["codex"]) = r.limit \/ "crashed" \in t)
      BY <3>1 DEF Sensible, ReadWell, True
    <3> HIDE DEF r, new
    <3>3. new.binary = s.plan["binary"]
      BY <3>1, <3>2
    <3>4. Server(s.plan["codex"]) = new.limit \/ "crashed" \in t
      BY <3>1, <3>2 DEF SameCodexRecord
    <3>. QED  BY <1>1, <3>3, <3>4 DEF True, new
  <2>. QED  BY <2>1, <2>2 DEF Sensible, Commits
<1>. QED  BY <1>1, <1>2, <1>3, <1>4 DEF Held

(* The receipt is gone, and nothing of FastCtx is left that it had to      *)
(* account for.                                                            *)
LEMMA GivenUp ==
    ASSUME NEW r, NEW u, NEW t, NEW c, NEW v, NEW a,
           CodexHeld(c, r, u, t), Server(c) = 0,
           AgentsHeld(a, r, v, t), Section(a) = "none"
    PROVE  CodexHeld(c, Absent, u, t) /\ AgentsHeld(a, Absent, v, t)
BY DEF CodexHeld, AgentsHeld, AgentsRead

(* An Unapply that stops on its way leaves a receipt beside what is still  *)
(* to be undone.                                                           *)
LEMMA Abandoned ==
    ASSUME NEW s, NEW t, Sensible(s, t), s.op = "unapply", InTurn(s.changes),
           NEW d \in Disks, NEW u, NEW n \in 0..Len(s.changes),
           UnderWay(s, Upto(s, n), d, u, t)
    PROVE  /\ Held(d, Applied(d), u, t)
           /\ Applied(d) # Absent => Applied(d).binary = d["binary"]
<1> DEFINE W == Upto(s, n)
<1>1. /\ Listed(s) \subseteq Files /\ W \subseteq Listed(s)
      /\ \A g \in Files \ Listed(s) : s.plan[g] = s.old[g]
  BY ListedIsDiffering, UptoEnds DEF Sensible, Differing
<1>2. /\ s.plan["binary"] = Absent /\ s.plan["settings"] = Absent
      /\ Server(s.plan["codex"]) = 0 /\ Section(s.plan["agents"]) = "none"
  BY UnapplyPlan DEF Sensible, UndoneCodex, UndoneAgents
<1>3. After(s) = Before(s)
  BY DEF After, Before
<1>4. /\ CodexHeld(d["codex"], Before(s), u["codex"], t)
      /\ AgentsHeld(d["agents"], Before(s), u["agents"], t)
  BY <1>3 DEF UnderWay
<1>5. Len(s.changes) \in Nat /\ s.changes \in Seq(Files)
  BY DEF Sensible, Lists
<1>6. CASE Before(s) = Absent
  <2>1. Applied(d) = Absent
    <3>1. CASE "settings" \in W
      BY <1>2, <3>1 DEF UnderWay, Agree, Applied
    <3>2. CASE "settings" \notin W
      <4>1. Agree("settings", d, s.old)
        BY <3>2 DEF UnderWay, Files
      <4>. QED  BY <1>6, <4>1 DEF Agree, Before
    <3>. QED  BY <3>1, <3>2
  <2>. QED  BY <1>4, <1>6, <2>1 DEF Held
<1>7. CASE Before(s) # Absent /\ "settings" \notin W
  <2>1. Applied(d) = Before(s)
    BY <1>7 DEF UnderWay, Agree, Before, Files
  <2>2. "settings" \in Listed(s)
    <3>1. s.plan["settings"] # s.old["settings"]
      BY <1>2, <1>7 DEF Before, Applied
    <3>. QED  BY <1>1, <3>1 DEF Files
  <2>3. "binary" \notin W
    <3> SUFFICES ASSUME "binary" \in W PROVE FALSE
      OBVIOUS
    <3>1. PICK j \in 1..n : s.changes[j] = "binary"
      BY DEF Upto
    <3>2. PICK i \in 1..Len(s.changes) : s.changes[i] = "settings"
      BY <2>2 DEF Listed, Upto
    <3>3. j \in 1..Len(s.changes)
      BY <1>5, <3>1
    <3>4. i < j
      BY <3>1, <3>2, <3>3 DEF InTurn, EndsWith
    <3>5. i \in 1..n
      BY <1>5, <3>1, <3>2, <3>4
    <3>. QED  BY <1>7, <3>2, <3>5 DEF Upto
  <2>4. d["binary"] = s.old["binary"]
    BY <2>3 DEF UnderWay, Agree, Files
  <2>5. Before(s).binary = s.old["binary"]
    BY <1>7 DEF Sensible, ReadWell, True, Before
  <2>. QED  BY <1>4, <2>1, <2>4, <2>5 DEF Held
<1>8. CASE Before(s) # Absent /\ "settings" \in W
  <2>1. Applied(d) = Absent
    BY <1>2, <1>8 DEF UnderWay, Agree, Applied
  <2>2. \A g \in Owned \cap Listed(s) : g \in W
    <3> TAKE g \in Owned \cap Listed(s)
    <3>1. PICK j \in 1..n : s.changes[j] = "settings"
      BY <1>8 DEF Upto
    <3>2. PICK i \in 1..Len(s.changes) : s.changes[i] = g
      BY DEF Listed, Upto
    <3>3. j \in 1..Len(s.changes)
      BY <1>5, <3>1
    <3>4. i < j
      BY <3>1, <3>2, <3>3 DEF InTurn
    <3>5. i \in 1..n
      BY <1>5, <3>1, <3>2, <3>4
    <3>. QED  BY <3>2, <3>5 DEF Upto
  <2>3. \A g \in Owned : Agree(g, d, s.plan)
    <3> TAKE g \in Owned
    <3>1. CASE g \in Listed(s)
      BY <2>2, <3>1 DEF UnderWay
    <3>2. CASE g \notin Listed(s)
      <4>1. g \in Files \ W /\ s.plan[g] = s.old[g]
        BY <1>1, <3>2, OwnedFiles
      <4>2. Agree(g, d, s.old)
        BY <4>1 DEF UnderWay
      <4>. QED  BY <4>1, <4>2 DEF Agree, Owned
    <3>. QED  BY <3>1, <3>2
  <2>4. Server(d["codex"]) = 0 /\ Section(d["agents"]) = "none"
    BY <1>2, <2>3 DEF Agree, Owned
  <2>. QED  BY <1>4, <2>1, <2>4, GivenUp DEF Held
<1>. QED  BY <1>6, <1>7, <1>8

-----------------------------------------------------------------------------
(* The Codex directory through a commit                                    *)

LEMMA FirstApplyLists ==
    ASSUME NEW s, NEW t, Sensible(s, t), FirstApply(s)
    PROVE  Owned \subseteq Listed(s) /\ "settings" \in Listed(s)
<1>1. /\ Server(s.old["codex"]) = 0 /\ Section(s.old["agents"]) = "none"
      /\ Applied(s.old) = Absent
  BY DEF Sensible, ReadWell, CodexRead, AgentsRead, FirstApply, Before
<1>2. /\ Applied(s.plan) \in Record
      /\ Server(s.plan["codex"]) = Applied(s.plan).limit
      /\ Section(s.plan["agents"]) # "none"
  BY ApplyPlan DEF Sensible, FirstApply, AppliedAgents
<1>3. Applied(s.plan).limit # 0 /\ Applied(s.plan) # Absent
  BY <1>2 DEF Record
<1>4. /\ s.plan["codex"] # s.old["codex"] /\ s.plan["agents"] # s.old["agents"]
      /\ s.plan["settings"] # s.old["settings"]
  BY <1>1, <1>2, <1>3 DEF Applied
<1>. QED  BY <1>4, ListedIsDiffering DEF Differing, Owned, Files

(* Without a receipt only Apply touches the user's files.                  *)
LEMMA OnlyApplyTouches ==
    ASSUME NEW s, NEW t, Sensible(s, t), s.op # "apply", Before(s) = Absent
    PROVE  s.op = "unapply" /\ Owned \cap Listed(s) = {}
<1>1. s.op = "unapply"
  BY SyncPlan DEF Sensible, Commits, Before
<1>2. s.plan["codex"] = s.old["codex"] /\ s.plan["agents"] = s.old["agents"]
  BY <1>1, NothingToUndo DEF Sensible
<1>. QED  BY <1>1, <1>2, ListedIsDiffering DEF Differing, Owned

LEMMA DirWritten ==
    ASSUME NEW s, NEW t, Sensible(s, t), NEW d \in Disks, NEW e \in Disks,
           NEW dir \in BOOLEAN, NEW to \in BOOLEAN, NEW u, NEW f \in Listed(s),
           NEW W \in SUBSET Files, NEW V \in SUBSET Files, DirMid(s, W, d, dir, u),
           W = {} => Applied(d) = Before(s), V = {} => Applied(e) = Before(s),
           KeepsFiles(s, V, e), \A g \in Files : g # f => e[g] = d[g],
           to <=> (dir \/ (f \in Owned /\ e[f] # Absent))
    PROVE  DirMid(s, V, e, to, u)
<1>1. ASSUME ~FirstApply(s) PROVE DirHeld(e, to, s.madeDir, Before(s), u)
  <2>1. DirHeld(d, dir, s.madeDir, Before(s), u)
    BY <1>1 DEF DirMid
  <2>2. CASE Before(s) # Absent
    BY <2>1, <2>2 DEF DirHeld
  <2>3. CASE Before(s) = Absent
    <3>1. f \notin Owned
      BY <1>1, <2>3, OnlyApplyTouches DEF FirstApply
    <3>2. NoneThere(e) <=> NoneThere(d)
      BY <3>1 DEF NoneThere, Owned, Files
    <3>. QED  BY <2>1, <2>3, <3>1, <3>2 DEF DirHeld
  <2>. QED  BY <2>2, <2>3
<1>2. ASSUME FirstApply(s)
      PROVE  /\ to /\ (s.madeDir <=> NoneThere(s.old))
             /\ u["dir"] => ~NoneThere(s.old)
  BY <1>2 DEF DirMid
<1>3. ASSUME FirstApply(s), V = {} PROVE DirHeld(e, to, s.madeDir, Absent, u)
  <2>1. ~NoneThere(s.old) => ~NoneThere(e)
    <3>1. Owned \subseteq Listed(s)
      BY <1>3, FirstApplyLists
    <3>. QED  BY <1>3, <3>1 DEF KeepsFiles, NoneThere, Owned
  <2>. QED  BY <1>2, <1>3, <2>1 DEF DirHeld
<1>4. V = {} => DirHeld(e, to, s.madeDir, Applied(e), u)
  BY <1>1, <1>3 DEF FirstApply
<1>5. (s.op # "apply" /\ Before(s) = Absent) => ~s.madeDir
  BY DEF DirMid
<1>. QED  BY <1>1, <1>2, <1>4, <1>5 DEF DirMid

LEMMA DirCompleted ==
    ASSUME NEW s, NEW t, Sensible(s, t), s.op # "unapply", "crashed" \notin t,
           NEW W, W # {}, NEW d, NEW dir, NEW u, DirMid(s, W, d, dir, u)
    PROVE  DirHeld(d, dir, FALSE, Applied(s.plan), u)
<1> DEFINE r == Before(s)
           new == Applied(s.plan)
<1>1. CASE FirstApply(s)
  <2>1. dir /\ (u["dir"] => ~NoneThere(s.old))
    BY <1>1 DEF DirMid
  <2>2. new.dirCreated <=> NoneThere(s.old)
    BY <1>1 DEF Sensible, ReadWell, FirstApply
  <2>3. /\ new \in Record /\ new.codexExisted = (s.old["codex"] # Absent)
        /\ new.agentsExisted <=> s.old["agents"] # Absent
    BY <1>1, ApplyPlan DEF Sensible, FirstApply, Before, AppliedAgents
  <2>4. new # Absent
    BY <2>3
  <2> HIDE DEF new
  <2>5. DirHeld(d, dir, FALSE, new, u)
    BY <2>1, <2>2, <2>3, <2>4 DEF DirHeld, NoneThere
  <2>. QED  BY <2>5 DEF new
<1>2. CASE ~FirstApply(s)
  <2>1. DirHeld(d, dir, s.madeDir, r, u)
    BY <1>2 DEF DirMid
  <2>2. /\ r # Absent /\ new # Absent
        /\ new.dirCreated <=> r.dirCreated
        /\ new.codexExisted = r.codexExisted /\ (new.agentsExisted <=> r.agentsExisted)
    <3>1. CASE s.op = "apply"
      <4>1. r # Absent
        BY <1>2, <3>1 DEF FirstApply
      <4>2. new \in Record /\ new.codexExisted = r.codexExisted
            /\ (new.agentsExisted <=> r.agentsExisted)
        BY <3>1, <4>1, ApplyPlan DEF Sensible, Before, AppliedAgents
      <4>3. new.dirCreated <=> r.dirCreated
        BY <3>1, <4>1 DEF Sensible, ReadWell
      <4>4. new # Absent
        BY <4>2
      <4>. QED  BY <4>1, <4>2, <4>3, <4>4
    <3>2. CASE s.op = "sync"
      BY <3>2, SyncPlan DEF Sensible, Before, SameCodexRecord, SameAgentsRecord
    <3>. QED  BY <3>1, <3>2 DEF Sensible, Commits
  <2> HIDE DEF r, new
  <2>3. DirHeld(d, dir, FALSE, new, u)
    BY <2>1, <2>2 DEF DirHeld
  <2>. QED  BY <2>3 DEF new
<1>. QED  BY <1>1, <1>2

LEMMA DirRemoved ==
    ASSUME NEW s, NEW t, Sensible(s, t), s.op = "unapply", NEW d \in Disks,
           NEW dir, NEW to, NEW u, FilesMid(s, Listed(s), d, u, t),
           DirMid(s, Listed(s), d, dir, u), Applied(d) = Absent,
           to <=> (dir /\ ~(s.removesDir /\ NoneThere(d)))
    PROVE  DirHeld(d, to, FALSE, Absent, u)
<1>1. CASE Before(s) = Absent
  <2>1. ~s.removesDir
    BY <1>1, NothingToUndo DEF Sensible
  <2>2. DirHeld(d, dir, s.madeDir, Absent, u) /\ ~s.madeDir
    BY <1>1 DEF DirMid, FirstApply
  <2>. QED  BY <2>1, <2>2 DEF DirHeld
<1>2. CASE Before(s) # Absent
  <2>1. s.removesDir <=> Before(s).dirCreated
    BY <1>2, UnapplyPlan DEF Sensible, Before
  <2>2. Listed(s) # {}
    <3>1. s.plan["settings"] = Absent
      BY UnapplyPlan DEF Sensible
    <3>2. s.plan["settings"] # s.old["settings"]
      BY <1>2, <3>1 DEF Before, Applied
    <3>. QED  BY <3>2, ListedIsDiffering DEF Files
  <2>3. DirHeld(d, dir, s.madeDir, Before(s), u)
    BY <2>2 DEF DirMid, FirstApply
  <2>4. /\ CodexHeld(d["codex"], Before(s), u["codex"], t)
        /\ AgentsHeld(d["agents"], Before(s), u["agents"], t)
    <3>1. After(s) = Before(s)
      BY DEF After, Before
    <3>. QED  BY <2>2, <3>1 DEF FilesMid, UnderWay
  <2>5. ~Before(s).dirCreated => ~NoneThere(d)
    BY <1>2, <2>3, <2>4 DEF DirHeld, CodexHeld, AgentsHeld, AgentsRead, NoneThere
  <2>. QED  BY <1>2, <2>1, <2>3, <2>5 DEF DirHeld
<1>. QED  BY <1>1, <1>2

(* A commit begins.                                                        *)
Touches(s) == Owned \cap Listed(s) # {}
LEMMA Entered ==
    ASSUME NEW s, NEW t, Sensible(s, t), NEW d \in Disks, NEW dir \in BOOLEAN,
           NEW to \in BOOLEAN, NEW u, AtRest(d, dir, u, t),
           \A g \in Listed(s) : d[g] = s.old[g], ~s.unclean, s.pc # "dir",
           s.madeDir \in BOOLEAN, s.madeDir <=> (Touches(s) /\ ~dir),
           to <=> (dir \/ Touches(s))
    PROVE  MidOK(s, {}, d, to, u, t)
<1>1. Listed(s) \subseteq Files
  BY ListedIsDiffering
<1>2. FilesMid(s, {}, d, u, t)
  <2>1. \A g \in Listed(s) : Agree(g, d, s.old)
    BY DEF Agree, Applied
  <2>2. KeepsFiles(s, {}, d)
    BY DEF KeepsFiles
  <2>. QED  BY <2>1, <2>2 DEF FilesMid, AtRest, Sensible
<1>3. ASSUME "crashed" \notin t PROVE DirMid(s, {}, d, to, u)
  <2>1. DirHeld(d, dir, FALSE, Applied(d), u)
    BY <1>3 DEF AtRest
  <2>2. DirHeld(d, to, s.madeDir, Applied(d), u)
    BY <2>1 DEF DirHeld
  <2>3. ASSUME FirstApply(s)
        PROVE  /\ to /\ (s.madeDir <=> NoneThere(s.old))
               /\ u["dir"] => ~NoneThere(s.old)
    <3>1. Owned \subseteq Listed(s) /\ "settings" \in Listed(s)
      BY <2>3, FirstApplyLists
    <3>2. Touches(s)
      BY <3>1 DEF Touches, Owned
    <3>3. NoneThere(d) <=> NoneThere(s.old)
      BY <3>1 DEF NoneThere, Owned
    <3>4. Applied(d) = Absent
      BY <2>3, <3>1 DEF FirstApply, Before, Applied
    <3>. QED  BY <2>1, <3>2, <3>3, <3>4 DEF DirHeld
  <2>4. ASSUME s.op # "apply", Before(s) = Absent PROVE ~s.madeDir
    BY <2>4, OnlyApplyTouches DEF Touches
  <2>. QED  BY <2>2, <2>3, <2>4 DEF DirMid
<1>. QED  BY <1>2, <1>3 DEF MidOK

-----------------------------------------------------------------------------
(* The files beside the processes                                          *)

Quiet == \A p \in Procs : ~MidCommit(p)
Informed(s, t) ==
    /\ ReadWell(s, t)
    /\ s.pc \in {"planned", "checked", "stopped"} => ~s.madeDir /\ ~s.unclean
    /\ s.pc \in {"checked", "stopped", "tree", "dir"} => s.op = "unapply"

Aware(s, t) ==
    s.pc # "idle" => IF s.op = "preferences" THEN s.pc \in {"planned", "committed"}
                     ELSE Informed(s, t)
AllAware == \A p \in Procs : Aware(proc[p], taint)
OneAtATime == \A p, q \in Procs : MidCommit(p) /\ MidCommit(q) => p = q
RestHolds == Quiet => AtRest(disk, codexDir, user, taint)
MidHolds == \A p \in Procs : MidCommit(p) =>
                MidOK(proc[p], Written(proc[p]), disk, codexDir, user, taint)
Accounts == AllAware /\ OneAtATime /\ RestHolds /\ MidHolds
Sound == Accountable => Accounts

Mid == {"compare", "replace", "recheck", "restore", "cleanup", "tree", "dir"}
LEMMA MidIs == \A p : MidCommit(p) <=> proc[p].pc \in Mid
BY DEF MidCommit, Mid

LEMMA NoMoreTaint ==
    ASSUME taint \subseteq taint', Accountable'
    PROVE  Accountable
BY DEF Accountable

LEMMA InformedMoves ==
    ASSUME NEW r, NEW s, NEW t, NEW v, t \subseteq v, Alike(r, s), Informed(r, t),
           s.pc \in {"planned", "checked", "stopped"} => ~s.madeDir /\ ~s.unclean,
           s.pc \in {"checked", "stopped", "tree", "dir"} => s.op = "unapply"
    PROVE  Informed(s, v)
<1>1. /\ s.old = r.old /\ s.plan = r.plan /\ s.op = r.op /\ Before(s) = Before(r)
  BY DEF Alike, Before
<1>2. /\ CodexRead(s.old["codex"], Before(s), v)
      /\ AgentsRead(s.old["agents"], Before(s), v)
  BY <1>1, CodexLater, AgentsLater DEF Informed, ReadWell
<1>3. True(s.old, v)
  BY <1>1 DEF Informed, ReadWell, True
<1>4. /\ (s.op = "apply" /\ "overruled" \notin v) =>
             Before(s) = Absent \/ Limit(s.old["codex"]) = Before(s).limit
      /\ (s.op = "sync" /\ s.plan["agents"] # s.old["agents"]) => "drifted" \in v
      /\ (s.op = "apply" /\ "crashed" \notin v) =>
             (Applied(s.plan).dirCreated <=>
                IF Before(s) = Absent THEN NoneThere(s.old) ELSE Before(s).dirCreated)
  BY <1>1 DEF Informed, ReadWell
<1>. QED  BY <1>2, <1>3, <1>4 DEF Informed, ReadWell

LEMMA InformedStays ==
    ASSUME NEW r, NEW s, NEW t, NEW v, t \subseteq v, Stays(r, s), Informed(r, t)
    PROVE  Informed(s, v)
<1>1. Alike(r, s) /\ s.pc = r.pc /\ s.madeDir = r.madeDir /\ s.unclean = r.unclean
      /\ s.op = r.op
  BY DEF Stays, Alike
<1>2. s.pc \in {"planned", "checked", "stopped"} => ~s.madeDir /\ ~s.unclean
  BY <1>1 DEF Informed
<1>3. s.pc \in {"checked", "stopped", "tree", "dir"} => s.op = "unapply"
  BY <1>1 DEF Informed
<1>. QED  BY <1>1, <1>2, <1>3, InformedMoves

LEMMA WrittenStays ==
    ASSUME NEW r, NEW s, s.changes = r.changes, s.pc = r.pc, s.index = r.index
    PROVE  Written(s) = Written(r)
<1>1. \A n : Upto(s, n) = Upto(r, n)
  BY DEF Upto
<1>2. Listed(s) = Listed(r)
  BY <1>1 DEF Listed
<1>. QED  BY <1>1, <1>2 DEF Written

(* The others go on, or come to an end.                                    *)
OthersGoOn(p) ==
    \A q \in Procs : q # p => Stays(proc[q], proc'[q]) \/ proc'[q] = Idle
LEMMA OthersAware ==
    ASSUME Typing, AllAware, NEW p, OthersGoOn(p), taint \subseteq taint',
           p \in Procs => Aware(proc'[p], taint')
    PROVE  AllAware'
<1> SUFFICES ASSUME NEW q \in Procs
             PROVE  Aware(proc'[q], taint')
  BY DEF AllAware
<1>1. CASE q = p
  BY <1>1
<1>2. CASE q # p /\ proc'[q] = Idle
  BY <1>2 DEF Idle, Aware
<1>3. CASE q # p /\ proc'[q] # Idle
  <2>1. Stays(proc[q], proc'[q])
    BY <1>3 DEF OthersGoOn
  <2>2. proc'[q].pc = proc[q].pc /\ proc'[q].op = proc[q].op
    BY <2>1 DEF Stays, Alike
  <2>3. Aware(proc[q], taint)
    BY DEF AllAware
  <2>. QED  BY <2>1, <2>2, <2>3, InformedStays DEF Aware
<1>. QED  BY <1>1, <1>2, <1>3

(* What is known of a process in the middle of its commit.                 *)
LEMMA InCommit ==
    ASSUME Typing, Sound, Accountable, NEW p \in Procs, MidCommit(p)
    PROVE  LET r == proc[p] IN
           /\ Sensible(r, taint) /\ Informed(r, taint)
           /\ MidOK(r, Written(r), disk, codexDir, user, taint)
           /\ \A q \in Procs : q # p => ~MidCommit(q)
           /\ r.op = "unapply" => InTurn(r.changes)
           /\ r.madeDir \in BOOLEAN /\ ~r.unclean
           /\ Written(r) \subseteq Listed(r)
<1> DEFINE r == proc[p]
<1>1. MidOK(r, Written(r), disk, codexDir, user, taint)
      /\ \A q \in Procs : q # p => ~MidCommit(q)
  BY DEF Sound, Accounts, MidHolds, OneAtATime
<1>2. r.op \in Commits /\ ~r.unclean
  BY <1>1 DEF MidOK, FilesMid
<1>3. r.pc # "idle" /\ r.op # "preferences"
  BY <1>2 DEF MidCommit, Commits
<1>4. Informed(r, taint)
  BY <1>3 DEF Sound, Accounts, AllAware, Aware
<1>5. /\ r.old \in Disks /\ r.plan \in Disks /\ MadeFrom(r)
      /\ Lists(r.changes, Differing(r))
      /\ r.op = "unapply" => InTurn(r.changes)
      /\ r.index \in 0..Len(r.changes) /\ r \in Process
      /\ r.pc \in Turning => r.index > 0
  BY <1>3 DEF Typing, ProcOK, Planned, Placed
<1>6. Sensible(r, taint)
  BY <1>2, <1>4, <1>5 DEF Sensible, Informed
<1>7. r.madeDir \in BOOLEAN
  BY <1>5 DEF Process
<1>8. Written(r) \subseteq Listed(r)
  <2>1. Len(r.changes) \in Nat
    BY <1>5 DEF Lists
  <2>2. \A i \in 0..Len(r.changes) : Upto(r, i) \subseteq Listed(r)
    BY <1>5, UptoEnds DEF Differing
  <2>3. r.pc \in Turning => r.index - 1 \in 0..Len(r.changes)
    BY <1>5, <2>1
  <2>. QED  BY <1>5, <2>2, <2>3 DEF Written, Turning
<1>. QED  BY <1>1, <1>2, <1>4, <1>5, <1>6, <1>7, <1>8

(* A process moves while no other commits, or apart from the one that does. *)
LEMMA Alone ==
    ASSUME Typing, Sound, Accountable', taint \subseteq taint',
           NEW p \in Procs, OthersStay(p), \A q \in Procs : q # p => ~MidCommit(q),
           Aware(proc'[p], taint'),
           proc'[p].pc \in Mid => MidOK(proc'[p], Written(proc'[p]), disk', codexDir', user', taint'),
           proc'[p].pc \notin Mid => AtRest(disk', codexDir', user', taint')
    PROVE  Accounts'
<1>1. Accounts /\ OthersGoOn(p)
  BY NoMoreTaint DEF Sound, OthersStay, OthersGoOn
<1>2. AllAware'
  BY <1>1, OthersAware DEF Accounts
<1>3. \A q \in Procs : q # p => proc'[q].pc \notin Mid
  BY MidIs DEF OthersStay, Stays
<1>4. \A q \in Procs : MidCommit(q)' <=> proc'[q].pc \in Mid
  BY DEF MidCommit, Mid
<1>5. OneAtATime'
  BY <1>3, <1>4 DEF OneAtATime
<1>6. RestHolds'
  <2>1. Quiet' => proc'[p].pc \notin Mid
    BY <1>4 DEF Quiet
  <2>. QED  BY <2>1 DEF RestHolds
<1>7. MidHolds'
  <2> SUFFICES ASSUME NEW q \in Procs, MidCommit(q)'
               PROVE  MidOK(proc'[q], Written(proc'[q]), disk', codexDir', user', taint')
    BY DEF MidHolds
  <2>1. q = p /\ proc'[p].pc \in Mid
    BY <1>3, <1>4
  <2>. QED  BY <2>1
<1>. QED  BY <1>2, <1>5, <1>6, <1>7 DEF Accounts

LEMMA ApartGoesOn ==
    ASSUME Typing, Sound, Accountable', taint \subseteq taint', disk' \in Disks,
           NEW p, OthersGoOn(p), \A q \in Procs : q # p /\ MidCommit(q) => proc'[q] # Idle,
           p \in Procs => ~MidCommit(p) /\ proc'[p].pc \notin Mid,
           p \in Procs => Aware(proc'[p], taint'),
           Undisturbed(disk, user, taint, disk', user', taint'),
           DirUndisturbed(disk, codexDir, user, disk', codexDir', user')
    PROVE  Accounts'
<1>1. Accounts /\ Accountable
  BY NoMoreTaint DEF Sound
<1>2. AllAware'
  BY <1>1, OthersAware DEF Accounts
<1>3. \A q \in Procs : MidCommit(q)' <=> proc'[q].pc \in Mid
  BY DEF MidCommit, Mid
<1>4. \A q \in Procs : MidCommit(q)' <=> MidCommit(q)
  <2> TAKE q \in Procs
  <2>1. CASE q = p
    BY <1>3, <2>1
  <2>2. CASE q # p /\ proc'[q] = Idle
    BY <1>3, <2>2 DEF Idle, Mid
  <2>3. CASE q # p /\ proc'[q] # Idle
    BY <1>3, <2>3, MidIs DEF OthersGoOn, Stays
  <2>. QED  BY <2>1, <2>2, <2>3
<1>5. OneAtATime'
  BY <1>1, <1>4 DEF OneAtATime, Accounts
<1>6. RestHolds'
  <2> SUFFICES ASSUME Quiet' PROVE AtRest(disk', codexDir', user', taint')
    BY DEF RestHolds
  <2>1. AtRest(disk, codexDir, user, taint)
    BY <1>1, <1>4 DEF Quiet, Accounts, RestHolds
  <2>2. disk \in Disks
    BY DEF Typing
  <2>. QED  BY <2>1, <2>2, RestKept
<1>7. MidHolds'
  <2> SUFFICES ASSUME NEW q \in Procs, MidCommit(q)'
               PROVE  MidOK(proc'[q], Written(proc'[q]), disk', codexDir', user', taint')
    BY DEF MidHolds
  <2> DEFINE r == proc[q]
             s == proc'[q]
             W == Written(r)
  <2>1. MidCommit(q) /\ q # p
    BY <1>3, <1>4
  <2>2. Stays(r, s)
    BY <2>1 DEF OthersGoOn
  <2>3. /\ Sensible(r, taint) /\ MidOK(r, W, disk, codexDir, user, taint)
        /\ r.madeDir \in BOOLEAN /\ ~r.unclean /\ W \subseteq Listed(r)
    BY <1>1, <2>1, InCommit
  <2>4. Listed(r) \subseteq Files
    BY <2>3, ListedIsDiffering
  <2>5. /\ disk \in Disks /\ r.old \in Disks /\ r.plan \in Disks /\ W \in SUBSET Files
    BY <2>3, <2>4 DEF Typing, Sensible
  <2>6. /\ Alike(r, s) /\ s.madeDir = r.madeDir /\ s.unclean = r.unclean
        /\ s.pc = r.pc /\ s.index = r.index /\ s.changes = r.changes
    BY <2>2 DEF Stays, Alike
  <2>7. Written(s) = W
    BY <2>6, WrittenStays
  <2> HIDE DEF r, s, W
  <2>8. MidOK(s, W, disk', codexDir', user', taint')
    BY <2>3, <2>5, <2>6, MidKept
  <2>. QED  BY <2>7, <2>8 DEF s
<1>. QED  BY <1>2, <1>5, <1>6, <1>7 DEF Accounts

LEMMA Apart ==
    ASSUME Typing, Sound, Accountable', taint \subseteq taint', disk' \in Disks,
           NEW p, OthersStay(p), p \in Procs => ~MidCommit(p) /\ proc'[p].pc \notin Mid,
           p \in Procs => Aware(proc'[p], taint'),
           Undisturbed(disk, user, taint, disk', user', taint'),
           DirUndisturbed(disk, codexDir, user, disk', codexDir', user')
    PROVE  Accounts'
<1>1. OthersGoOn(p)
  BY DEF OthersStay, OthersGoOn
<1>2. \A q \in Procs : q # p /\ MidCommit(q) => proc'[q] # Idle
  BY MidIs DEF OthersStay, Stays, Idle, Mid
<1>. QED  BY <1>1, <1>2, ApartGoesOn

-----------------------------------------------------------------------------
(* Planning                                                                *)

LEMMA FilesStill ==
    ASSUME Typing, UNCHANGED <<disk, codexDir, user>>, taint \subseteq taint'
    PROVE  /\ Undisturbed(disk, user, taint, disk', user', taint')
           /\ DirUndisturbed(disk, codexDir, user, disk', codexDir', user')
           /\ disk' \in Disks
<1>1. disk \in Disks /\ disk' = disk /\ codexDir' = codexDir /\ user' = user
  BY DEF Typing
<1>2. /\ Undisturbed(disk, user, taint, disk, user, taint')
      /\ DirUndisturbed(disk, codexDir, user, disk, codexDir, user)
  BY <1>1, NothingChanges
<1>. QED  BY <1>1, <1>2

LEMMA PlannedAt ==
    ASSUME Accountable', DirtyRead \subseteq taint'
    PROVE  Quiet
BY DEF Accountable, DirtyRead, Quiet

(* What a plan has read while no commit was on its way.                    *)
LEMMA ReadAtRest ==
    ASSUME NEW d \in Disks, NEW dir \in BOOLEAN, NEW u, Plain(u), NEW t, NEW v,
           t \subseteq v, AtRest(d, dir, u, t)
    PROVE  /\ CodexRead(d["codex"], Applied(d), v)
           /\ AgentsRead(d["agents"], Applied(d), v)
           /\ True(d, v)
<1>1. d["codex"] \in MaybeCodex /\ Applied(d) \in MaybeRecord
  BY DiskKinds
<1>2. CodexRead(d["codex"], Applied(d), t)
  BY <1>1, CodexReadable DEF AtRest, Held, Plain
<1>3. AgentsRead(d["agents"], Applied(d), t)
  BY AgentsReadable DEF AtRest, Held
<1>4. True(d, v)
  BY DEF AtRest, True
<1>. QED  BY <1>2, <1>3, <1>4, CodexLater, AgentsLater

LEMMA StartInformed ==
    ASSUME Typing, Sound, Plain(user), Accountable', NEW p \in Procs,
           Apply(p) \/ Unapply(p) \/ SyncBinary(p) \/ SyncGuidance(p)
    PROVE  proc'[p].op # "preferences" /\ proc'[p].pc = "planned" /\ Informed(proc'[p], taint')
<1> DEFINE s == proc'[p]
<1>1. taint \subseteq taint' /\ DirtyRead \subseteq taint'
  BY DEF Apply, Unapply, SyncBinary, SyncGuidance
<1>2. Accountable /\ Quiet
  BY <1>1, NoMoreTaint, PlannedAt
<1>3. AtRest(disk, codexDir, user, taint)
  BY <1>2 DEF Sound, Accounts, RestHolds
<1>4. disk \in Disks /\ codexDir \in BOOLEAN
  BY DEF Typing
<1>5. /\ CodexRead(disk["codex"], Applied(disk), taint')
      /\ AgentsRead(disk["agents"], Applied(disk), taint')
      /\ True(disk, taint')
  BY <1>1, <1>3, <1>4, ReadAtRest
<1>6. CASE Apply(p)
  <2>1. PICK version \in Versions, tier \in Tiers :
           Starts(p, "apply", PlanApply(disk, codexDir, version, tier, "new"), FALSE)
    BY <1>6, Plans
  <2>2. /\ s.op = "apply" /\ s.old = disk /\ s.pc = "planned" /\ ~s.madeDir /\ ~s.unclean
        /\ s.plan = PlanApply(disk, codexDir, version, tier, "new")
        /\ Before(s) = Applied(disk)
    BY <2>1 DEF Starts, Before
  <2>3. "overruled" \notin taint' =>
             Applied(disk) = Absent \/ Limit(disk["codex"]) = Applied(disk).limit
    BY <1>6 DEF Apply, Limit
  <2>4. LET new == Applied(PlanApply(disk, codexDir, version, tier, "new"))
        IN  /\ Applied(disk) = Absent => (new.dirCreated <=> ~codexDir)
            /\ Applied(disk) # Absent => (new.dirCreated <=> (~codexDir \/ Applied(disk).dirCreated))
    BY <1>4, ApplyShape
  <2>5. ASSUME "crashed" \notin taint'
        PROVE  Applied(s.plan).dirCreated <=>
                  IF Applied(disk) = Absent THEN NoneThere(disk) ELSE Applied(disk).dirCreated
    <3>1. DirHeld(disk, codexDir, FALSE, Applied(disk), user)
      BY <1>1, <1>3, <2>5 DEF AtRest
    <3>2. CASE Applied(disk) = Absent
      BY <2>2, <2>4, <3>1, <3>2 DEF DirHeld
    <3>3. CASE Applied(disk) # Absent
      BY <2>2, <2>4, <3>1, <3>3 DEF DirHeld
    <3>. QED  BY <3>2, <3>3
  <2> HIDE DEF s
  <2>. QED  BY <1>5, <2>2, <2>3, <2>5 DEF Informed, ReadWell, s
<1>7. CASE Unapply(p)
  <2>1. Starts(p, "unapply", PlanUnapply(disk), Applied(disk) # Absent /\ Applied(disk).dirCreated)
    BY <1>7, Plans
  <2>2. /\ s.op = "unapply" /\ s.old = disk /\ s.pc = "planned" /\ ~s.madeDir /\ ~s.unclean
        /\ Before(s) = Applied(disk)
    BY <2>1 DEF Starts, Before
  <2> HIDE DEF s
  <2>. QED  BY <1>5, <2>2 DEF Informed, ReadWell, s
<1>8. CASE SyncBinary(p)
  <2>1. PICK version \in Versions : Starts(p, "sync", PlanSyncBinary(disk, version), FALSE)
    BY <1>8, Plans
  <2>2. /\ s.op = "sync" /\ s.old = disk /\ s.pc = "planned" /\ ~s.madeDir /\ ~s.unclean
        /\ s.plan = PlanSyncBinary(disk, version) /\ Before(s) = Applied(disk)
    BY <2>1 DEF Starts, Before
  <2>3. CanSyncBinary(disk)
    BY <1>8 DEF SyncBinary
  <2>4. LET plan == PlanSyncBinary(disk, version)
        IN  plan["agents"] = disk["agents"]
    BY <1>4, <2>3, SyncBinaryKinds
  <2> HIDE DEF s
  <2>. QED  BY <1>5, <2>2, <2>4 DEF Informed, ReadWell, s
<1>9. CASE SyncGuidance(p)
  <2>1. Starts(p, "sync", PlanSyncGuidance(disk), FALSE)
    BY <1>9, Plans
  <2>2. /\ s.op = "sync" /\ s.old = disk /\ s.pc = "planned" /\ ~s.madeDir /\ ~s.unclean
        /\ Before(s) = Applied(disk)
    BY <2>1 DEF Starts, Before
  <2>3. "drifted" \in taint'
    BY <1>9 DEF SyncGuidance
  <2> HIDE DEF s
  <2>. QED  BY <1>5, <2>2, <2>3 DEF Informed, ReadWell, s
<1>. QED  BY <1>6, <1>7, <1>8, <1>9

LEMMA StartAccounts ==
    ASSUME Typing, Sound, Plain(user), Accountable', NEW p \in Procs,
           Apply(p) \/ Unapply(p) \/ SyncBinary(p) \/ SyncGuidance(p) \/ OpenSettings(p)
    PROVE  Accounts'
<1>1. /\ proc[p].pc = "idle" /\ UNCHANGED <<disk, codexDir, user>> /\ taint \subseteq taint'
  BY Plans
<1>2. OthersStay(p) /\ proc'[p].pc = "planned"
  BY StartsOK
<1>3. Aware(proc'[p], taint')
  <2>1. CASE OpenSettings(p)
    <3>1. proc'[p].op = "preferences"
      BY <2>1, Plans DEF Starts
    <3>. QED  BY <1>2, <3>1 DEF Aware
  <2>2. CASE Apply(p) \/ Unapply(p) \/ SyncBinary(p) \/ SyncGuidance(p)
    BY <2>2, StartInformed DEF Aware
  <2>. QED  BY <2>1, <2>2
<1>4. ~MidCommit(p) /\ proc'[p].pc \notin Mid
  BY <1>1, <1>2 DEF MidCommit, Mid
<1>. QED  BY <1>1, <1>2, <1>3, <1>4, FilesStill, Apart
-----------------------------------------------------------------------------
(* Moves that leave the files alone                                        *)

(* The process commits neither before nor after.                           *)
LEMMA Outside ==
    ASSUME Typing, Sound, Accountable', taint \subseteq taint', NEW p \in Procs,
           UNCHANGED <<disk, codexDir, user>>, OthersStay(p),
           proc[p].pc \notin Mid \cup {"idle"}, proc'[p].pc \notin Mid,
           \/ proc'[p].pc = "idle"
           \/ /\ Alike(proc[p], proc'[p])
              /\ proc'[p].pc \in Ended \cup {"checked", "stopped"}
              /\ proc'[p].madeDir = proc[p].madeDir /\ proc'[p].unclean = proc[p].unclean
              /\ proc'[p].pc \in {"checked", "stopped"} =>
                    proc[p].op = "unapply" /\ proc[p].pc \in {"planned", "checked"}
              /\ proc[p].op = "preferences" => proc'[p].pc = "committed"
    PROVE  Accounts'
<1>1. Aware(proc'[p], taint')
  <2> DEFINE r == proc[p]
             s == proc'[p]
  <2>1. CASE s.pc = "idle"
    BY <2>1 DEF Aware
  <2>2. CASE s.pc # "idle" /\ r.op = "preferences"
    BY <2>2 DEF Aware, Alike
  <2>3. CASE s.pc # "idle" /\ r.op # "preferences"
    <3>1. Informed(r, taint)
      BY <2>3, NoMoreTaint DEF Sound, Accounts, AllAware, Aware
    <3>2. Alike(r, s) /\ s.pc \in Ended \cup {"checked", "stopped"} /\ s.op = r.op
      BY <2>3 DEF Alike
    <3>3. s.pc \in {"planned", "checked", "stopped"} => ~s.madeDir /\ ~s.unclean
      BY <2>3, <3>1, <3>2 DEF Informed, Ended
    <3>4. s.pc \in {"checked", "stopped", "tree", "dir"} => s.op = "unapply"
      BY <2>3, <3>2 DEF Ended
    <3>5. Informed(s, taint')
      BY <3>1, <3>2, <3>3, <3>4, InformedMoves
    <3>. QED  BY <2>3, <3>2, <3>5 DEF Aware
  <2>. QED  BY <2>1, <2>2, <2>3
<1>2. ~MidCommit(p)
  BY DEF MidCommit, Mid
<1>. QED  BY <1>1, <1>2, FilesStill, Apart

(* The process goes on with its commit, having written what it had.        *)
LEMMA CommitGoesOn ==
    ASSUME Typing, Sound, Accountable', taint \subseteq taint', NEW p \in Procs,
           UNCHANGED <<disk, codexDir, user>>, OthersStay(p), MidCommit(p),
           Alike(proc[p], proc'[p]), proc'[p].pc \in Mid \ {"tree", "dir"},
           proc'[p].madeDir = proc[p].madeDir, ~proc'[p].unclean,
           Written(proc'[p]) = Written(proc[p])
    PROVE  Accounts'
<1> DEFINE r == proc[p]
           s == proc'[p]
           W == Written(r)
<1>1. /\ Sensible(r, taint) /\ Informed(r, taint)
      /\ MidOK(r, W, disk, codexDir, user, taint)
      /\ \A q \in Procs : q # p => ~MidCommit(q)
      /\ r.madeDir \in BOOLEAN /\ W \subseteq Listed(r)
  BY NoMoreTaint, InCommit
<1>2. Listed(r) \subseteq Files
  BY <1>1, ListedIsDiffering
<1>3. disk \in Disks /\ W \in SUBSET Files /\ r.old \in Disks /\ r.plan \in Disks
  BY <1>1, <1>2 DEF Typing, Sensible
<1>4. /\ Undisturbed(disk, user, taint, disk', user', taint')
      /\ DirUndisturbed(disk, codexDir, user, disk', codexDir', user') /\ disk' \in Disks
  BY FilesStill
<1>5. s.op # "preferences" /\ s.op = r.op
  BY <1>1 DEF Sensible, Commits, Alike
<1>6. Informed(s, taint')
  BY <1>1, InformedMoves DEF Mid
<1>7. Aware(s, taint')
  BY <1>5, <1>6 DEF Aware
<1>8. s.pc # "dir" /\ s.pc \in Mid
  OBVIOUS
<1>9. Alike(r, s) /\ s.madeDir = r.madeDir /\ ~s.unclean /\ Written(s) = W
  OBVIOUS
<1> HIDE DEF r, s, W
<1>10. MidOK(s, W, disk', codexDir', user', taint')
  BY <1>1, <1>3, <1>4, <1>8, <1>9, MidKept
<1>. QED  BY <1>1, <1>7, <1>8, <1>9, <1>10, Alone DEF s

-----------------------------------------------------------------------------
(* The steps of a commit                                                   *)

LEMMA WrittenMoves ==
    ASSUME NEW r, NEW s, NEW n \in Nat, Alike(r, s), r.index = n
    PROVE  /\ \A i : Upto(s, i) = Upto(r, i)
           /\ Listed(s) = Listed(r)
           /\ (s.pc \in {"recheck", "restore"} /\ s.index = n) => Written(s) = Upto(r, n)
           /\ (s.pc = "replace" /\ s.index = n) => Written(s) = Upto(r, n - 1)
           /\ (s.pc = "compare" /\ s.index = n + 1) => Written(s) = Upto(r, n)
           /\ (s.pc = (IF n = 1 THEN "cleanup" ELSE "recheck") /\ s.index = n - 1)
                 => Written(s) = Upto(r, n - 1)
           /\ s.pc \in {"tree", "dir"} => Written(s) = Listed(r)
<1>1. \A i : Upto(s, i) = Upto(r, i)
  BY DEF Upto, Alike
<1>2. Listed(s) = Listed(r)
  BY <1>1 DEF Listed, Alike
<1>3. Upto(s, 0) = {}
  BY DEF Upto
<1>4. s.index = n + 1 => s.index - 1 = n
  OBVIOUS
<1>5. n = 1 => n - 1 = 0
  OBVIOUS
<1>. QED  BY <1>1, <1>2, <1>3, <1>4, <1>5 DEF Written

LEMMA TurnAccounts ==
    ASSUME Typing, Sound, Accountable', NEW p \in Procs,
           Compare(p) \/ ReplaceFails(p) \/ Recheck(p)
    PROVE  Accounts'
<1> DEFINE r == proc[p]
           s == proc'[p]
<1>1. UNCHANGED <<disk, codexDir, user>> /\ taint \subseteq taint' /\ r.pc \in Turning
  BY CompareEffect, RecheckEffect DEF Compare, ReplaceFails, Recheck, Turning
<1>2. r.index \in Nat /\ MidCommit(p)
  BY <1>1, Within DEF MidCommit, Turning
<1>3. Accountable /\ ~r.unclean
  BY <1>1, <1>2, NoMoreTaint, InCommit
<1>4. /\ OthersStay(p) /\ Alike(r, s) /\ s.madeDir = r.madeDir /\ s.unclean = r.unclean
      /\ \/ /\ r.pc = "compare" /\ s.pc = "replace" /\ s.index = r.index
         \/ /\ r.pc \in {"compare", "replace"}
            /\ s.pc = (IF r.index = 1 THEN "cleanup" ELSE "recheck") /\ s.index = r.index - 1
         \/ /\ r.pc = "recheck" /\ s.pc = "restore" /\ s.index = r.index
  <2>1. CASE Compare(p)
    BY <2>1, CompareEffect DEF Becomes
  <2>2. CASE ReplaceFails(p)
    <3>1. r.pc = "replace" /\ proc' = RollBack(p, proc)
      BY <2>2 DEF ReplaceFails
    <3>. QED  BY <1>1, <3>1, RollBackEffect DEF Becomes
  <2>3. CASE Recheck(p)
    <3>1. "torn" \notin taint'
      BY DEF Accountable
    <3>. QED  BY <2>3, <3>1, RecheckEffect DEF Becomes
  <2>. QED  BY <2>1, <2>2, <2>3
<1>5. Written(s) = Written(r)
  <2>1. r.pc \in {"compare", "replace"} => Written(r) = Upto(r, r.index - 1)
    BY DEF Written
  <2>2. r.pc = "recheck" => Written(r) = Upto(r, r.index)
    BY DEF Written
  <2>3. r.index \in Nat /\ Alike(r, s)
    BY <1>2, <1>4
  <2> HIDE DEF r, s
  <2>4. CASE r.pc = "compare" /\ s.pc = "replace" /\ s.index = r.index
    BY <2>1, <2>3, <2>4, WrittenMoves
  <2>5. CASE /\ r.pc \in {"compare", "replace"}
             /\ s.pc = (IF r.index = 1 THEN "cleanup" ELSE "recheck") /\ s.index = r.index - 1
    BY <2>1, <2>3, <2>5, WrittenMoves
  <2>6. CASE r.pc = "recheck" /\ s.pc = "restore" /\ s.index = r.index
    BY <2>2, <2>3, <2>6, WrittenMoves
  <2>. QED  BY <1>4, <2>4, <2>5, <2>6
<1>6. s.pc \in Mid \ {"tree", "dir"}
  BY <1>4 DEF Mid
<1>. QED  BY <1>1, <1>2, <1>3, <1>4, <1>5, <1>6, CommitGoesOn

LEMMA SensibleMoves ==
    ASSUME NEW r, NEW s, NEW t, NEW v, Alike(r, s), Sensible(r, t), ReadWell(s, v)
    PROVE  Sensible(s, v)
<1>1. s.old = r.old /\ s.plan = r.plan /\ s.op = r.op /\ s.changes = r.changes
  BY DEF Alike
<1>2. MadeFrom(s)
  BY DEF Alike, Sensible, MadeFrom
<1>3. Differing(s) = Differing(r)
  BY <1>1 DEF Differing
<1>. QED  BY <1>1, <1>2, <1>3 DEF Sensible

LEMMA CommitAccounts ==
    ASSUME Typing, Sound, Accountable', NEW p \in Procs, Commit(p) \/ UnapplyCommit(p)
    PROVE  Accounts'
<1> DEFINE r == proc[p]
           s == proc'[p]
<1>1. CommitStart(p) /\ r.pc \in {"planned", "stopped"}
  BY DEF Commit, UnapplyCommit
<1>2. Accountable /\ taint \subseteq taint'
  BY <1>1, CommitStartEffect, NoMoreTaint
<1>3. Informed(r, taint) /\ r.op \in Commits /\ ~r.madeDir /\ ~r.unclean
  <2>1. Aware(r, taint)
    BY <1>2 DEF Sound, Accounts, AllAware
  <2>2. r.op # "preferences"
    BY <1>1, <2>1 DEF Commit, UnapplyCommit, Aware, Op
  <2>3. Informed(r, taint)
    BY <1>1, <2>1, <2>2 DEF Aware
  <2>4. r.op \in Commits
    BY <2>3 DEF Commit, UnapplyCommit, Informed, Op, Commits
  <2>. QED  BY <1>1, <2>3, <2>4 DEF Informed
<1>4. /\ r.old \in Disks /\ r.plan \in Disks /\ MadeFrom(r)
      /\ Lists(r.changes, Differing(r)) /\ r \in Process
  BY <1>1 DEF Typing, ProcOK, Planned
<1>5. Sensible(r, taint)
  BY <1>3, <1>4 DEF Sensible, Informed
<1>6. r.index \in Nat /\ Len(r.changes) \in Nat /\ r.changes \in Seq(Files)
  BY <1>4 DEF Process, Lists
<1>7. /\ OthersStay(p) /\ Alike(r, s) /\ UNCHANGED <<disk, user>>
      /\ ~s.unclean /\ s.unclean = r.unclean
      /\ \/ /\ r.changes = <<>> /\ codexDir' = codexDir /\ s.madeDir = r.madeDir
            /\ r.op = "unapply" /\ s.pc = "tree"
         \/ /\ codexDir' = codexDir /\ s.madeDir = r.madeDir
            /\ s.pc \in {"committed", "refused"}
         \/ /\ Intact(p) /\ codexDir' = (codexDir \/ TouchesCodexDir(p))
            /\ s.pc = "compare" /\ s.index = 1
            /\ s.madeDir = (TouchesCodexDir(p) /\ ~codexDir)
  BY <1>1, <1>3, CommitStartEffect DEF Becomes
<1>8. CASE s.pc \in {"committed", "refused"}
  <2>1. /\ UNCHANGED <<disk, codexDir, user>> /\ s.madeDir = r.madeDir
    BY <1>7, <1>8
  <2>2. s.pc \in Ended /\ s.pc \notin Mid /\ s.pc \notin {"checked", "stopped"}
        /\ r.pc \notin Mid \cup {"idle"} /\ r.op # "preferences"
    BY <1>1, <1>3, <1>8 DEF Ended, Mid, Commits
  <2>. QED  BY <1>2, <1>7, <2>1, <2>2, Outside
<1>9. CASE s.pc \in {"compare", "tree"}
  <2>1. \A q \in Procs : q # p => ~MidCommit(q)
    <3>1. "overlapped" \notin taint'
      BY DEF Accountable
    <3>. QED  BY <1>1, <1>9, <3>1, CommitStartEffect
  <2>2. Quiet
    BY <1>1, <2>1, MidIs DEF Quiet, Mid
  <2>3. AtRest(disk, codexDir, user, taint)
    BY <1>2, <2>2 DEF Sound, Accounts, RestHolds
  <2>4. AtRest(disk, codexDir, user, taint')
    <3>1. disk \in Disks
      BY DEF Typing
    <3>2. /\ Undisturbed(disk, user, taint, disk, user, taint')
          /\ DirUndisturbed(disk, codexDir, user, disk, codexDir, user)
      BY <1>2, <3>1, NothingChanges
    <3>. QED  BY <2>3, <3>1, <3>2, RestKept
  <2>5. Informed(s, taint')
    <3>1. s.pc \in {"checked", "stopped", "tree", "dir"} => s.op = "unapply"
      BY <1>7, <1>9 DEF Alike
    <3>. QED  BY <1>2, <1>3, <1>7, <1>9, <3>1, InformedMoves
  <2>6. Sensible(s, taint')
    BY <1>5, <1>7, <2>5, SensibleMoves DEF Informed
  <2>7. Listed(s) = Listed(r)
    BY <1>6, <1>7, WrittenMoves
  <2>8. TouchesCodexDir(p) <=> Touches(s)
    <3>1. DOMAIN r.changes = 1..Len(r.changes)
      BY <1>6
    <3>2. Listed(r) = {r.changes[i] : i \in 1..Len(r.changes)}
      BY DEF Listed, Upto
    <3>. QED  BY <2>7, <3>1, <3>2 DEF TouchesCodexDir, Touches
  <2>9. /\ \A g \in Listed(s) : disk[g] = s.old[g]
        /\ s.madeDir <=> (Touches(s) /\ ~codexDir)
        /\ codexDir' <=> (codexDir \/ Touches(s))
        /\ Written(s) = {}
        /\ s.madeDir \in BOOLEAN /\ codexDir \in BOOLEAN /\ codexDir' \in BOOLEAN
    <3>0. codexDir \in BOOLEAN /\ TouchesCodexDir(p) \in BOOLEAN /\ r.madeDir \in BOOLEAN
      BY <1>4 DEF Typing, TouchesCodexDir, Process
    <3>1. CASE s.pc = "tree"
      <4>1. Listed(s) = {}
        <5>1. r.changes = <<>> /\ Len(r.changes) = 0
          BY <1>7, <3>1
        <5>2. Listed(r) = {r.changes[i] : i \in 1..0}
          BY <5>1 DEF Listed, Upto
        <5>. QED  BY <2>7, <5>2
      <4>2. ~Touches(s) /\ Written(s) = {}
        BY <3>1, <4>1 DEF Touches, Written
      <4>. QED  BY <1>3, <1>7, <3>0, <3>1, <4>1, <4>2
    <3>2. CASE s.pc = "compare"
      <4>1. \A g \in Listed(s) : disk[g] = s.old[g]
        BY <1>6, <1>7, <2>7, <3>2 DEF Intact, Listed, Upto, Alike
      <4>2. Written(s) = {}
        <5>1. s.index - 1 = 0
          BY <1>7, <3>2
        <5>2. Upto(s, 0) = {}
          BY DEF Upto
        <5>. QED  BY <3>2, <5>1, <5>2 DEF Written
      <4>. QED  BY <1>7, <2>8, <3>0, <3>2, <4>1, <4>2
    <3>. QED  BY <1>9, <3>1, <3>2
  <2>10. s.pc # "dir" /\ s.pc \in Mid /\ disk \in Disks /\ disk' = disk /\ user' = user
    BY <1>7, <1>9 DEF Mid, Typing
  <2>11. ~s.unclean /\ s.op # "preferences"
    BY <1>3, <1>7 DEF Alike, Commits
  <2> HIDE DEF s, r
  <2>12. MidOK(s, {}, disk, codexDir', user, taint')
    BY <2>4, <2>6, <2>9, <2>10, <2>11, Entered
  <2>13. Aware(s, taint')
    BY <2>5, <2>11 DEF Aware
  <2>. QED  BY <1>2, <1>7, <2>1, <2>9, <2>10, <2>12, <2>13, Alone DEF s
<1>. QED  BY <1>7, <1>8, <1>9

-----------------------------------------------------------------------------
(* The renames of a commit                                                 *)

LEMMA Unstained ==
    ASSUME NEW p \in Procs, NEW f, Accountable',
           taint' = taint \cup Overlooked(p, f) \cup Unnoticed(p)
    PROVE  taint' = taint /\ Unnoticed(p) = {}
<1>1. "raced" \notin taint' /\ "dirty" \notin taint'
  BY DEF Accountable
<1>2. Overlooked(p, f) = {} \/ Overlooked(p, f) = {"raced"}
  BY DEF Overlooked
<1>3. Unnoticed(p) = {} \/ Unnoticed(p) = {"dirty"}
  BY DEF Unnoticed
<1>. QED  BY <1>1, <1>2, <1>3

(* The files that the commit has no reason to compare are as it read them. *)
LEMMA NoticedAll ==
    ASSUME NEW p \in Procs, Unnoticed(p) = {}, proc[p].changes \in Seq(Files)
    PROVE  \A g \in Files \ Listed(proc[p]) : Agree(g, disk, proc[p].old)
<1> DEFINE R == Range(proc[p].changes)
           others(d) == [f \in Files |-> IF f \in R THEN Absent ELSE d[f]]
           d1 == others(disk)
           d2 == others(proc[p].old)
<1>1. Managed(d1) = Managed(d2)
  BY DEF Unnoticed
<1>2. R = Listed(proc[p])
  <2>1. DOMAIN proc[p].changes = 1..Len(proc[p].changes)
    OBVIOUS
  <2>. QED  BY <2>1 DEF Range, Listed, Upto
<1>3. \A g \in Files \ R : d1[g] = disk[g] /\ d2[g] = proc[p].old[g]
  OBVIOUS
<1> HIDE DEF d1, d2, R
<1>4. \A g \in Files : Agree(g, d1, d2)
  BY <1>1 DEF Managed, Agree, Server, Section
<1> SUFFICES ASSUME NEW g \in Files \ R PROVE Agree(g, disk, proc[p].old)
  BY <1>2
<1>5. Agree(g, d1, d2) /\ d1[g] = disk[g] /\ d2[g] = proc[p].old[g]
  BY <1>3, <1>4
<1>. QED  BY <1>5 DEF Agree, Applied

LEMMA ReplaceAccounts ==
    ASSUME Typing, Sound, Plain(user), Windows, TextKept, Accountable',
           NEW p \in Procs, Replace(p)
    PROVE  Accounts'
<1> DEFINE r == proc[p]
           s == proc'[p]
           f == Current(p)
           i == r.index
           last == i = Len(r.changes)
           W == Upto(r, i - 1)
           V == Upto(r, i)
<1>1. /\ r.pc = "replace" /\ Write(p, r.plan[f]) /\ user' = user
      /\ Becomes(p, IF ~last THEN "compare"
                    ELSE IF r.op = "unapply" THEN "tree" ELSE "committed",
                 IF last THEN i ELSE i + 1, r.madeDir, r.unclean, r.carries \cup {f})
  BY ReplaceEffect
<1>2. /\ OthersStay(p) /\ Alike(r, s)
      /\ s.pc = (IF ~last THEN "compare" ELSE IF r.op = "unapply" THEN "tree" ELSE "committed")
      /\ s.index = (IF last THEN i ELSE i + 1) /\ s.madeDir = r.madeDir
      /\ s.unclean = r.unclean
  BY <1>1 DEF Becomes
<1>3. r.plan \in Disks /\ r.old \in Disks /\ MidCommit(p) /\ r.pc \in Turning
  BY <1>1, PlansAreDisks DEF MidCommit, Turning
<1>4. /\ f \in Files /\ disk' \in Disks /\ codexDir' \in BOOLEAN
      /\ disk'[f] = r.plan[f] /\ \A g \in Files : g # f => disk'[g] = disk[g]
      /\ codexDir' = (codexDir \/ (f \in Owned /\ r.plan[f] # Absent))
      /\ taint' = taint \cup Overlooked(p, f) \cup Unnoticed(p)
  BY <1>1, <1>3, WriteEffect
<1>5. taint' = taint /\ Unnoticed(p) = {} /\ Accountable
  BY <1>4, Unstained DEF Accountable
<1>6. /\ Sensible(r, taint) /\ Informed(r, taint)
      /\ MidOK(r, Written(r), disk, codexDir, user, taint)
      /\ \A q \in Procs : q # p => ~MidCommit(q)
      /\ r.madeDir \in BOOLEAN /\ ~r.unclean
  BY <1>3, <1>5, InCommit
<1>7. Written(r) = W /\ f = r.changes[i] /\ i \in 1..Len(r.changes) /\ i \in Nat
      /\ Len(r.changes) \in Nat
  BY <1>1, <1>3, Within DEF Written, Current
<1>8. Lists(r.changes, Differing(r)) /\ r.changes \in Seq(Files)
  BY <1>6 DEF Sensible, Lists
<1>9. /\ f \notin W /\ f \in Listed(r) /\ V = W \cup {f}
  <2>1. /\ r.changes[i] \notin Upto(r, i - 1) /\ r.changes[i] \in Listed(r)
        /\ Upto(r, i) = Upto(r, i - 1) \cup {r.changes[i]}
    BY <1>7, <1>8, UptoGrows
  <2>. QED  BY <1>7, <2>1
<1>10. /\ Listed(r) \subseteq Files /\ V \subseteq Listed(r) /\ W \subseteq Listed(r)
  <2>1. Differing(r) \subseteq Files
    BY DEF Differing
  <2>2. i \in 0..Len(r.changes) /\ i - 1 \in 0..Len(r.changes)
    BY <1>7
  <2>. QED  BY <1>6, <1>8, <2>1, <2>2, UptoEnds, ListedIsDiffering
<1>11. disk[f] = r.old[f]
  BY <1>1, <1>5 DEF Windows, WindowHolds, Accountable
<1>12. SameText(disk, user) /\ disk \in Disks /\ codexDir \in BOOLEAN
  BY <1>5 DEF TextKept, SameText, Accountable, Typing
<1>13. FilesMid(r, W, disk, user, taint)
  BY <1>6, <1>7 DEF MidOK
<1>14. \A g \in Files \ Listed(r) : Agree(g, disk, r.old)
  BY <1>5, <1>8, NoticedAll
<1> HIDE DEF W, V, f, i, r, s, last
<1>15. W \in SUBSET Files /\ V \in SUBSET Files
  BY <1>10
<1>16. UnderWay(r, W, disk, user, taint)
  BY <1>13, <1>14, <1>15, Enters
<1>17. UnderWay(r, V, disk', user, taint)
  BY <1>4, <1>6, <1>9, <1>11, <1>12, <1>15, <1>16, OneMore
<1>18. KeepsFiles(r, V, disk')
  <2>1. KeepsFiles(r, W, disk)
    BY <1>13 DEF FilesMid
  <2>. QED  BY <1>4, <1>9, <1>10, <2>1 DEF KeepsFiles
<1>19. True(r.old, taint) /\ r.op \in Commits
  BY <1>6 DEF Informed, ReadWell, Sensible
<1>20. FilesMid(r, V, disk', user, taint)
  BY <1>1, <1>6, <1>10, <1>15, <1>17, <1>18, <1>19, Leaves DEF r
<1>21. V # {}
  BY <1>9
<1>22. ASSUME "crashed" \notin taint PROVE DirMid(r, V, disk', codexDir', user)
  <2>1. DirMid(r, W, disk, codexDir, user)
    BY <1>6, <1>7, <1>22 DEF MidOK
  <2>2. W = {} => Applied(disk) = Before(r)
    BY <1>16, AllAgree DEF UnderWay, Before
  <2>3. codexDir' <=> (codexDir \/ (f \in Owned /\ disk'[f] # Absent))
    BY <1>4
  <2>5. /\ disk' \in Disks /\ codexDir' \in BOOLEAN
        /\ \A g \in Files : g # f => disk'[g] = disk[g]
    BY <1>4
  <2>6. disk \in Disks /\ codexDir \in BOOLEAN /\ f \in Listed(r) /\ Sensible(r, taint)
    BY <1>6, <1>9, <1>12
  <2>. QED  BY <1>15, <1>18, <1>21, <2>1, <2>2, <2>3, <2>5, <2>6, DirWritten
<1>23. MidOK(r, V, disk', codexDir', user, taint)
  BY <1>20, <1>22 DEF MidOK
<1>24. CASE s.pc \in {"compare", "tree"}
  <2>1. Written(s) = V /\ s.pc # "dir" /\ s.pc \in Mid
    <3>1. CASE s.pc = "compare"
      <4>1. s.index = i + 1 /\ r.index = i
        BY <1>2, <3>1 DEF i
      <4>. QED  BY <1>2, <1>7, <3>1, <4>1, WrittenMoves DEF Mid, V
    <3>2. CASE s.pc = "tree"
      <4>1. last
        BY <1>2, <3>2
      <4>2. Listed(r) = V
        BY <4>1 DEF last, V, Listed
      <4>. QED  BY <1>2, <1>7, <3>2, <4>2, WrittenMoves DEF Mid, i
    <3>. QED  BY <1>24, <3>1, <3>2
  <2>2. /\ Undisturbed(disk', user, taint, disk', user, taint)
        /\ DirUndisturbed(disk', codexDir', user, disk', codexDir', user)
    BY <1>4, NothingChanges
  <2>3. Informed(s, taint)
    <3>1. s.pc \in {"checked", "stopped", "tree", "dir"} => s.op = "unapply"
      BY <1>2, <1>24 DEF Alike
    <3>2. s.pc \notin {"planned", "checked", "stopped"}
      BY <1>24
    <3>. QED  BY <1>2, <1>6, <3>1, <3>2, InformedMoves
  <2>4. Aware(s, taint)
    <3>1. s.op # "preferences"
      BY <1>2, <1>19 DEF Alike, Commits
    <3>. QED  BY <2>3, <3>1 DEF Aware
  <2>5. r.old \in Disks /\ r.plan \in Disks /\ ~s.unclean /\ s.madeDir = r.madeDir /\ s.madeDir \in BOOLEAN
    BY <1>2, <1>3, <1>6
  <2>6. MidOK(s, V, disk', codexDir', user, taint)
    BY <1>2, <1>4, <1>15, <1>23, <2>1, <2>2, <2>5, MidKept
  <2>. QED  BY <1>1, <1>2, <1>5, <1>6, <2>1, <2>4, <2>6, Alone DEF s
<1>25. CASE s.pc = "committed"
  <2>1. last /\ r.op # "unapply"
    BY <1>2, <1>25
  <2>2. V = Listed(r)
    BY <2>1 DEF V, last, Listed
  <2>3. /\ Held(disk', Applied(disk'), user, taint) /\ True(disk', taint)
        /\ Applied(disk') = Applied(r.plan)
    BY <1>4, <1>6, <1>17, <2>1, <2>2, Completed
  <2>4. ASSUME "crashed" \notin taint
        PROVE  DirHeld(disk', codexDir', FALSE, Applied(disk'), user)
    BY <1>6, <1>21, <1>22, <2>1, <2>3, <2>4, DirCompleted
  <2>5. AtRest(disk', codexDir', user, taint)
    BY <2>3, <2>4 DEF AtRest
  <2>6. Informed(s, taint)
    BY <1>2, <1>6, <1>25, InformedMoves
  <2>7. Aware(s, taint)
    BY <1>25, <2>6 DEF Aware
  <2>8. s.pc \notin Mid
    BY <1>25 DEF Mid
  <2>. QED  BY <1>1, <1>2, <1>5, <1>6, <2>5, <2>7, <2>8, Alone DEF s
<1>. QED  BY <1>2, <1>24, <1>25

LEMMA RestoreAccounts ==
    ASSUME Typing, Sound, Plain(user), Windows, TextKept, Accountable',
           NEW p \in Procs, Restore(p)
    PROVE  Accounts'
<1> DEFINE r == proc[p]
           s == proc'[p]
           f == Current(p)
           i == r.index
           W == Upto(r, i)
           V == Upto(r, i - 1)
<1>1. /\ r.pc = "restore" /\ Write(p, r.old[f]) /\ user' = user
      /\ Becomes(p, IF i = 1 THEN "cleanup" ELSE "recheck", i - 1,
                 r.madeDir, r.unclean, r.carries \ {f})
  BY RestoreEffect
<1>2. /\ OthersStay(p) /\ Alike(r, s)
      /\ s.pc = (IF i = 1 THEN "cleanup" ELSE "recheck")
      /\ s.index = i - 1 /\ s.madeDir = r.madeDir
      /\ s.unclean = r.unclean
  BY <1>1 DEF Becomes
<1>3. r.plan \in Disks /\ r.old \in Disks /\ MidCommit(p) /\ r.pc \in Turning
  BY <1>1, PlansAreDisks DEF MidCommit, Turning
<1>4. /\ f \in Files /\ disk' \in Disks /\ codexDir' \in BOOLEAN
      /\ disk'[f] = r.old[f] /\ \A g \in Files : g # f => disk'[g] = disk[g]
      /\ codexDir' = (codexDir \/ (f \in Owned /\ r.old[f] # Absent))
      /\ taint' = taint \cup Overlooked(p, f) \cup Unnoticed(p)
  BY <1>1, <1>3, WriteEffect
<1>5. taint' = taint /\ Accountable
  BY <1>4, Unstained DEF Accountable
<1>6. /\ Sensible(r, taint) /\ Informed(r, taint)
      /\ MidOK(r, Written(r), disk, codexDir, user, taint)
      /\ \A q \in Procs : q # p => ~MidCommit(q)
      /\ r.madeDir \in BOOLEAN /\ ~r.unclean
  BY <1>3, <1>5, InCommit
<1>7. Written(r) = W /\ f = r.changes[i] /\ i \in 1..Len(r.changes) /\ i \in Nat
      /\ Len(r.changes) \in Nat
  BY <1>1, <1>3, Within DEF Written, Current
<1>8. Lists(r.changes, Differing(r)) /\ r.changes \in Seq(Files)
  BY <1>6 DEF Sensible, Lists
<1>9. /\ f \in W /\ f \in Listed(r) /\ V = W \ {f}
  <2>1. /\ r.changes[i] \in Listed(r)
        /\ Upto(r, i) = Upto(r, i - 1) \cup {r.changes[i]}
        /\ Upto(r, i - 1) = Upto(r, i) \ {r.changes[i]}
    BY <1>7, <1>8, UptoGrows
  <2>. QED  BY <1>7, <2>1
<1>10. /\ Listed(r) \subseteq Files /\ V \subseteq Listed(r) /\ W \subseteq Listed(r)
  <2>1. Differing(r) \subseteq Files
    BY DEF Differing
  <2>2. i \in 0..Len(r.changes) /\ i - 1 \in 0..Len(r.changes)
    BY <1>7
  <2>. QED  BY <1>6, <1>8, <2>1, <2>2, UptoEnds, ListedIsDiffering
<1>11. disk[f] = r.plan[f]
  BY <1>1, <1>5 DEF Windows, WindowHolds, Accountable
<1>12. SameText(disk, user) /\ disk \in Disks /\ codexDir \in BOOLEAN
  BY <1>5 DEF TextKept, SameText, Accountable, Typing
<1>13. FilesMid(r, W, disk, user, taint)
  BY <1>6, <1>7 DEF MidOK
<1> HIDE DEF W, V, f, i, r, s
<1>15. W \in SUBSET Files /\ V \in SUBSET Files
  BY <1>10
<1>16. UnderWay(r, W, disk, user, taint)
  BY <1>9, <1>13 DEF FilesMid
<1>17. UnderWay(r, V, disk', user, taint)
  BY <1>4, <1>6, <1>9, <1>11, <1>12, <1>15, <1>16, OneLess
<1>18. KeepsFiles(r, V, disk')
  <2>1. KeepsFiles(r, W, disk)
    BY <1>13 DEF FilesMid
  <2>. QED  BY <1>4, <1>9, <1>10, <2>1 DEF KeepsFiles
<1>19. True(r.old, taint) /\ r.op \in Commits
  BY <1>6 DEF Informed, ReadWell, Sensible
<1>20. FilesMid(r, V, disk', user, taint)
  BY <1>1, <1>6, <1>10, <1>15, <1>17, <1>18, <1>19, Leaves DEF r
<1>22. ASSUME "crashed" \notin taint PROVE DirMid(r, V, disk', codexDir', user)
  <2>1. DirMid(r, W, disk, codexDir, user)
    BY <1>6, <1>7, <1>22 DEF MidOK
  <2>2. V = {} => Applied(disk') = Before(r)
    BY <1>17, AllAgree DEF UnderWay, Before
  <2>3. codexDir' <=> (codexDir \/ (f \in Owned /\ disk'[f] # Absent))
    BY <1>4
  <2>4. W # {}
    BY <1>9
  <2>5. /\ disk' \in Disks /\ codexDir' \in BOOLEAN
        /\ \A g \in Files : g # f => disk'[g] = disk[g]
    BY <1>4
  <2>6. disk \in Disks /\ codexDir \in BOOLEAN /\ f \in Listed(r) /\ Sensible(r, taint)
    BY <1>6, <1>9, <1>12
  <2>. QED  BY <1>15, <1>18, <2>1, <2>2, <2>3, <2>4, <2>5, <2>6, DirWritten
<1>23. MidOK(r, V, disk', codexDir', user, taint)
  BY <1>20, <1>22 DEF MidOK
<1>24. Written(s) = V /\ s.pc # "dir" /\ s.pc \in Mid
  <2>1. Written(s) = V
    BY <1>2, <1>7, WrittenMoves DEF V, i
  <2>. QED  BY <1>2, <2>1 DEF Mid
<1>25. /\ Undisturbed(disk', user, taint, disk', user, taint)
       /\ DirUndisturbed(disk', codexDir', user, disk', codexDir', user)
  BY <1>4, NothingChanges
<1>26. Informed(s, taint)
  <2>1. s.pc \notin {"planned", "checked", "stopped", "tree", "dir"}
    BY <1>2
  <2>. QED  BY <1>2, <1>6, <2>1, InformedMoves
<1>27. Aware(s, taint)
  <2>1. s.op # "preferences"
    BY <1>2, <1>19 DEF Alike, Commits
  <2>. QED  BY <1>26, <2>1 DEF Aware
<1>28. r.old \in Disks /\ r.plan \in Disks /\ ~s.unclean /\ s.madeDir = r.madeDir /\ s.madeDir \in BOOLEAN
  BY <1>2, <1>3, <1>6
<1>29. MidOK(s, V, disk', codexDir', user, taint)
  BY <1>2, <1>4, <1>15, <1>23, <1>24, <1>25, <1>28, MidKept
<1>. QED  BY <1>1, <1>2, <1>5, <1>6, <1>24, <1>27, <1>29, Alone DEF s

-----------------------------------------------------------------------------
(* The ends of a commit                                                    *)

LEMMA RestoreFailsAccounts ==
    ASSUME Typing, Sound, Accountable', NEW p \in Procs, RestoreFails(p)
    PROVE  Accounts'
<1>1. taint' = taint \cup {"torn"}
  BY RestoreFailsEffect
<1>. QED  BY <1>1 DEF Accountable

LEMMA CleanupAccounts ==
    ASSUME Typing, Sound, Accountable', NEW p \in Procs, Cleanup(p)
    PROVE  Accounts'
<1> DEFINE r == proc[p]
           s == proc'[p]
<1>1. /\ r.pc = "cleanup" /\ UNCHANGED <<disk, user, taint>> /\ MidCommit(p)
      /\ codexDir' = (codexDir /\ ~(r.madeDir /\ DirEmpty))
  BY DEF Cleanup, MidCommit
<1>2. Accountable
  BY <1>1 DEF Accountable
<1>3. /\ Sensible(r, taint) /\ Informed(r, taint)
      /\ MidOK(r, Written(r), disk, codexDir, user, taint)
      /\ \A q \in Procs : q # p => ~MidCommit(q)
      /\ r.madeDir \in BOOLEAN /\ ~r.unclean
  BY <1>1, <1>2, InCommit
<1>4. Goto(p, "rolled_back")
  BY <1>3 DEF Cleanup
<1>5. /\ OthersStay(p) /\ Alike(r, s) /\ s.pc = "rolled_back"
  BY <1>4, GotoEffect DEF Becomes, Phases, Ended
<1>6. Written(r) = {}
  BY <1>1 DEF Written
<1>7. DirEmpty <=> NoneThere(disk)
  BY DEF DirEmpty, NoneThere, Owned
<1>8. /\ FilesMid(r, {}, disk, user, taint)
      /\ "crashed" \notin taint => DirMid(r, {}, disk, codexDir, user)
  BY <1>3, <1>6 DEF MidOK
<1>9. Held(disk, Applied(disk), user, taint) /\ True(disk, taint)
  BY <1>8 DEF FilesMid
<1>10. ASSUME "crashed" \notin taint
       PROVE  DirHeld(disk, codexDir', FALSE, Applied(disk), user)
  <2>1. DirHeld(disk, codexDir, r.madeDir, Applied(disk), user)
    BY <1>8, <1>10 DEF DirMid
  <2>2. codexDir' <=> (codexDir /\ ~(r.madeDir /\ NoneThere(disk)))
    BY <1>1, <1>7
  <2>. QED  BY <2>1, <2>2 DEF DirHeld
<1>11. AtRest(disk, codexDir', user, taint)
  BY <1>9, <1>10 DEF AtRest
<1>12. Informed(s, taint)
  BY <1>3, <1>5, InformedMoves
<1>13. Aware(s, taint) /\ s.pc \notin Mid
  BY <1>3, <1>5, <1>12 DEF Aware, Sensible, Commits, Alike, Mid
<1>. QED  BY <1>1, <1>3, <1>5, <1>11, <1>13, Alone

LEMMA TreeWritten ==
    ASSUME NEW p \in Procs, Accountable', RemoveTree(p)
    PROVE  taint' = taint /\ Unnoticed(p) = {}
<1>1. "raced" \notin taint' /\ "dirty" \notin taint'
  BY DEF Accountable
<1>2. taint' = taint \cup Overlooked(p, "settings") \cup Overlooked(p, "binary")
                \cup Unnoticed(p)
  BY DEF RemoveTree
<1>3. \A f : Overlooked(p, f) = {} \/ Overlooked(p, f) = {"raced"}
  BY DEF Overlooked
<1>4. Unnoticed(p) = {} \/ Unnoticed(p) = {"dirty"}
  BY DEF Unnoticed
<1>. QED  BY <1>1, <1>2, <1>3, <1>4

LEMMA RemoveTreeAccounts ==
    ASSUME Typing, Sound, Accountable', NEW p \in Procs, RemoveTree(p)
    PROVE  Accounts'
<1> DEFINE r == proc[p]
           s == proc'[p]
           W == Listed(r)
<1>1. /\ r.pc = "tree" /\ OthersStay(p) /\ Alike(r, s) /\ s.pc = "dir"
      /\ s.madeDir = r.madeDir /\ s.unclean = r.unclean /\ MidCommit(p)
      /\ codexDir' = codexDir /\ user' = user
  BY RemoveTreeEffect DEF Becomes, MidCommit, RemoveTree
<1>2. taint' = taint /\ Unnoticed(p) = {} /\ Accountable
  BY TreeWritten DEF Accountable
<1>3. /\ disk' \in Disks /\ disk'["settings"] = Absent /\ disk'["binary"] = Absent
      /\ disk'["codex"] = disk["codex"] /\ disk'["agents"] = disk["agents"]
  BY TreeWrites
<1>4. /\ Sensible(r, taint) /\ Informed(r, taint)
      /\ MidOK(r, Written(r), disk, codexDir, user, taint)
      /\ \A q \in Procs : q # p => ~MidCommit(q)
      /\ r.madeDir \in BOOLEAN /\ ~r.unclean
  BY <1>1, <1>2, InCommit
<1>5. Written(r) = W /\ W \subseteq Files /\ r.op = "unapply"
  BY <1>1, <1>4, ListedIsDiffering DEF Written, Informed
<1>6. r.changes \in Seq(Files) /\ r.old \in Disks /\ r.plan \in Disks /\ MadeFrom(r)
  BY <1>4 DEF Sensible, Lists
<1>7. \A g \in Files \ W : Agree(g, disk, r.old)
  BY <1>2, <1>6, NoticedAll
<1>8. r.plan["binary"] = Absent /\ r.plan["settings"] = Absent
  BY <1>5, <1>6, UnapplyPlan
<1>9. FilesMid(r, W, disk, user, taint)
  BY <1>4, <1>5 DEF MidOK
<1> HIDE DEF r, s, W
<1>10. UnderWay(r, W, disk, user, taint)
  BY <1>5, <1>7, <1>9, Enters DEF W
<1>11. Applied(disk') = Absent /\ Applied(r.plan) = Absent
  BY <1>3, <1>8 DEF Applied
<1>12. \A g \in Files : Agree(g, disk', r.plan)
  <2>1. \A g \in Files : Agree(g, disk, r.plan)
    BY <1>4, <1>10, AllWritten DEF W
  <2> TAKE g \in Files
  <2>2. CASE g \in {"codex", "agents"}
    BY <1>3, <2>1, <2>2 DEF Agree
  <2>3. CASE g \in {"binary", "settings"}
    BY <1>3, <1>8, <1>11, <2>3 DEF Agree
  <2>. QED  BY <2>2, <2>3 DEF Files
<1>13. \A g \in Files \ W : Agree(g, disk', r.old)
  <2>1. \A g \in Files \ W : r.plan[g] = r.old[g]
    BY <1>4, ListedIsDiffering DEF W
  <2> TAKE g \in Files \ W
  <2>2. Agree(g, disk', r.plan) /\ r.plan[g] = r.old[g]
    BY <1>12, <2>1
  <2>. QED  BY <2>2 DEF Agree, Applied
<1>14. UnderWay(r, W, disk', user, taint)
  BY <1>3, <1>5, <1>10, <1>12, <1>13 DEF UnderWay
<1>15. KeepsFiles(r, W, disk') /\ True(r.old, taint) /\ r.op \in Commits
  BY <1>4, <1>5 DEF KeepsFiles, W, Informed, ReadWell, Sensible
<1>16. FilesMid(r, W, disk', user, taint)
  BY <1>1, <1>4, <1>5, <1>14, <1>15, Leaves DEF r, W
<1>17. ASSUME "crashed" \notin taint
       PROVE  DirMid(r, W, disk', codexDir, user)
  <2>1. DirMid(r, W, disk, codexDir, user)
    BY <1>4, <1>5, <1>17 DEF MidOK
  <2>2. NoneThere(disk') <=> NoneThere(disk)
    BY <1>3 DEF NoneThere
  <2>3. \A dir, made, x : DirHeld(disk', dir, made, x, user) <=> DirHeld(disk, dir, made, x, user)
    BY <2>2 DEF DirHeld
  <2>4. W = {} => Applied(disk) = Before(r) /\ Applied(disk') = Before(r)
    BY <1>7, <1>13, AllAgree DEF Before
  <2>. QED  BY <2>1, <2>3, <2>4 DEF DirMid
<1>18. MidOK(r, W, disk', codexDir, user, taint)
  BY <1>16, <1>17 DEF MidOK
<1>19. /\ Undisturbed(disk', user, taint, disk', user, taint)
       /\ DirUndisturbed(disk', codexDir, user, disk', codexDir, user)
  BY <1>3, NothingChanges
<1>20. MidOK(s, W, disk', codexDir, user, taint)
  BY <1>1, <1>3, <1>4, <1>5, <1>6, <1>11, <1>18, <1>19, MidKept DEF r, s
<1>21. Written(s) = W /\ s.pc \in Mid
  BY <1>1 DEF Written, Listed, Upto, Alike, Mid, r, s, W
<1>22. Informed(s, taint)
  BY <1>1, <1>4, <1>5, InformedMoves DEF Alike, r, s
<1>23. Aware(s, taint)
  BY <1>1, <1>5, <1>22 DEF Aware, Alike, r, s
<1>. QED  BY <1>1, <1>2, <1>4, <1>20, <1>21, <1>23, Alone DEF s, r

(* An Unapply that is cut off leaves a receipt beside what it has not yet  *)
(* undone.                                                                 *)
LEMMA Interrupted ==
    ASSUME Typing, Sound, Accountable, NEW p \in Procs, MidCommit(p),
           proc[p].op = "unapply", NEW t, taint \subseteq t, "crashed" \in t
    PROVE  AtRest(disk, codexDir, user, t)
<1> DEFINE r == proc[p]
           W == Written(r)
<1>1. /\ Sensible(r, taint) /\ MidOK(r, W, disk, codexDir, user, taint)
      /\ InTurn(r.changes)
  BY InCommit
<1>2. FilesMid(r, W, disk, user, taint) /\ r.op = "unapply" /\ disk \in Disks
  BY <1>1 DEF MidOK, Typing
<1>3. W = {} \/ \E n \in 0..Len(r.changes) : W = Upto(r, n)
  <2>1. r.pc \in Mid
    BY MidIs
  <2>2. r.index \in 0..Len(r.changes) /\ Len(r.changes) \in Nat /\ r.index \in Nat
    BY Within
  <2>3. r.pc \in Turning => r.index - 1 \in 0..Len(r.changes)
    BY Within
  <2>4. CASE r.pc \in {"compare", "replace"}
    BY <2>2, <2>3, <2>4 DEF Turning, Written
  <2>5. CASE r.pc \in {"recheck", "restore"}
    BY <2>2, <2>5 DEF Written
  <2>6. CASE r.pc \in {"tree", "dir"}
    BY <2>2, <2>6 DEF Written, Listed
  <2>7. CASE r.pc = "cleanup"
    BY <2>7 DEF Written
  <2>. QED  BY <2>1, <2>4, <2>5, <2>6, <2>7 DEF Mid
<1> HIDE DEF r, W
<1>4. Held(disk, Applied(disk), user, taint)
      /\ (Applied(disk) # Absent => Applied(disk).binary = disk["binary"])
  <2>1. CASE W = {}
    BY <1>2, <2>1 DEF FilesMid, True
  <2>2. CASE W # {}
    <3>1. PICK n \in 0..Len(r.changes) : W = Upto(r, n)
      BY <1>3, <2>2
    <3>2. UnderWay(r, Upto(r, n), disk, user, taint)
      BY <1>2, <2>2, <3>1 DEF FilesMid
    <3>. QED  BY <1>1, <1>2, <3>1, <3>2, Abandoned
  <2>. QED  BY <2>1, <2>2
<1>5. Held(disk, Applied(disk), user, t)
  BY <1>4, CodexLater, AgentsLater DEF Held
<1>. QED  BY <1>4, <1>5 DEF AtRest, True

LEMMA RemoveTreeFailsAccounts ==
    ASSUME Typing, Sound, Accountable', NEW p \in Procs, RemoveTreeFails(p)
    PROVE  Accounts'
<1> DEFINE r == proc[p]
           s == proc'[p]
<1>1. /\ r.pc = "tree" /\ UNCHANGED <<disk, codexDir, user>> /\ MidCommit(p)
      /\ taint' = taint \cup {"crashed"} /\ Goto(p, "leftover")
  BY DEF RemoveTreeFails, MidCommit
<1>2. Accountable
  BY <1>1, NoMoreTaint
<1>3. /\ Sensible(r, taint) /\ Informed(r, taint)
      /\ \A q \in Procs : q # p => ~MidCommit(q)
  BY <1>1, <1>2, InCommit
<1>4. /\ OthersStay(p) /\ Alike(r, s) /\ s.pc = "leftover"
  BY <1>1, GotoEffect DEF Becomes, Phases, Ended
<1>5. r.op = "unapply"
  BY <1>1, <1>3 DEF Informed
<1>6. taint \subseteq taint' /\ "crashed" \in taint'
  BY <1>1
<1>7. AtRest(disk, codexDir, user, taint')
  BY <1>1, <1>2, <1>5, <1>6, Interrupted
<1>8. Informed(s, taint')
  BY <1>3, <1>4, <1>6, InformedMoves
<1>9. Aware(s, taint') /\ s.pc \notin Mid
  BY <1>4, <1>5, <1>8 DEF Aware, Alike, Mid
<1>. QED  BY <1>1, <1>3, <1>4, <1>6, <1>7, <1>9, Alone

LEMMA RemoveDirAccounts ==
    ASSUME Typing, Sound, Accountable', NEW p \in Procs, RemoveDir(p)
    PROVE  Accounts'
<1> DEFINE r == proc[p]
           s == proc'[p]
           W == Listed(r)
<1>1. /\ r.pc = "dir" /\ UNCHANGED <<disk, user, taint>> /\ MidCommit(p)
      /\ codexDir' = (codexDir /\ ~(r.removesDir /\ DirEmpty))
      /\ Goto(p, "committed")
  BY DEF RemoveDir, MidCommit
<1>2. Accountable
  BY <1>1 DEF Accountable
<1>3. /\ Sensible(r, taint) /\ Informed(r, taint)
      /\ MidOK(r, Written(r), disk, codexDir, user, taint)
      /\ \A q \in Procs : q # p => ~MidCommit(q)
  BY <1>1, <1>2, InCommit
<1>4. /\ OthersStay(p) /\ Alike(r, s) /\ s.pc = "committed"
  BY <1>1, GotoEffect DEF Becomes, Phases, Ended
<1>5. Written(r) = W /\ W \subseteq Files /\ r.op = "unapply"
  BY <1>1, <1>3, ListedIsDiffering DEF Written, Informed
<1>6. r.old \in Disks /\ r.plan \in Disks /\ MadeFrom(r) /\ disk \in Disks
  BY <1>3 DEF Sensible, Typing
<1>7. DirEmpty <=> NoneThere(disk)
  BY DEF DirEmpty, NoneThere, Owned
<1>8. FilesMid(r, W, disk, user, taint)
  BY <1>3, <1>5 DEF MidOK
<1>9. Applied(disk) = Absent
  BY <1>1, <1>8 DEF FilesMid
<1> HIDE DEF r, s, W
<1>10. Held(disk, Absent, user, taint)
  <2>1. CASE W = {}
    BY <1>8, <1>9, <2>1 DEF FilesMid
  <2>2. CASE W # {}
    <3>1. UnderWay(r, W, disk, user, taint)
      BY <1>8, <2>2 DEF FilesMid
    <3>2. \A g \in Files : Agree(g, disk, r.plan)
      BY <1>3, <3>1, AllWritten DEF W
    <3>3. /\ Server(disk["codex"]) = Server(r.plan["codex"])
          /\ Section(disk["agents"]) = Section(r.plan["agents"])
      BY <3>2, AllAgree
    <3>4. Server(r.plan["codex"]) = 0 /\ Section(r.plan["agents"]) = "none"
      BY <1>5, <1>6, UnapplyPlan DEF UndoneCodex, UndoneAgents
    <3>5. After(r) = Before(r)
      BY <1>5 DEF After, Before
    <3>6. /\ CodexHeld(disk["codex"], Before(r), user["codex"], taint)
          /\ AgentsHeld(disk["agents"], Before(r), user["agents"], taint)
      BY <3>1, <3>5 DEF UnderWay
    <3>. QED  BY <3>3, <3>4, <3>6, GivenUp DEF Held
  <2>. QED  BY <2>1, <2>2
<1>11. ASSUME "crashed" \notin taint
       PROVE  DirHeld(disk, codexDir', FALSE, Absent, user)
  <2>1. DirMid(r, W, disk, codexDir, user)
    BY <1>3, <1>5, <1>11 DEF MidOK
  <2>2. codexDir' <=> (codexDir /\ ~(r.removesDir /\ NoneThere(disk)))
    BY <1>1, <1>7
  <2>. QED  BY <1>3, <1>5, <1>6, <1>8, <1>9, <2>1, <2>2, DirRemoved DEF W
<1>12. AtRest(disk, codexDir', user, taint)
  BY <1>9, <1>10, <1>11 DEF AtRest, True
<1>13. Informed(s, taint)
  BY <1>3, <1>4, InformedMoves
<1>14. Aware(s, taint) /\ s.pc \notin Mid
  BY <1>4, <1>5, <1>13 DEF Aware, Alike, Mid
<1>. QED  BY <1>1, <1>3, <1>4, <1>12, <1>14, Alone DEF r, s

-----------------------------------------------------------------------------
(* The steps outside a commit                                              *)

LEMMA OutsideAccounts ==
    ASSUME Typing, Sound, Accountable', NEW p \in Procs,
           UnapplyStart(p) \/ TerminateFails(p) \/ Finish(p)
    PROVE  Accounts'
<1> DEFINE r == proc[p]
           s == proc'[p]
<1>1. taint' = taint /\ UNCHANGED <<disk, codexDir, user>>
  BY DEF UnapplyStart, TerminateFails, Finish
<1>2. Accounts
  BY <1>1, NoMoreTaint DEF Sound
<1>3. CASE UnapplyStart(p)
  <2>1. r.pc = "planned" /\ r.op = "unapply"
    BY <1>3 DEF UnapplyStart, Op
  <2>2. Goto(p, "checked") \/ Goto(p, "refused")
    BY <1>3 DEF UnapplyStart
  <2>3. /\ OthersStay(p) /\ Alike(r, s) /\ s.pc \in {"checked", "refused"}
        /\ s.madeDir = r.madeDir /\ s.unclean = r.unclean
    BY <2>2, GotoEffect DEF Becomes, Phases, Ended
  <2>. QED  BY <1>1, <2>1, <2>3, Outside DEF Mid, Ended
<1>4. CASE TerminateFails(p)
  <2>1. r.pc = "checked" /\ Goto(p, "refused")
    BY <1>4 DEF TerminateFails
  <2>2. r.op # "preferences"
    <3>1. Aware(r, taint)
      BY <1>2 DEF Accounts, AllAware
    <3>. QED  BY <2>1, <3>1 DEF Aware
  <2>3. /\ OthersStay(p) /\ Alike(r, s) /\ s.pc = "refused"
        /\ s.madeDir = r.madeDir /\ s.unclean = r.unclean
    BY <2>1, GotoEffect DEF Becomes, Phases, Ended
  <2>. QED  BY <1>1, <2>1, <2>2, <2>3, Outside DEF Mid, Ended
<1>5. CASE Finish(p)
  <2>1. r.pc \in Ended /\ Ends(p)
    BY <1>5, EndEffect DEF Finish
  <2>2. OthersStay(p) /\ s.pc = "idle" /\ r.pc \notin Mid \cup {"idle"} /\ s.pc \notin Mid
    BY <2>1 DEF Ends, Idle, Ended, Mid
  <2>. QED  BY <1>1, <2>2, Outside
<1>. QED  BY <1>3, <1>4, <1>5

(* Settings are saved with the receipt that is there.                      *)
LEMMA ReceiptKept ==
    ASSUME NEW d \in Disks, NEW e \in Disks, \A g \in Files : g # "settings" => e[g] = d[g],
           Applied(e) = Applied(d), NEW u, NEW t, NEW s, t \subseteq s, NEW dir
    PROVE  Undisturbed(d, u, t, e, u, s) /\ DirUndisturbed(d, dir, u, e, dir, u)
<1>1. /\ e["binary"] = d["binary"] /\ e["codex"] = d["codex"] /\ e["agents"] = d["agents"]
  BY DEF Files
<1>2. /\ Undisturbed(d, u, t, d, u, s) /\ DirUndisturbed(d, dir, u, d, dir, u)
  BY NothingChanges
<1>3. \A g \in Files : Agree(g, e, d)
  BY <1>1 DEF Agree
<1>4. \A made, r : DirHeld(d, dir, made, r, u) <=> DirHeld(e, dir, made, r, u)
  BY <1>1 DEF DirHeld, NoneThere
<1>5. Undisturbed(d, u, t, e, u, s)
  BY <1>1, <1>2, <1>3 DEF Undisturbed, Owned
<1>6. DirUndisturbed(d, dir, u, e, dir, u)
  BY <1>2, <1>4 DEF DirUndisturbed
<1>. QED  BY <1>5, <1>6

LEMMA SaveAccounts ==
    ASSUME Typing, Sound, Accountable', NEW p \in Procs, SaveSettings(p)
    PROVE  Accounts'
<1> DEFINE r == proc[p]
           s == proc'[p]
           saved == r.plan["settings"]
<1>1. /\ r.pc = "planned" /\ r.op = "preferences" /\ OthersStay(p) /\ Alike(r, s)
      /\ s.pc = "committed" /\ codexDir' = codexDir /\ user' = user
  BY SaveSettingsEffect DEF Becomes, SaveSettings
<1>2. taint \subseteq taint' /\ saved.applied = Applied(disk)
  <2>1. taint' = taint \cup Overlooked(p, "settings") \cup
                 (IF saved.applied # Applied(disk) THEN {"stale"} ELSE {})
    BY DEF SaveSettings
  <2>2. "stale" \notin taint'
    BY DEF Accountable
  <2>. QED  BY <2>1, <2>2
<1>3. /\ disk' \in Disks /\ disk'["settings"] = saved /\ disk \in Disks
      /\ \A g \in Files : g # "settings" => disk'[g] = disk[g]
  BY SaveWrites DEF Typing
<1>4. saved \in Settings
  <2>1. r.old \in Disks /\ MadeFrom(r)
    BY <1>1 DEF Typing, ProcOK, Planned
  <2>2. r.plan = [f \in Files |->
            IF f = "settings"
            THEN [OrElse(r.old[f], DefaultSettings) EXCEPT !.pref = 1 - @]
            ELSE r.old[f]]
    BY <1>1, <2>1 DEF MadeFrom
  <2>. QED  BY <2>1, <2>2, PreferencesKinds
<1>5. Applied(disk') = Applied(disk)
  BY <1>2, <1>3, <1>4 DEF Applied
<1> HIDE DEF saved
<1>6. /\ Undisturbed(disk, user, taint, disk', user, taint')
      /\ DirUndisturbed(disk, codexDir, user, disk', codexDir, user)
  BY <1>2, <1>3, <1>5, ReceiptKept
<1>7. Aware(s, taint') /\ ~MidCommit(p) /\ s.pc \notin Mid
  BY <1>1 DEF Aware, Alike, MidCommit, Mid
<1>. QED  BY <1>1, <1>2, <1>3, <1>6, <1>7, Apart

-----------------------------------------------------------------------------
(* The user's edits                                                        *)

LEMMA EditedAgents ==
    ASSUME Typing, Plain(user), EditAgents, codexDir' = TRUE
    PROVE  /\ taint \subseteq taint' /\ disk' \in Disks /\ Plain(user')
           /\ Undisturbed(disk, user, taint, disk', user', taint')
           /\ DirUndisturbed(disk, codexDir, user, disk', codexDir', user')
<1> DEFINE a == disk["agents"]
           n == disk'["agents"]
           u == user["agents"]
           v == user'["agents"]
<1>1. /\ disk' \in Disks /\ user' \in Users
      /\ OrElse(a, NoAgents) \in AgentsText /\ OrElse(u, NoAgents) \in AgentsText
      /\ n \in AgentsText /\ v \in AgentsText
      /\ n.text = OrElse(a, NoAgents).text + 1
      /\ n.sep = OrElse(a, NoAgents).sep /\ n.section = OrElse(a, NoAgents).section
      /\ v.text = OrElse(u, NoAgents).text + 1
      /\ v.sep = OrElse(u, NoAgents).sep /\ v.section = OrElse(u, NoAgents).section
      /\ (OrElse(a, NoAgents) = OrElse(u, NoAgents) => n = v)
      /\ \A g \in Files : g # "agents" => disk'[g] = disk[g]
      /\ user'["codex"] = user["codex"]
      /\ user'["dir"] = (user["dir"] \/ ~codexDir)
      /\ taint \subseteq taint'
      /\ OrElse(a, NoAgents).section # "none" => "drifted" \in taint'
  BY EditAgentsEffect
<1>2. disk \in Disks /\ a \in MaybeAgents /\ u \in MaybeAgents /\ codexDir \in BOOLEAN
      /\ user["codex"] \in MaybeCodex /\ PlainCodex(user["codex"]) /\ PlainAgents(u)
  BY DiskKinds DEF Typing, Plain
<1>3. /\ disk'["binary"] = disk["binary"] /\ disk'["codex"] = disk["codex"]
      /\ disk'["settings"] = disk["settings"]
  BY <1>1 DEF Files
<1> HIDE DEF a, n, u, v
<1>4. n # Absent /\ v # Absent /\ OrElse(n, NoAgents) = n /\ OrElse(v, NoAgents) = v
  BY <1>1 DEF OrElse
<1>5. /\ Section(n) = Section(a) /\ Section(v) = Section(u)
      /\ Sep(n) <=> Sep(a)
      /\ Sep(v) <=> Sep(u)
      /\ TextOf(n) = n.text /\ TextOf(v) = v.text
  BY <1>1, <1>4 DEF Section, Sep, TextOf
<1>6. n.text > 0 /\ v.text > 0
  <2>1. OrElse(a, NoAgents).text \in Nat /\ OrElse(u, NoAgents).text \in Nat
    BY <1>1 DEF AgentsText
  <2>. QED  BY <1>1, <2>1
<1>7. Plain(user')
  <2>1. PlainAgents(v) /\ v \in MaybeAgents
    BY <1>1, <1>2, <1>5, <1>6 DEF PlainAgents, MaybeAgents
  <2>. QED  BY <1>1, <1>2, <2>1 DEF Plain, v
<1>8. \A g \in Files : Agree(g, disk', disk)
  BY <1>3, <1>5 DEF Agree, Applied, n, a
<1>9. ASSUME NEW r \in MaybeRecord, AgentsHeld(a, r, u, taint)
      PROVE  AgentsHeld(n, r, v, taint')
  <2>1. Section(a) # "none" => "drifted" \in taint'
    BY <1>1 DEF Section
  <2>2. n \in AgentsText /\ v \in AgentsText /\ taint \subseteq taint'
        /\ (OrElse(a, NoAgents) = OrElse(u, NoAgents) => n = v)
    BY <1>1
  <2>3. TextOf(n) > 0
    BY <1>5, <1>6
  <2>. QED  BY <1>2, <1>5, <1>9, <2>1, <2>2, <2>3, AgentsEdited
<1>10. \A r \in MaybeRecord : CodexHeld(disk["codex"], r, user["codex"], taint)
                                => CodexHeld(disk'["codex"], r, user'["codex"], taint')
  BY <1>1, <1>3, CodexLater
<1>11. Undisturbed(disk, user, taint, disk', user', taint')
  <2>1. \A g \in Owned : disk[g] # Absent => disk'[g] # Absent
    BY <1>3, <1>4 DEF Owned, n
  <2>. QED  BY <1>1, <1>8, <1>9, <1>10, <2>1 DEF Undisturbed, a, n, u, v
<1>12. DirUndisturbed(disk, codexDir, user, disk', codexDir', user')
  <2>1. ~NoneThere(disk')
    BY <1>4 DEF NoneThere, n
  <2>2. codexDir => (user'["dir"] => user["dir"])
    BY <1>1
  <2>. QED  BY <2>1, <2>2 DEF DirUndisturbed, DirHeld
<1>. QED  BY <1>1, <1>7, <1>11, <1>12

LEMMA EditedCodex ==
    ASSUME Typing, Plain(user), NEW what \in {"text", "limit"}, NEW limit \in UserLimits,
           EditCodex(what, limit), codexDir' = TRUE
    PROVE  /\ taint \subseteq taint' /\ disk' \in Disks /\ Plain(user')
           /\ Undisturbed(disk, user, taint, disk', user', taint')
           /\ DirUndisturbed(disk, codexDir, user, disk', codexDir', user')
<1> DEFINE c == disk["codex"]
           n == disk'["codex"]
           u == user["codex"]
           v == user'["codex"]
<1>1. /\ disk' \in Disks /\ user' \in Users
      /\ OrElse(c, NoCodex) \in CodexText /\ OrElse(u, NoCodex) \in CodexText
      /\ n \in CodexText /\ v \in CodexText
      /\ n.server = OrElse(c, NoCodex).server /\ v.server = OrElse(u, NoCodex).server
      /\ \/ /\ n.text = OrElse(c, NoCodex).text + 1 /\ v.text = OrElse(u, NoCodex).text + 1
            /\ n.limit = OrElse(c, NoCodex).limit /\ v.limit = OrElse(u, NoCodex).limit
         \/ /\ n.text = OrElse(c, NoCodex).text /\ v.text = OrElse(u, NoCodex).text
            /\ n.limit = limit /\ v.limit = limit
      /\ (OrElse(c, NoCodex) = OrElse(u, NoCodex) => n = v)
      /\ \A g \in Files : g # "codex" => disk'[g] = disk[g]
      /\ user'["agents"] = user["agents"]
      /\ user'["dir"] = (user["dir"] \/ ~codexDir)
      /\ taint \subseteq taint'
  BY EditCodexEffect
<1>2. disk \in Disks /\ c \in MaybeCodex /\ u \in MaybeCodex /\ codexDir \in BOOLEAN
      /\ user["agents"] \in MaybeAgents /\ PlainCodex(u) /\ PlainAgents(user["agents"])
  BY DiskKinds DEF Typing, Plain
<1>3. /\ disk'["binary"] = disk["binary"] /\ disk'["agents"] = disk["agents"]
      /\ disk'["settings"] = disk["settings"]
  BY <1>1 DEF Files
<1> HIDE DEF c, n, u, v
<1>4. n # Absent /\ v # Absent /\ OrElse(n, NoCodex) = n /\ OrElse(v, NoCodex) = v
  BY <1>1 DEF OrElse
<1>5. /\ Server(n) = Server(c) /\ Server(v) = Server(u)
      /\ \/ Limit(n) = Limit(c) /\ Limit(v) = Limit(u)
         \/ Limit(n) \in UserLimits /\ Limit(v) = Limit(n)
  BY <1>1, <1>4 DEF Server, Limit
<1>6. v # NoCodex
  <2>1. CASE v.text = OrElse(u, NoCodex).text + 1
    <3>1. OrElse(u, NoCodex).text \in Nat /\ NoCodex.text = 0
      BY <1>1 DEF CodexText, NoCodex
    <3>2. v.text # 0
      BY <2>1, <3>1
    <3>. QED  BY <3>1, <3>2
  <2>2. CASE v.limit = limit
    BY <2>2 DEF NoCodex
  <2>. QED  BY <1>1, <2>1, <2>2
<1>7. Plain(user')
  <2>1. PlainCodex(v) /\ v \in MaybeCodex
    BY <1>1, <1>2, <1>5 DEF PlainCodex, MaybeCodex
  <2>. QED  BY <1>1, <1>2, <2>1 DEF Plain, v
<1>8. \A g \in Files : Agree(g, disk', disk)
  BY <1>3, <1>5 DEF Agree, Applied, n, c
<1>9. ASSUME NEW r \in MaybeRecord, CodexHeld(c, r, u, taint)
      PROVE  CodexHeld(n, r, v, taint')
  <2>1. n \in CodexText /\ v \in CodexText
        /\ (OrElse(c, NoCodex) = OrElse(u, NoCodex) => n = v)
    BY <1>1
  <2>2. CodexHeld(n, r, v, taint)
    BY <1>2, <1>5, <1>6, <1>9, <2>1, CodexEdited
  <2>. QED  BY <1>1, <2>2, CodexLater
<1>10. \A r \in MaybeRecord : AgentsHeld(disk["agents"], r, user["agents"], taint)
                                => AgentsHeld(disk'["agents"], r, user'["agents"], taint')
  BY <1>1, <1>3, AgentsLater
<1>11. Undisturbed(disk, user, taint, disk', user', taint')
  <2>1. \A g \in Owned : disk[g] # Absent => disk'[g] # Absent
    BY <1>3, <1>4 DEF Owned, n
  <2>. QED  BY <1>1, <1>8, <1>9, <1>10, <2>1 DEF Undisturbed, c, n, u, v
<1>12. DirUndisturbed(disk, codexDir, user, disk', codexDir', user')
  <2>1. ~NoneThere(disk')
    BY <1>4 DEF NoneThere, n
  <2>2. codexDir => (user'["dir"] => user["dir"])
    BY <1>1
  <2>. QED  BY <2>1, <2>2 DEF DirUndisturbed, DirHeld
<1>. QED  BY <1>1, <1>7, <1>11, <1>12

LEMMA Edited ==
    ASSUME Typing, Plain(user), UserEdit
    PROVE  /\ taint \subseteq taint' /\ disk' \in Disks /\ Plain(user')
           /\ Undisturbed(disk, user, taint, disk', user', taint')
           /\ DirUndisturbed(disk, codexDir, user, disk', codexDir', user')
<1>1. codexDir' = TRUE
  BY DEF UserEdit
<1>2. CASE EditAgents
  BY <1>1, <1>2, EditedAgents
<1>3. ASSUME NEW limit \in UserLimits, NEW what \in {"text", "limit"}, EditCodex(what, limit)
      PROVE  /\ taint \subseteq taint' /\ disk' \in Disks /\ Plain(user')
             /\ Undisturbed(disk, user, taint, disk', user', taint')
             /\ DirUndisturbed(disk, codexDir, user, disk', codexDir', user')
  BY <1>1, <1>3, EditedCodex
<1>. QED  BY <1>2, <1>3 DEF UserEdit

LEMMA EditAccounts ==
    ASSUME Typing, Sound, Plain(user), Accountable', UserEdit
    PROVE  Accounts'
<1>1. OthersStay(Absent)
  BY EditStays DEF OthersStay
<1>2. Absent \notin Procs
  OBVIOUS
<1>. QED  BY <1>1, <1>2, Edited, Apart

-----------------------------------------------------------------------------
(* Processes that die                                                      *)

LEMMA Dying ==
    ASSUME NEW qs, NEW q \in qs, Tears(qs) \subseteq taint', MidCommit(q)
    PROVE  /\ "crashed" \in taint'
           /\ Op(q) # "unapply" => "torn" \in taint'
BY DEF Tears

LEMMA CrashAccounts ==
    ASSUME Typing, Sound, Accountable', NEW p \in Procs, Crash(p)
    PROVE  Accounts'
<1>1. /\ proc[p].pc # "idle" /\ Ends(p) /\ UNCHANGED <<disk, codexDir, user>>
      /\ taint \subseteq taint' /\ Tears({p}) \subseteq taint'
  BY EndEffect DEF Crash
<1>2. OthersStay(p) /\ proc'[p].pc = "idle" /\ proc'[p].pc \notin Mid
  BY <1>1 DEF Ends, Idle, Mid
<1>3. Accountable
  BY <1>1, NoMoreTaint
<1>4. CASE ~MidCommit(p)
  <2>1. proc[p].pc \notin Mid \cup {"idle"}
    BY <1>1, <1>4, MidIs
  <2>. QED  BY <1>1, <1>2, <2>1, Outside
<1>5. CASE MidCommit(p)
  <2>1. "crashed" \in taint' /\ proc[p].op = "unapply"
    BY <1>1, <1>5, Dying DEF Op, Accountable
  <2>2. AtRest(disk, codexDir, user, taint')
    BY <1>1, <1>3, <1>5, <2>1, Interrupted
  <2>3. \A q \in Procs : q # p => ~MidCommit(q)
    BY <1>3, <1>5, InCommit
  <2>4. Aware(proc'[p], taint')
    BY <1>2 DEF Aware
  <2>. QED  BY <1>1, <1>2, <2>2, <2>3, <2>4, Alone
<1>. QED  BY <1>4, <1>5

LEMMA TerminateAccounts ==
    ASSUME Typing, Sound, Accountable', NEW p \in Procs, Terminate(p)
    PROVE  Accounts'
<1> DEFINE r == proc[p]
           s == proc'[p]
<1>1. /\ r.pc = "checked" /\ UNCHANGED <<disk, codexDir, user>>
      /\ taint \subseteq taint' /\ Alike(r, s) /\ s.pc = "stopped"
      /\ \A q \in Procs : q # p =>
            \/ Stays(proc[q], proc'[q])
            \/ /\ proc'[q] = Idle
               /\ MidCommit(q) => "crashed" \in taint'
               /\ (MidCommit(q) /\ proc[q].op # "unapply") => "torn" \in taint'
  BY TerminateEffect
<1>2. s.madeDir = r.madeDir /\ s.unclean = r.unclean
  <2>1. s = [r EXCEPT !.pc = "stopped"]
    BY DEF Terminate
  <2>2. r \in Process
    BY DEF Typing, ProcOK
  <2> HIDE DEF r
  <2>. QED  BY <2>1, <2>2 DEF Process
<1>3. Accountable /\ Accounts /\ OthersGoOn(p)
  BY <1>1, NoMoreTaint DEF Sound, OthersGoOn
<1>4. Aware(s, taint')
  <2>1. r.op # "preferences" /\ Informed(r, taint)
    <3>1. Aware(r, taint)
      BY <1>3 DEF Accounts, AllAware
    <3>. QED  BY <1>1, <3>1 DEF Aware
  <2>2. s.op = "unapply" /\ ~s.madeDir /\ ~s.unclean
    BY <1>1, <1>2, <2>1 DEF Informed, Alike
  <2>3. Informed(s, taint')
    BY <1>1, <2>1, <2>2, InformedMoves
  <2>. QED  BY <2>2, <2>3 DEF Aware
<1>5. ~MidCommit(p) /\ s.pc \notin Mid
  BY <1>1 DEF MidCommit, Mid
<1>6. CASE \A q \in Procs : q # p /\ MidCommit(q) => proc'[q] # Idle
  BY <1>1, <1>3, <1>4, <1>5, <1>6, FilesStill, ApartGoesOn
<1>7. CASE \E q \in Procs : q # p /\ MidCommit(q) /\ proc'[q] = Idle
  <2>1. PICK q \in Procs : q # p /\ MidCommit(q) /\ proc'[q] = Idle
    BY <1>7
  <2>2. proc'[q].pc # proc[q].pc
    BY <2>1, MidIs DEF Idle, Mid
  <2>3. "crashed" \in taint' /\ proc[q].op = "unapply"
    BY <1>1, <2>1, <2>2 DEF Stays, Accountable
  <2>4. AtRest(disk, codexDir, user, taint')
    BY <1>1, <1>3, <2>1, <2>3, Interrupted
  <2>5. \A x \in Procs : ~MidCommit(x)'
    <3> TAKE x \in Procs
    <3>1. MidCommit(x)' <=> proc'[x].pc \in Mid
      BY DEF MidCommit, Mid
    <3>2. CASE x = p
      BY <1>5, <3>1, <3>2
    <3>3. CASE proc'[x] = Idle
      BY <3>1, <3>3 DEF Idle, Mid
    <3>4. CASE x # p /\ proc'[x] # Idle
      <4>1. x # q /\ proc'[x].pc = proc[x].pc
        BY <1>1, <2>1, <3>4 DEF Stays
      <4>2. ~MidCommit(x)
        BY <1>3, <2>1, <4>1, InCommit
      <4>. QED  BY <3>1, <4>1, <4>2, MidIs
    <3>. QED  BY <3>2, <3>3, <3>4
  <2>6. AllAware'
    BY <1>1, <1>3, <1>4, OthersAware DEF Accounts
  <2>. QED  BY <1>1, <2>4, <2>5, <2>6 DEF Accounts, OneAtATime, RestHolds, MidHolds
<1>. QED  BY <1>6, <1>7

-----------------------------------------------------------------------------
(* Every step                                                              *)

LEMMA PlainStep == Typing /\ Plain(user) /\ [Next]_vars => Plain(user')
<1> SUFFICES ASSUME Typing, Plain(user), [Next]_vars PROVE Plain(user')
  OBVIOUS
<1>1. CASE UserEdit
  BY <1>1, Edited
<1>2. ASSUME NEW p \in Procs, Step(p) PROVE user' = user
  <2>1. CASE \/ Apply(p) \/ Unapply(p) \/ SyncBinary(p) \/ SyncGuidance(p)
             \/ OpenSettings(p) \/ SaveSettings(p) \/ Crash(p)
    BY <2>1 DEF Apply, Unapply, SyncBinary, SyncGuidance, OpenSettings, SaveSettings, Crash
  <2>2. CASE \/ Commit(p) \/ Compare(p) \/ Replace(p) \/ ReplaceFails(p)
             \/ Recheck(p) \/ Restore(p) \/ RestoreFails(p) \/ Cleanup(p)
    BY <2>2 DEF Commit, CommitStart, Compare, Replace, ReplaceFails, Recheck,
                Restore, RestoreFails, Cleanup
  <2>3. CASE \/ UnapplyStart(p) \/ Terminate(p) \/ TerminateFails(p)
             \/ UnapplyCommit(p) \/ RemoveTree(p) \/ RemoveTreeFails(p)
             \/ RemoveDir(p) \/ Finish(p)
    BY <2>3 DEF UnapplyStart, Terminate, TerminateFails, UnapplyCommit, CommitStart,
                RemoveTree, RemoveTreeFails, RemoveDir, Finish
  <2>. QED  BY <1>2, <2>1, <2>2, <2>3 DEF Step
<1>3. CASE UNCHANGED vars
  BY <1>3 DEF vars
<1>. QED  BY <1>1, <1>2, <1>3 DEF Next

LEMMA StutterAccounts ==
    ASSUME Typing, Sound, Accountable', UNCHANGED vars
    PROVE  Accounts'
<1>1. taint' = taint /\ proc' = proc /\ UNCHANGED <<disk, codexDir, user>>
  BY DEF vars
<1>2. \A q \in Procs : Stays(proc[q], proc'[q])
  BY <1>1, StaysSame DEF Typing, ProcOK
<1>3. OthersStay(Absent)
  BY <1>1, <1>2 DEF OthersStay, AllThere, Typing
<1>. QED  BY <1>1, <1>3, FilesStill, Apart

LEMMA SoundStep ==
    Typing /\ Windows /\ TextKept /\ Plain(user) /\ Sound /\ [Next]_vars => Sound'
<1> SUFFICES ASSUME Typing, Windows, TextKept, Plain(user), Sound, [Next]_vars, Accountable'
             PROVE  Accounts'
  BY DEF Sound
<1>1. CASE UserEdit
  BY <1>1, EditAccounts
<1>2. ASSUME NEW p \in Procs, Step(p) PROVE Accounts'
  <2>1. CASE Apply(p) \/ Unapply(p) \/ SyncBinary(p) \/ SyncGuidance(p) \/ OpenSettings(p)
    BY <2>1, StartAccounts
  <2>2. CASE Commit(p) \/ UnapplyCommit(p)
    BY <2>2, CommitAccounts
  <2>3. CASE Compare(p) \/ ReplaceFails(p) \/ Recheck(p)
    BY <2>3, TurnAccounts
  <2>4. CASE Replace(p)
    BY <2>4, ReplaceAccounts
  <2>5. CASE Restore(p)
    BY <2>5, RestoreAccounts
  <2>6. CASE RestoreFails(p)
    BY <2>6, RestoreFailsAccounts
  <2>7. CASE Cleanup(p)
    BY <2>7, CleanupAccounts
  <2>8. CASE UnapplyStart(p) \/ TerminateFails(p) \/ Finish(p)
    BY <2>8, OutsideAccounts
  <2>9. CASE Terminate(p)
    BY <2>9, TerminateAccounts
  <2>10. CASE RemoveTree(p)
    BY <2>10, RemoveTreeAccounts
  <2>11. CASE RemoveTreeFails(p)
    BY <2>11, RemoveTreeFailsAccounts
  <2>12. CASE RemoveDir(p)
    BY <2>12, RemoveDirAccounts
  <2>13. CASE SaveSettings(p)
    BY <2>13, SaveAccounts
  <2>14. CASE Crash(p)
    BY <2>14, CrashAccounts
  <2>. QED  BY <1>2, <2>1, <2>2, <2>3, <2>4, <2>5, <2>6, <2>7, <2>8, <2>9, <2>10,
               <2>11, <2>12, <2>13, <2>14 DEF Step
<1>3. CASE UNCHANGED vars
  BY <1>3, StutterAccounts
<1>. QED  BY <1>1, <1>2, <1>3 DEF Next

-----------------------------------------------------------------------------
(* The start                                                               *)

LEMMA BareHeld ==
    ASSUME NEW c \in UserCodex, NEW a \in UserAgents
    PROVE  /\ CodexHeld(c, Absent, c, {}) /\ AgentsHeld(a, Absent, a, {})
           /\ PlainCodex(c) /\ PlainAgents(a)
           /\ c \in MaybeCodex /\ a \in MaybeAgents
<1>1. /\ c \in MaybeCodex /\ a \in MaybeAgents
      /\ c # Absent => c.server = 0 /\ c.limit \in {0} \cup UserLimits
      /\ a # Absent => ~a.sep /\ a.section = "none" /\ a.text > 0
  BY BareIsDisk DEF MaybeCodex, MaybeAgents
<1>2. Server(c) = 0 /\ Limit(c) \in {0} \cup UserLimits
  BY <1>1 DEF Server, Limit, OrElse, NoCodex
<1>3. Section(a) = "none" /\ ~Sep(a)
  BY <1>1 DEF Section, Sep, OrElse, NoAgents
<1>4. a # Absent => TextOf(a) > 0
  BY <1>1 DEF TextOf
<1>5. CodexHeld(c, Absent, c, {})
  BY <1>2 DEF CodexHeld
<1>6. AgentsHeld(a, Absent, a, {})
  BY <1>3, <1>4 DEF AgentsHeld, AgentsRead
<1>. QED  BY <1>1, <1>2, <1>3, <1>4, <1>5, <1>6 DEF PlainCodex, PlainAgents

LEMMA SoundInit == Init => Sound /\ Plain(user)
<1> SUFFICES ASSUME Init PROVE Sound /\ Plain(user)
  OBVIOUS
<1>1. PICK c \in UserCodex, a \in UserAgents, installed \in BOOLEAN :
         /\ user = [codex |-> c, agents |-> a, dir |-> (c # Absent \/ a # Absent)]
         /\ IF installed
            THEN \E tier \in Tiers :
                    disk = PlanApply(Bare(c, a), c # Absent \/ a # Absent, 1, tier, "old")
            ELSE disk = Bare(c, a)
         /\ codexDir = ((c # Absent \/ a # Absent) \/ installed)
         /\ proc = [p \in Procs |-> Idle]
         /\ taint = {}
  BY InitShape
<1> DEFINE dir == c # Absent \/ a # Absent
           d == Bare(c, a)
<1>2. /\ c \in UserCodex /\ a \in UserAgents /\ installed \in BOOLEAN
      /\ user["codex"] = c /\ user["agents"] = a /\ user["dir"] = dir
  BY <1>1
<1>3. /\ CodexHeld(c, Absent, c, {}) /\ AgentsHeld(a, Absent, a, {})
      /\ PlainCodex(c) /\ PlainAgents(a)
      /\ c \in MaybeCodex /\ a \in MaybeAgents
  BY <1>2, BareHeld
<1>4. /\ d \in Disks /\ d["codex"] = c /\ d["agents"] = a
      /\ Applied(d) = Absent /\ d["settings"] = Absent
  BY <1>2, BareIsDisk DEF Applied
<1>5. /\ \A p \in Procs : ~MidCommit(p)
      /\ AllAware
  BY <1>1 DEF MidCommit, Idle, AllAware, Aware
<1>6. Plain(user)
  BY <1>2, <1>3 DEF Plain
<1>7. AtRest(disk, codexDir, user, {})
  <2>1. CASE ~installed
    <3>1. disk = d /\ codexDir = dir
      BY <1>1, <2>1
    <3>2. dir <=> ~NoneThere(d)
      BY <1>4 DEF NoneThere
    <3>3. DirHeld(disk, codexDir, FALSE, Absent, user)
      BY <1>2, <3>1, <3>2 DEF DirHeld
    <3>. QED  BY <1>2, <1>3, <1>4, <3>1, <3>3 DEF AtRest, Held, True
  <2>2. CASE installed
    <3>1. PICK tier \in Tiers : disk = PlanApply(d, dir, 1, tier, "old")
      BY <1>1, <2>2
    <3>2. tier \in Tiers /\ 1 \in Versions /\ dir \in BOOLEAN /\ codexDir
      BY <1>1, <2>2, <3>1
    <3> DEFINE e == PlanApply(d, dir, 1, tier, "old")
               new == Applied(e)
    <3>3. /\ e \in Disks /\ new \in Record /\ e["binary"] = new.binary
          /\ e["codex"] # Absent
          /\ Server(e["codex"]) = new.limit /\ Limit(e["codex"]) = new.limit
          /\ new.previous = Limit(c) /\ new.codexExisted = (c # Absent)
          /\ AppliedAgents(a, Absent, e["agents"], new)
          /\ new.dirCreated <=> ~dir
      <4> HIDE DEF d, dir
      <4>. QED  BY <1>4, <3>2, ApplyShape
    <3> HIDE DEF e
    <3>4. e["codex"] \in MaybeCodex /\ e["agents"] \in MaybeAgents /\ Absent \in MaybeRecord
          /\ new # Absent
      BY <3>3, DiskKinds DEF MaybeRecord
    <3> HIDE DEF new
    <3>5. CodexHeld(e["codex"], new, c, {})
      BY <1>3, <3>3, <3>4, CodexApplied
    <3>6. AgentsHeld(e["agents"], new, a, {})
      BY <1>3, <3>3, <3>4, AgentsApplied
    <3>7. new.agentsExisted <=> a # Absent
      BY <3>3 DEF AppliedAgents
    <3>8. DirHeld(e, codexDir, FALSE, new, user)
      BY <1>2, <3>2, <3>3, <3>4, <3>7 DEF DirHeld
    <3>9. True(e, {})
      BY <3>3 DEF True, new
    <3>10. AtRest(e, codexDir, user, {})
      BY <1>2, <3>5, <3>6, <3>8, <3>9 DEF AtRest, Held, new
    <3>. QED  BY <3>1, <3>10 DEF e
  <2>. QED  BY <1>2, <2>1, <2>2
<1>8. RestHolds
  BY <1>1, <1>7 DEF RestHolds
<1>. QED  BY <1>5, <1>6, <1>8 DEF Sound, Accounts, OneAtATime, MidHolds

-----------------------------------------------------------------------------
LEMMA SoundSuffices == Typing /\ Sound => ReceiptUndoesApply
<1> SUFFICES ASSUME Typing, Sound PROVE ReceiptUndoesApply
  OBVIOUS
<1>1. ASSUME Accountable, Quiet
      PROVE  AtRest(disk, codexDir, user, taint)
  BY <1>1 DEF Sound, Accounts, RestHolds
<1>2. ReceiptIsTrue
  <2> SUFFICES ASSUME Accountable, Quiet, Applied(disk) # Absent
               PROVE  /\ Applied(disk).binary = disk["binary"]
                      /\ \/ OrElse(disk["codex"], NoCodex).server = Applied(disk).limit
                         \/ "crashed" \in taint
    BY DEF ReceiptIsTrue, Quiet
  <2>. QED  BY <1>1 DEF AtRest, True, Server
<1>3. UnapplyRestores
  <2> SUFFICES ASSUME NEW p \in Procs, proc[p].pc = "committed", Applied(disk) = Absent,
                      \A q \in Procs \ {p} : proc[q].pc \in {"idle", "planned"}, Accountable
               PROVE  /\ OrElse(disk["codex"], NoCodex).server = 0
                      /\ "overruled" \notin taint => disk["codex"] = user["codex"]
                      /\ (disk["agents"] = Absent) = (user["agents"] = Absent)
                      /\ OrElse(disk["agents"], NoAgents).section = "none"
                      /\ "drifted" \notin taint => disk["agents"] = user["agents"]
                      /\ "crashed" \notin taint => codexDir = (user["dir"] \/ ~DirEmpty)
    BY DEF UnapplyRestores
  <2>1. Quiet
    <3> SUFFICES ASSUME NEW q \in Procs PROVE ~MidCommit(q)
      BY DEF Quiet
    <3>1. proc[q].pc \in {"committed", "idle", "planned"}
      OBVIOUS
    <3>. QED  BY <3>1 DEF MidCommit
  <2>2. /\ CodexHeld(disk["codex"], Absent, user["codex"], taint)
        /\ AgentsHeld(disk["agents"], Absent, user["agents"], taint)
        /\ "crashed" \notin taint => DirHeld(disk, codexDir, FALSE, Absent, user)
    BY <1>1, <2>1 DEF AtRest, Held
  <2>3. /\ Server(disk["codex"]) = 0
        /\ "overruled" \notin taint => disk["codex"] = user["codex"]
    BY <2>2 DEF CodexHeld
  <2>4. /\ Section(disk["agents"]) = "none"
        /\ disk["agents"] = Absent <=> user["agents"] = Absent
        /\ "drifted" \notin taint => disk["agents"] = user["agents"]
    BY <2>2 DEF AgentsHeld, AgentsRead
  <2>5. ASSUME "crashed" \notin taint PROVE codexDir = (user["dir"] \/ ~DirEmpty)
    <3>1. codexDir \in BOOLEAN /\ user["dir"] \in BOOLEAN
      BY DEF Typing, Users
    <3>2. DirEmpty <=> NoneThere(disk)
      BY DEF DirEmpty, NoneThere, Owned
    <3>3. codexDir <=> ~NoneThere(disk)
      BY <2>2, <2>5 DEF DirHeld
    <3>4. user["dir"] => ~NoneThere(disk)
      BY <2>2, <2>5 DEF DirHeld
    <3>. QED  BY <3>1, <3>2, <3>3, <3>4
  <2>. QED  BY <2>3, <2>4, <2>5 DEF Server, Section
<1>. QED  BY <1>2, <1>3 DEF ReceiptUndoesApply

(* The receipt is what an Unapply goes by: while nothing is in flight it   *)
(* says what is installed, and an Unapply that ends gives the user's files *)
(* and the directory back, whatever came before it (control/apply.rs).     *)
THEOREM ReceiptSuffices == Spec => []ReceiptUndoesApply
<1> DEFINE Inv == Typing /\ Windows /\ TextKept /\ Plain(user) /\ Sound
<1>1. Init => Inv
  BY InitTyping, TextInit, SoundInit
<1>2. Inv /\ [Next]_vars => Inv'
  <2> SUFFICES ASSUME Inv, [Next]_vars PROVE Inv'
    OBVIOUS
  <2>1. Typing'
    BY TypingStep
  <2>2. Windows' /\ TextKept'
    BY TextStep
  <2>3. Plain(user')
    BY PlainStep
  <2>4. Sound'
    BY SoundStep
  <2>. QED  BY <2>1, <2>2, <2>3, <2>4
<1>3. Inv => ReceiptUndoesApply
  BY SoundSuffices
<1> HIDE DEF Inv
<1>. QED  BY <1>1, <1>2, <1>3, PTL DEF Spec
=============================================================================

---------------------------- MODULE ReplaceProofs ---------------------------
(* Proofs about Replace, for any calls and processes, any number of files, *)
(* and any number of changes by others and of failures.                    *)
EXTENDS Replace, FiniteSetTheorems, TLAPS

USE ReplaceAssumption

FirstPlaces == {"idle", "open", "identify"}
Inside == {"name_file", "target", "target_file", "reopen", "check", "compare",
           "rename"}
Places == FirstPlaces \cup {"next", "done"} \cup Inside
WithText == {"identify", "check", "compare", "rename"}
NothingWritten == {"refused", "preview", "error"}
Verdicts == NothingWritten \cup {"none", "partial", "complete"}

Docs == [target : Names, raw : Texts]
Files == [path : Paths, name : Names, inode : Inodes, raw : Texts]
CallRecord ==
    [pc : Places, server : Servers \cup {None}, kind : Kinds,
     todo : Seq(Paths), single : BOOLEAN, doc : Docs \cup {None},
     seen : SUBSET Inodes, total : Nat, plan : SUBSET Files, replaced : Nat,
     written : Nat, failed : BOOLEAN, verdict : Verdicts]

First(plan) ==
    CHOOSE file \in plan : \A other \in plan : file.inode <= other.inode

(* The matches that a plan still has to write, counted as a set of pairs.  *)
Pairs(plan) == {p \in plan \X (1..MaxMatches) : p[2] <= p[1].raw.matches}
Weight(plan) == Cardinality(Pairs(plan))

(* What is true of one call by itself: the budget of its plan, and the     *)
(* text in its hands, which from the comparison on is the one it analysed. *)
Budgeted(cl) ==
    /\ IsFiniteSet(cl.plan)
    /\ cl.pc \in FirstPlaces =>
          /\ cl.written = 0 /\ Weight(cl.plan) <= cl.total
          /\ \A file \in cl.plan : file.inode \in cl.seen
    /\ cl.pc \notin FirstPlaces => cl.written + Weight(cl.plan) <= Cap(cl)
Holding(cl) ==
    /\ cl.pc \in WithText => cl.doc \in Docs
    /\ cl.pc \in {"compare", "rename"} => cl.doc.raw = First(cl.plan).raw
    /\ cl.pc \in Inside => cl.plan # {}
    /\ cl.pc = "identify" => cl.todo # <<>>
    /\ cl.verdict # "none" => cl.pc = "done"
CallOK(cl) == cl \in CallRecord /\ Budgeted(cl) /\ Holding(cl)

(* The locks that a call holds are a matter of where it is.                *)
NameMutex(cl) == <<"mutex", cl.server, First(cl.plan).name>>
NameLock(cl) == FileLock(First(cl.plan).name)
TargetMutex(cl) == <<"mutex", cl.server, First(cl.plan).inode>>
TargetLock(cl) == FileLock(First(cl.plan).inode)
LocksOf(cl) ==
    {lock \in {NameMutex(cl)} : cl.pc \in Inside}
    \cup {lock \in {NameLock(cl)} : cl.pc \in Inside \ {"name_file"}}
    \cup {lock \in {TargetMutex(cl)} :
             cl.pc \in Inside \ {"name_file", "target"}}
    \cup {lock \in {TargetLock(cl)} :
             cl.pc \in Inside \ {"name_file", "target", "target_file"}}

Silent(cl) == cl.pc \in FirstPlaces \/ cl.verdict \in NothingWritten

FilesOK == /\ directory \in [Names -> Inodes \cup {None}]
           /\ alias \in Names /\ data \in [Inodes -> Texts] /\ trouble \in Nat
CallsOK == /\ DOMAIN call = Calls /\ call = [c \in Calls |-> call[c]]
           /\ \A c \in Calls : CallOK(call[c])
LocksHeld == held = [c \in Calls |-> LocksOf(call[c])]
NoneShared == \A c, d \in Calls : c # d => held[c] \cap held[d] = {}
(* A call that wrote nothing has left no mark, in a file or in a text that *)
(* another call is about to write.                                         *)
NoMarks ==
    \A c \in Calls : Silent(call[c]) =>
       /\ \A i \in Inodes : c \notin Range(data[i].marks)
       /\ \A d \in Calls : call[d].pc \in WithText =>
             c \notin Range(call[d].doc.raw.marks)

IInv == FilesOK /\ CallsOK /\ LocksHeld /\ NoneShared /\ NoMarks
-----------------------------------------------------------------------------
(* Constants and operators                                                 *)

LEMMA Constants ==
    /\ Cardinality(Names) \in Nat /\ MaxMatches \in Nat
    /\ \A cl \in CallRecord : Cap(cl) \in Nat
<1>1. Cardinality(Names) \in Nat
  BY FS_CardinalityType
<1>2. MaxMatches \in Nat
  BY DEF MaxMatches
<1>. QED  BY <1>1, <1>2 DEF Cap, MaxMatches

(* In a set of files there is a first one.                                 *)
LEMMA FirstIsThere ==
    ASSUME NEW plan \in SUBSET Files, plan # {}
    PROVE  First(plan) \in plan
<1> DEFINE T == {file.inode : file \in plan}
<1>1. T \in SUBSET Nat /\ T # {}
  BY DEF Files
<1>2. PICK x \in T : \A y \in T : x <= y
  <2> DEFINE Less == {pair \in Nat \X Nat : pair[1] < pair[2]}
  <2>1. IsWellFoundedOn(Less, Nat)
    BY NatLessThanWellFounded DEF OpToRel
  <2>2. PICK x \in T : \A y \in T : ~(<<y, x>> \in Less)
    BY <1>1, <2>1, WFMin
  <2>3. \A y \in T : y < x => <<y, x>> \in Less
    BY <1>1
  <2>4. \A y \in T : x <= y
    <3> TAKE y \in T
    <3>1. x \in Nat /\ y \in Nat
      BY <1>1, <2>2
    <3>2. ~(y < x)
      BY Zenon, <2>2, <2>3
    <3>. QED  BY <3>1, <3>2
  <2>. QED  BY <2>4
<1>4. PICK file \in plan : file.inode = x
  BY <1>2
<1>5. \A other \in plan : file.inode <= other.inode
  BY <1>2, <1>4
<1>. QED  BY <1>4, <1>5 DEF First

(* A plan's weight is the sum of the matches of its files.                 *)
LEMMA PairsOfOne ==
    ASSUME NEW file \in Files
    PROVE  /\ IsFiniteSet(Pairs({file}))
           /\ Cardinality(Pairs({file})) = file.raw.matches
<1> DEFINE m == file.raw.matches
<1>1. m \in 0..MaxMatches
  BY DEF Files, Texts
<1>2. Pairs({file}) = {file} \X (1..m)
  BY <1>1 DEF Pairs, MaxMatches
<1>3. IsFiniteSet({file}) /\ Cardinality({file}) = 1
  BY FS_Singleton
<1>4. IsFiniteSet(1..m) /\ Cardinality(1..m) = m
  BY <1>1, FS_Interval DEF MaxMatches
<1>5. /\ IsFiniteSet({file} \X (1..m))
      /\ Cardinality({file} \X (1..m)) = 1 * m
  <2> DEFINE S == {file}
             T == 1..m
  <2>1. /\ IsFiniteSet(S) /\ Cardinality(S) = 1
        /\ IsFiniteSet(T) /\ Cardinality(T) = m
    BY <1>3, <1>4
  <2> HIDE DEF S, T, m
  <2>2. /\ IsFiniteSet(S \X T)
        /\ Cardinality(S \X T) = Cardinality(S) * Cardinality(T)
    BY <2>1, FS_Product
  <2>. QED  BY <2>1, <2>2 DEF S, T
<1>6. 1 * m = m
  <2> HIDE DEF m
  <2>. QED  BY <1>1, Constants
<1>. QED  BY <1>2, <1>5, <1>6

LEMMA WeightType ==
    ASSUME NEW plan \in SUBSET Files, IsFiniteSet(plan)
    PROVE  IsFiniteSet(Pairs(plan)) /\ Weight(plan) \in Nat
<1>1. IsFiniteSet(1..MaxMatches)
  BY Constants, FS_Interval
<1>2. IsFiniteSet(plan \X (1..MaxMatches))
  BY <1>1, FS_Product
<1>3. Pairs(plan) \in SUBSET (plan \X (1..MaxMatches))
  BY DEF Pairs
<1>4. IsFiniteSet(Pairs(plan))
  BY <1>2, <1>3, FS_Subset
<1>. QED  BY <1>4, FS_CardinalityType DEF Weight

LEMMA WeightOfNone == Weight({}) = 0
<1>1. Pairs({}) = {}
  BY DEF Pairs
<1>. QED  BY <1>1, FS_EmptySet DEF Weight

LEMMA WeightAdd ==
    ASSUME NEW plan \in SUBSET Files, IsFiniteSet(plan),
           NEW file \in Files, file \notin plan
    PROVE  Weight(plan \cup {file}) = Weight(plan) + file.raw.matches
<1>1. Pairs(plan \cup {file}) = Pairs(plan) \cup Pairs({file})
  BY DEF Pairs
<1>2. Pairs(plan) \cap Pairs({file}) = {}
  BY DEF Pairs
<1>3. /\ IsFiniteSet(Pairs(plan)) /\ Weight(plan) \in Nat
      /\ IsFiniteSet(Pairs({file}))
      /\ Cardinality(Pairs({file})) = file.raw.matches
  BY WeightType, PairsOfOne
<1>4. Cardinality(Pairs(plan) \cup Pairs({file})) =
         Cardinality(Pairs(plan)) + Cardinality(Pairs({file}))
         - Cardinality(Pairs(plan) \cap Pairs({file}))
  BY <1>3, FS_Union
<1>5. Cardinality(Pairs(plan) \cap Pairs({file})) = 0
  BY <1>2, FS_EmptySet
<1>6. file.raw.matches \in Nat
  BY DEF Files, Texts
<1>7. Weight(plan \cup {file}) = Weight(plan) + file.raw.matches - 0
  BY <1>1, <1>3, <1>4, <1>5 DEF Weight
<1>. QED  BY <1>3, <1>6, <1>7

LEMMA WeightRemove ==
    ASSUME NEW plan \in SUBSET Files, IsFiniteSet(plan), NEW file \in plan
    PROVE  /\ IsFiniteSet(plan \ {file})
           /\ Weight(plan) = Weight(plan \ {file}) + file.raw.matches
<1>1. IsFiniteSet(plan \ {file})
  BY FS_RemoveElement
<1>2. (plan \ {file}) \cup {file} = plan
  OBVIOUS
<1>3. Weight((plan \ {file}) \cup {file})
         = Weight(plan \ {file}) + file.raw.matches
  BY <1>1, WeightAdd
<1>. QED  BY <1>1, <1>2, <1>3

LEMMA FreshIsThere ==
    ASSUME FilesOK
    PROVE  FreshInode \in Inodes /\ FreshInode \notin Used
<1> DEFINE n == Cardinality(Names)
           name == [i \in 1..(n+1) |-> CHOOSE m \in Names : directory[m] = i]
<1>1. n \in Nat
  BY Constants
<1>2. Inodes \ Used # {}
  <2> SUFFICES ASSUME Inodes \ Used = {} PROVE FALSE
    OBVIOUS
  <2>1. \A i \in 1..(n+1) : \E m \in Names : directory[m] = i
    BY DEF Used
  <2>2. \A i \in 1..(n+1) : name[i] \in Names /\ directory[name[i]] = i
    BY <2>1
  <2>3. name \in Injection(1..(n+1), Names)
    BY <2>2 DEF Injection, IsInjective
  <2>4. Cardinality(1..(n+1)) <= n
    <3> HIDE DEF name
    <3>. QED  BY <2>3, FS_Injection
  <2>5. Cardinality(1..(n+1)) = n+1
    BY <1>1, FS_Interval
  <2>. QED  BY <1>1, <2>4, <2>5
<1> DEFINE T == Inodes \ Used
<1>3. PICK x \in T : \A y \in T : x <= y
  <2> DEFINE Less == {pair \in Nat \X Nat : pair[1] < pair[2]}
  <2>1. IsWellFoundedOn(Less, Nat)
    BY NatLessThanWellFounded DEF OpToRel
  <2>2. PICK x \in T : \A y \in T : ~(<<y, x>> \in Less)
    BY <1>2, <2>1, WFMin
  <2>3. \A y \in T : y < x => <<y, x>> \in Less
    OBVIOUS
  <2>4. \A y \in T : x <= y
    <3> TAKE y \in T
    <3>1. x \in Nat /\ y \in Nat
      BY <2>2
    <3>2. ~(y < x)
      BY Zenon, <2>2, <2>3
    <3>. QED  BY <3>1, <3>2
  <2>. QED  BY <2>4
<1>. QED  BY <1>3 DEF FreshInode
-----------------------------------------------------------------------------
(* What a step does to its own call keeps that call in order.              *)

LEMMA IdleOK == CallOK(IdleCall) /\ Silent(IdleCall)
<1>1. <<>> \in Seq(Paths) /\ {} \in SUBSET Inodes /\ {} \in SUBSET Files
      /\ 0 \in Nat
  OBVIOUS
<1>2. IdleCall \in CallRecord
  BY ZenonT(40), <1>1 DEF IdleCall, CallRecord, Places, FirstPlaces, Kinds,
       Verdicts
<1>3. IsFiniteSet({}) /\ Weight({}) = 0
  BY FS_EmptySet, WeightOfNone
<1>. QED  BY <1>2, <1>3 DEF CallOK, Budgeted, Holding, Silent, IdleCall,
            FirstPlaces, WithText, Inside

LEMMA StartsOK ==
    ASSUME NEW k \in Kinds, NEW p \in Servers, NEW b \in BOOLEAN,
           NEW t \in Seq(Paths), NEW s,
           s = [IdleCall EXCEPT !.pc = "open", !.kind = k, !.server = p,
                   !.single = b, !.todo = t]
    PROVE  CallOK(s)
<1>1. IdleCall \in CallRecord /\ IsFiniteSet({}) /\ Weight({}) = 0
  BY IdleOK, FS_EmptySet, WeightOfNone DEF CallOK
<1>2. s \in CallRecord
  BY ZenonT(40), <1>1 DEF CallRecord, Places, FirstPlaces
<1>. QED  BY <1>1, <1>2 DEF CallOK, Budgeted, Holding, IdleCall,
            FirstPlaces, WithText, Inside

LEMMA OpensOK ==
    ASSUME NEW cl, CallOK(cl), cl.pc = "open", cl.todo # <<>>,
           NEW doc \in Docs,
           NEW s, s = [cl EXCEPT !.pc = "identify", !.doc = doc]
    PROVE  CallOK(s)
<1>1. cl \in CallRecord
  BY DEF CallOK
<1>2. s \in CallRecord
  BY ZenonT(40), <1>1 DEF CallRecord, Places, FirstPlaces
<1>. QED  BY <1>1, <1>2 DEF CallOK, CallRecord, Budgeted, Holding,
            FirstPlaces, WithText, Inside, Cap

LEMMA TailType ==
    ASSUME NEW t \in Seq(Paths), t # <<>>
    PROVE  Tail(t) \in Seq(Paths) /\ Head(t) \in Paths
OBVIOUS

LEMMA EndsOK ==
    ASSUME NEW cl, CallOK(cl), NEW v \in Verdicts, v # "none",
           cl.written <= Cap(cl)
    PROVE  CallOK(Ended(cl, v))
<1> DEFINE s == Ended(cl, v)
<1>1. IdleCall \in CallRecord /\ cl \in CallRecord
  BY IdleOK DEF CallOK
<1>2. cl.kind \in Kinds /\ cl.replaced \in Nat /\ cl.written \in Nat
  BY <1>1 DEF CallRecord
<1>3. s \in CallRecord
  BY ZenonT(40), <1>1, <1>2 DEF CallRecord, Ended, Places
<1>4. IsFiniteSet({}) /\ Weight({}) = 0
  BY FS_EmptySet, WeightOfNone
<1>5. /\ s.pc = "done" /\ s.plan = {} /\ s.written = cl.written
      /\ s.kind = cl.kind
  BY <1>1 DEF Ended, IdleCall
<1>6. Cap(s) = Cap(cl)
  BY <1>5 DEF Cap
<1>. QED
  <2> HIDE DEF s
  <2>1. Budgeted(s)
    BY <1>2, <1>4, <1>5, <1>6 DEF Budgeted, FirstPlaces
  <2>2. Holding(s)
    BY <1>5 DEF Holding, WithText, Inside
  <2>3. CallOK(s)
    BY <1>3, <2>1, <2>2 DEF CallOK
  <2>. QED  BY <2>3 DEF s

LEMMA EndsEarlyOK ==
    ASSUME NEW cl, CallOK(cl), cl.pc \in FirstPlaces,
           NEW v \in Verdicts, v # "none"
    PROVE  CallOK(Ended(cl, v))
<1>1. cl.written = 0 /\ cl \in CallRecord
  BY DEF CallOK, Budgeted
<1>2. Cap(cl) \in Nat
  BY <1>1, Constants
<1>. QED  BY <1>1, <1>2, EndsOK

LEMMA PassesOK ==
    ASSUME NEW cl, CallOK(cl), cl.pc \in {"open", "identify"},
           cl.todo # <<>>, NEW b \in BOOLEAN,
           NEW s, s = [cl EXCEPT !.pc = "open", !.todo = Tail(@),
                          !.failed = b, !.doc = None]
    PROVE  CallOK(s)
<1>1. cl \in CallRecord
  BY DEF CallOK
<1>2. Tail(cl.todo) \in Seq(Paths)
  BY <1>1, TailType DEF CallRecord
<1>3. s \in CallRecord
  BY ZenonT(40), <1>1, <1>2 DEF CallRecord, Places, FirstPlaces
<1>. QED  BY <1>1, <1>3 DEF CallOK, CallRecord, Budgeted, Holding,
            FirstPlaces, WithText, Inside, Cap

LEMMA PassedOK ==
    ASSUME NEW cl, CallOK(cl), cl.pc \in {"open", "identify"}, cl.todo # <<>>
    PROVE  CallOK(Passed(cl)) /\ Passed(cl).pc = "open"
<1>1. cl \in CallRecord
  BY DEF CallOK
<1>2. Passed(cl) = [cl EXCEPT !.pc = "open", !.todo = Tail(@),
                       !.failed = cl.failed, !.doc = None]
  BY <1>1 DEF Passed, CallRecord
<1>3. cl.failed \in BOOLEAN
  BY <1>1 DEF CallRecord
<1>4. Passed(cl).pc = "open"
  BY <1>1 DEF Passed, CallRecord
<1>. QED  BY <1>2, <1>3, <1>4, PassesOK

LEMMA RejectedOK ==
    ASSUME NEW cl, CallOK(cl), cl.pc \in {"open", "identify"}, cl.todo # <<>>
    PROVE  CallOK(Rejected(cl)) /\ Rejected(cl).pc \in {"open", "done"}
<1>1. cl \in CallRecord
  BY DEF CallOK
<1>2. CASE cl.single
  <2>1. Rejected(cl) = Ended(cl, "error")
    BY <1>2 DEF Rejected
  <2>2. Ended(cl, "error").pc = "done"
    BY DEF Ended, IdleCall
  <2>. QED  BY <2>1, <2>2, EndsEarlyOK
              DEF FirstPlaces, Verdicts, NothingWritten
<1>3. CASE ~cl.single
  <2>1. Rejected(cl) = [cl EXCEPT !.pc = "open", !.todo = Tail(@),
                           !.failed = TRUE, !.doc = None]
    BY <1>3 DEF Rejected
  <2>2. Rejected(cl).pc = "open"
    BY <1>1, <2>1 DEF CallRecord
  <2>. QED  BY <2>1, <2>2, PassesOK
<1>. QED  BY <1>2, <1>3

(* The matches of a file count, whether or not it can be replaced,         *)
LEMMA CountsOK ==
    ASSUME NEW cl, CallOK(cl), cl.pc = "identify",
           NEW i \in Inodes, NEW k \in Nat,
           NEW s, s = [cl EXCEPT !.seen = @ \cup {i}, !.total = @ + k]
    PROVE  CallOK(s) /\ s.pc = "identify" /\ s.todo # <<>>
<1>1. cl \in CallRecord
  BY DEF CallOK
<1>2. cl.seen \cup {i} \in SUBSET Inodes /\ cl.total + k \in Nat
  BY <1>1 DEF CallRecord
<1>3. s \in CallRecord
  BY ZenonT(40), <1>1, <1>2 DEF CallRecord
<1>4. /\ s.pc = cl.pc /\ s.written = cl.written /\ s.plan = cl.plan
      /\ s.total = cl.total + k /\ s.seen = cl.seen \cup {i}
      /\ s.todo = cl.todo /\ s.doc = cl.doc /\ s.verdict = cl.verdict
  BY <1>1 DEF CallRecord
<1>5. Weight(cl.plan) \in Nat /\ cl.total \in Nat
  BY <1>1, WeightType DEF CallOK, Budgeted, CallRecord
<1>6. Budgeted(s)
  BY <1>4, <1>5 DEF CallOK, Budgeted, FirstPlaces
<1>7. Holding(s)
  BY <1>4 DEF CallOK, Holding, WithText, Inside
<1>. QED  BY <1>3, <1>4, <1>6, <1>7 DEF CallOK, Holding

(* and a file that can is planned.                                         *)
LEMMA PlansOK ==
    ASSUME NEW cl, CallOK(cl), cl.pc = "identify",
           NEW file \in Files, file.inode \notin cl.seen,
           NEW s, s = [cl EXCEPT !.seen = @ \cup {file.inode},
                          !.total = @ + file.raw.matches,
                          !.plan = @ \cup {file}]
    PROVE  CallOK(s) /\ s.pc = "identify" /\ s.todo # <<>>
<1>1. cl \in CallRecord /\ IsFiniteSet(cl.plan)
  BY DEF CallOK, Budgeted
<1>2. file.inode \in Inodes /\ file.raw.matches \in Nat
  BY DEF Files, Texts
<1>3. /\ cl.seen \cup {file.inode} \in SUBSET Inodes
      /\ cl.total + file.raw.matches \in Nat
      /\ cl.plan \cup {file} \in SUBSET Files
  BY <1>1, <1>2 DEF CallRecord
<1>4. s \in CallRecord
  BY ZenonT(40), <1>1, <1>3 DEF CallRecord
<1>5. /\ s.pc = cl.pc /\ s.written = cl.written
      /\ s.plan = cl.plan \cup {file} /\ s.todo = cl.todo
      /\ s.total = cl.total + file.raw.matches /\ s.doc = cl.doc
      /\ s.seen = cl.seen \cup {file.inode} /\ s.verdict = cl.verdict
  BY <1>1 DEF CallRecord
<1>6. file \notin cl.plan
  BY DEF CallOK, Budgeted, FirstPlaces
<1>7. /\ IsFiniteSet(cl.plan \cup {file}) /\ cl.plan \in SUBSET Files
      /\ Weight(cl.plan \cup {file}) = Weight(cl.plan) + file.raw.matches
      /\ Weight(cl.plan) \in Nat /\ cl.total \in Nat
  BY <1>1, <1>6, FS_AddElement, WeightAdd, WeightType DEF CallRecord
<1>8. Budgeted(s)
  BY <1>2, <1>5, <1>7 DEF CallOK, Budgeted, FirstPlaces
<1>9. Holding(s)
  BY <1>5 DEF CallOK, Holding, WithText, Inside
<1>. QED  BY <1>4, <1>5, <1>8, <1>9 DEF CallOK, Holding

LEMMA SecondPassOK ==
    ASSUME NEW cl, CallOK(cl), cl.pc = "open", cl.total <= Cap(cl)
    PROVE  CallOK(SecondPassOf(cl)) /\ SecondPassOf(cl).pc = "next"
<1> DEFINE s == SecondPassOf(cl)
<1>1. cl \in CallRecord /\ IsFiniteSet(cl.plan)
  BY DEF CallOK, Budgeted
<1>2. {} \in SUBSET Inodes /\ 0 \in Nat
  OBVIOUS
<1>3. s \in CallRecord
  BY ZenonT(40), <1>1, <1>2 DEF CallRecord, SecondPassOf, Places
<1>4. /\ s.pc = "next" /\ s.written = cl.written /\ s.plan = cl.plan
      /\ s.verdict = cl.verdict /\ s.kind = cl.kind
  BY <1>1 DEF CallRecord, SecondPassOf
<1>5. /\ Weight(cl.plan) \in Nat /\ cl.total \in Nat /\ Cap(cl) \in Nat
      /\ Cap(s) = Cap(cl)
  BY <1>1, <1>4, WeightType, Constants DEF CallRecord, Cap
<1>6. cl.written = 0 /\ Weight(cl.plan) <= cl.total
  BY DEF CallOK, Budgeted, FirstPlaces
<1>. QED
  <2> HIDE DEF s
  <2>1. Budgeted(s)
    BY <1>1, <1>4, <1>5, <1>6 DEF Budgeted, FirstPlaces
  <2>2. Holding(s)
    BY <1>4 DEF CallOK, Holding, WithText, Inside
  <2>3. CallOK(s)
    BY <1>3, <2>1, <2>2 DEF CallOK
  <2>. QED  BY <1>4, <2>3 DEF s

(* In the second pass a call moves from lock to lock,                      *)
LEMMA MovesOn ==
    ASSUME NEW cl, CallOK(cl), cl.pc \in Inside \cup {"next"},
           cl.plan # {},
           NEW p \in Inside \ {"check"},
           p = "compare" => cl.pc = "check" /\ cl.doc.raw = First(cl.plan).raw,
           p = "rename" => cl.pc = "compare",
           NEW s, s = [cl EXCEPT !.pc = p]
    PROVE  CallOK(s)
<1>1. cl \in CallRecord
  BY DEF CallOK
<1>2. p \in Places
  BY DEF Places
<1>3. s \in CallRecord
  BY ZenonT(40), <1>1, <1>2 DEF CallRecord
<1>4. /\ s.pc = p /\ s.written = cl.written /\ s.plan = cl.plan
      /\ s.verdict = cl.verdict /\ s.kind = cl.kind /\ s.doc = cl.doc
  BY <1>1 DEF CallRecord
<1>5. Cap(s) = Cap(cl)
  BY <1>4 DEF Cap
<1>6. Budgeted(s)
  BY <1>4, <1>5 DEF CallOK, Budgeted, FirstPlaces, Inside
<1>7. Holding(s)
  BY <1>4 DEF CallOK, Holding, WithText, Inside
<1>. QED  BY <1>3, <1>6, <1>7 DEF CallOK

(* opens a file again,                                                     *)
LEMMA ReopensOK ==
    ASSUME NEW cl, CallOK(cl), cl.pc = "reopen", NEW doc \in Docs,
           NEW s, s = [cl EXCEPT !.pc = "check", !.doc = doc]
    PROVE  CallOK(s)
<1>1. cl \in CallRecord
  BY DEF CallOK
<1>2. s \in CallRecord
  BY ZenonT(40), <1>1 DEF CallRecord, Places, Inside
<1>3. /\ s.pc = "check" /\ s.written = cl.written /\ s.plan = cl.plan
      /\ s.verdict = cl.verdict /\ s.kind = cl.kind /\ s.doc = doc
  BY <1>1 DEF CallRecord
<1>4. Cap(s) = Cap(cl)
  BY <1>3 DEF Cap
<1>5. Budgeted(s)
  BY <1>3, <1>4 DEF CallOK, Budgeted, FirstPlaces
<1>6. Holding(s)
  BY <1>3 DEF CallOK, Holding, WithText, Inside
<1>. QED  BY <1>2, <1>5, <1>6 DEF CallOK

(* and is done with a file, which it wrote or not.                         *)
LEMMA FileDone ==
    ASSUME NEW cl, CallOK(cl), cl.pc \in Inside,
           NEW s \in CallRecord, s.pc = "next", s.kind = cl.kind,
           s.verdict = cl.verdict, s.plan = cl.plan \ {First(cl.plan)},
           s.written <= cl.written + First(cl.plan).raw.matches
    PROVE  CallOK(s)
<1>1. cl \in CallRecord /\ IsFiniteSet(cl.plan) /\ cl.plan # {}
  BY DEF CallOK, Budgeted, Holding
<1>2. cl.plan \in SUBSET Files
  BY <1>1 DEF CallRecord
<1>3. First(cl.plan) \in cl.plan
  BY <1>1, <1>2, FirstIsThere
<1> DEFINE rest == cl.plan \ {First(cl.plan)}
<1>4. /\ rest \in SUBSET Files /\ IsFiniteSet(rest)
      /\ Weight(cl.plan) = Weight(rest) + First(cl.plan).raw.matches
      /\ Weight(rest) \in Nat
  BY <1>1, <1>2, <1>3, WeightRemove, WeightType
<1>5. First(cl.plan).raw.matches \in Nat
  BY <1>2, <1>3 DEF Files, Texts
<1>8. /\ Cap(s) = Cap(cl) /\ Cap(cl) \in Nat
      /\ cl.written \in Nat /\ s.written \in Nat
  BY <1>1, Constants DEF Cap, CallRecord
<1>9. cl.written + Weight(cl.plan) <= Cap(cl)
  BY DEF CallOK, Budgeted, FirstPlaces, Inside
<1>10. Budgeted(s)
  <2> HIDE DEF rest
  <2>1. s.written + Weight(rest) <= Cap(cl)
    BY <1>4, <1>5, <1>8, <1>9
  <2>2. s.plan = rest
    BY DEF rest
  <2>. QED  BY <1>4, <1>8, <2>1, <2>2 DEF Budgeted, FirstPlaces
<1>11. Holding(s)
  BY DEF CallOK, Holding, WithText, Inside
<1>. QED  BY <1>10, <1>11 DEF CallOK
-----------------------------------------------------------------------------
(* Every step of a call changes that call alone, keeps it in order, never  *)
(* makes it silent again, and gives it no text that is not in a file.      *)
Moves(c, s) ==
    /\ call' = [call EXCEPT ![c] = s] /\ CallOK(s)
    /\ Silent(s) => Silent(call[c])
    /\ s.pc \in WithText => \/ call[c].pc \in WithText /\ s.doc = call[c].doc
                            \/ \E i \in Inodes : s.doc.raw = data[i]

LEMMA DocumentType ==
    ASSUME FilesOK, NEW path \in Paths, CanOpen(path)
    PROVE  /\ Document(path) \in Docs
           /\ \E i \in Inodes : Document(path).raw = data[i]
<1>1. Resolve(path) \in Names
  BY DEF FilesOK, Resolve, Paths
<1>2. directory[Resolve(path)] \in Inodes
  BY <1>1 DEF FilesOK, CanOpen
<1>3. TextAt(Resolve(path)) = data[directory[Resolve(path)]]
  BY <1>2 DEF TextAt
<1>. QED  BY <1>1, <1>2, <1>3 DEF FilesOK, Document, Docs

LEMMA WalkType ==
    ASSUME NEW S \in SUBSET Paths
    PROVE  SetToSeq(S) \in Seq(Paths)
<1>1. IsFiniteSet(Paths)
  BY FS_AddElement DEF Paths
<1>2. IsFiniteSet(S)
  BY <1>1, FS_Subset
<1>3. Cardinality(S) \in Nat /\ ExistsBijection(1..Cardinality(S), S)
  BY <1>2, FS_CardinalityType
<1>4. \E f \in [1..Cardinality(S) -> S] : IsInjective(f)
  BY <1>3 DEF ExistsBijection, Bijection, Injection, IsInjective
<1>5. SetToSeq(S) \in [1..Cardinality(S) -> S]
  BY <1>4 DEF SetToSeq
<1>6. SetToSeq(S) \in [1..Cardinality(S) -> Paths]
  BY <1>5
<1>. QED  BY <1>3, <1>6

LEMMA StartMoves ==
    ASSUME FilesOK, CallsOK, NEW c \in Calls, Start(c)
    PROVE  \E s : Moves(c, s) /\ s.pc \notin Inside
<1>1. PICK path \in Paths \cup {None}, kind \in Kinds,
           server \in ServersOf(c) :
          /\ path # None => directory[Resolve(path)] # None
          /\ Become(c, [IdleCall EXCEPT !.pc = "open", !.kind = kind,
                !.server = server, !.single = path # None,
                !.todo = IF path # None THEN <<Resolve(path)>>
                         ELSE SetToSeq({p \in Paths :
                                          directory[Resolve(p)] # None})])
  BY DEF Start
<1> DEFINE todo == IF path # None THEN <<Resolve(path)>>
                   ELSE SetToSeq({p \in Paths :
                                    directory[Resolve(p)] # None})
           s == [IdleCall EXCEPT !.pc = "open", !.kind = kind,
                   !.server = server, !.single = path # None, !.todo = todo]
<1>2. todo \in Seq(Paths)
  <2>1. CASE path # None
    <3>1. Resolve(path) \in Paths
      BY <2>1 DEF FilesOK, Resolve, Paths
    <3>. QED  BY <2>1, <3>1
  <2>2. CASE path = None
    BY <2>2, WalkType
  <2>. QED  BY <2>1, <2>2
<1>3. server \in Servers
  OBVIOUS
<1>4. CallOK(s)
  <2> HIDE DEF todo
  <2>. QED  BY <1>2, <1>3, StartsOK
<1>5. s.pc = "open"
  BY DEF IdleCall
<1>6. Silent(call[c])
  BY DEF Start, At, Silent, FirstPlaces
<1>7. Moves(c, s)
  <2> HIDE DEF todo
  <2>. QED  BY <1>1, <1>4, <1>5, <1>6 DEF Become, Moves, WithText, todo
<1>. QED  BY <1>5, <1>7 DEF Inside

LEMMA OpenMoves ==
    ASSUME FilesOK, CallsOK, NEW c \in Calls,
           OpenCandidate(c) \/ CandidateSkipped(c)
    PROVE  \E s : Moves(c, s) /\ s.pc \notin Inside
<1> DEFINE cl == call[c]
<1>1. CallOK(cl) /\ cl \in CallRecord
  BY DEF CallsOK, CallOK
<1>2. cl.pc = "open" /\ cl.todo # <<>>
  BY DEF OpenCandidate, CandidateSkipped, At
<1>3. Silent(cl)
  BY <1>2 DEF Silent, FirstPlaces
<1>4. ASSUME NEW s, Become(c, s), CallOK(s), s.pc \in {"open", "done"}
      PROVE  \E t : Moves(c, t) /\ t.pc \notin Inside
  BY <1>3, <1>4 DEF Moves, Become, WithText, Inside
<1>5. CASE Become(c, Rejected(cl))
  BY <1>1, <1>2, <1>4, <1>5, RejectedOK
<1>6. CASE Become(c, Passed(cl))
  BY <1>1, <1>2, <1>4, <1>6, PassedOK
<1>7. CASE CanOpen(Head(cl.todo)) /\ OpenCandidate(c)
  <2> DEFINE doc == Document(Head(cl.todo))
             s == [cl EXCEPT !.pc = "identify", !.doc = doc]
  <2>1. Head(cl.todo) \in Paths
    BY <1>1, <1>2, TailType DEF CallRecord
  <2>2. doc \in Docs /\ \E i \in Inodes : doc.raw = data[i]
    BY <1>7, <2>1, DocumentType
  <2>3. call' = [call EXCEPT ![c] = s]
    BY <1>7 DEF OpenCandidate, Become
  <2> HIDE DEF doc
  <2>4. CallOK(s)
    BY <1>1, <1>2, <2>2, OpensOK
  <2>5. s.pc = "identify" /\ s.doc = doc
    BY <1>1 DEF CallRecord
  <2>6. Moves(c, s)
    BY <1>3, <2>2, <2>3, <2>4, <2>5 DEF Moves
  <2>. QED  BY <2>5, <2>6 DEF Inside
<1>. QED  BY <1>5, <1>6, <1>7 DEF OpenCandidate, CandidateSkipped

LEMMA IdentifyMoves ==
    ASSUME FilesOK, CallsOK, NEW c \in Calls, Identify(c) \/ Unreplaceable(c)
    PROVE  \E s : Moves(c, s) /\ s.pc \notin Inside
<1> DEFINE cl == call[c]
           inode == directory[cl.doc.target]
           matches == cl.doc.raw.matches
           counted == [cl EXCEPT !.seen = @ \cup {inode},
                                 !.total = @ + matches]
           file == [path |-> Head(cl.todo), name |-> cl.doc.target,
                    inode |-> inode, raw |-> cl.doc.raw]
           planned == [counted EXCEPT !.plan = @ \cup {file}]
<1>1. CallOK(cl) /\ cl \in CallRecord
  BY DEF CallsOK, CallOK
<1>2. cl.pc = "identify" /\ cl.todo # <<>>
  BY <1>1 DEF Identify, Unreplaceable, At, CallOK, Holding
<1>3. cl.doc \in Docs
  BY <1>1, <1>2 DEF CallOK, Holding, WithText
<1>4. inode \in Inodes \cup {None} /\ matches \in Nat
  BY <1>3 DEF Docs, Texts, FilesOK
<1>5. Silent(cl)
  BY <1>2 DEF Silent, FirstPlaces
<1>6. ASSUME NEW s, Become(c, s), CallOK(s), s.pc \in {"open", "done"}
      PROVE  \E t : Moves(c, t) /\ t.pc \notin Inside
  BY <1>5, <1>6 DEF Moves, Become, WithText, Inside
<1>7. CASE Become(c, Rejected(cl))
  BY <1>1, <1>2, <1>6, <1>7, RejectedOK
<1>8. CASE Become(c, Passed(cl))
  BY <1>1, <1>2, <1>6, <1>8, PassedOK
<1>9. CASE /\ inode # None
           /\ Become(c, Passed(counted)) \/ Become(c, Rejected(counted))
  <2>1. CallOK(counted) /\ counted.pc = "identify" /\ counted.todo # <<>>
    <3>1. inode \in Inodes
      BY <1>4, <1>9
    <3>2. counted = [cl EXCEPT !.seen = @ \cup {inode}, !.total = @ + matches]
      OBVIOUS
    <3> HIDE DEF inode, matches, counted, cl
    <3>. QED  BY <1>1, <1>2, <1>4, <3>1, <3>2, CountsOK
  <2> HIDE DEF counted
  <2>. QED  BY <1>6, <1>9, <2>1, PassedOK, RejectedOK
<1>10. CASE inode # None /\ inode \notin cl.seen /\ Become(c, Passed(planned))
  <2>1. Head(cl.todo) \in Paths
    BY <1>1, <1>2, TailType DEF CallRecord
  <2>2. file \in Files
    BY <1>3, <1>4, <1>10, <2>1 DEF Files, Docs
  <2>3. file.inode = inode /\ file.raw.matches = matches
    OBVIOUS
  <2>4. planned = [cl EXCEPT !.seen = @ \cup {file.inode},
                             !.total = @ + file.raw.matches,
                             !.plan = @ \cup {file}]
    <3> HIDE DEF file, inode, matches
    <3>. QED  BY <1>1, <2>3 DEF CallRecord
  <2>5. CallOK(planned) /\ planned.pc = "identify" /\ planned.todo # <<>>
    <3> HIDE DEF file, planned
    <3>. QED  BY <1>1, <1>2, <1>10, <2>2, <2>3, <2>4, PlansOK
  <2> HIDE DEF planned
  <2>. QED  BY <1>6, <1>10, <2>5, PassedOK
<1>. QED  BY <1>7, <1>8, <1>9, <1>10 DEF Identify, Unreplaceable

LEMMA DecideMoves ==
    ASSUME CallsOK, NEW c \in Calls, Decide(c)
    PROVE  \E s : Moves(c, s) /\ s.pc \notin Inside
<1> DEFINE cl == call[c]
<1>1. CallOK(cl) /\ cl \in CallRecord /\ cl.pc = "open"
  BY DEF CallsOK, CallOK, Decide, At
<1>2. Silent(cl)
  BY <1>1 DEF Silent, FirstPlaces
<1>3. Cap(cl) \in Nat /\ cl.total \in Nat
  BY <1>1, Constants DEF CallRecord
<1>4. ASSUME NEW s, Become(c, s), CallOK(s), s.pc \in {"next", "done"}
      PROVE  \E t : Moves(c, t) /\ t.pc \notin Inside
  BY <1>2, <1>4 DEF Moves, Become, WithText, Inside
<1>5. ASSUME NEW v \in {"refused", "preview"}, Become(c, Ended(cl, v))
      PROVE  \E t : Moves(c, t) /\ t.pc \notin Inside
  <2>1. CallOK(Ended(cl, v))
    BY <1>1, EndsEarlyOK DEF FirstPlaces, Verdicts, NothingWritten
  <2>2. Ended(cl, v).pc = "done"
    BY DEF Ended, IdleCall
  <2>. QED  BY <1>4, <1>5, <2>1, <2>2
<1>6. CASE cl.total <= Cap(cl) /\ Become(c, SecondPassOf(cl))
  BY <1>1, <1>4, <1>6, SecondPassOK
<1>. QED  BY <1>3, <1>5, <1>6 DEF Decide

(* The second pass: the call is over, or inside a file with its locks.     *)
LEMMA ReportMoves ==
    ASSUME CallsOK, NEW c \in Calls, Report(c)
    PROVE  \E s : Moves(c, s) /\ s.pc \notin Inside
<1> DEFINE cl == call[c]
           v == IF cl.failed THEN "partial" ELSE "complete"
           s == Ended(cl, v)
<1>1. CallOK(cl) /\ cl \in CallRecord /\ cl.pc = "next" /\ cl.plan = {}
  BY DEF CallsOK, CallOK, Report, At
<1>2. cl.written + 0 <= Cap(cl) /\ cl.written \in Nat
  BY <1>1, WeightOfNone DEF CallOK, Budgeted, FirstPlaces, CallRecord
<1>3. v \in Verdicts /\ v # "none" /\ v \notin NothingWritten
  BY DEF Verdicts, NothingWritten
<1>4. CallOK(s)
  <2> HIDE DEF v
  <2>. QED  BY <1>1, <1>2, <1>3, EndsOK
<1>5. s.pc = "done" /\ s.verdict = v
  BY DEF Ended, IdleCall
<1>6. ~Silent(s)
  <2> HIDE DEF s, v
  <2>. QED  BY <1>3, <1>5 DEF Silent, FirstPlaces
<1>7. call' = [call EXCEPT ![c] = s]
  BY DEF Report, Become
<1>. QED
  <2> HIDE DEF s
  <2>. QED  BY <1>4, <1>5, <1>6, <1>7 DEF Moves, WithText, Inside

LEMMA FailMoves ==
    ASSUME CallsOK, NEW c \in Calls, call[c].pc \in Inside, Fail(c)
    PROVE  \E s : Moves(c, s) /\ s.pc = "next"
<1> DEFINE cl == call[c]
           s == [cl EXCEPT !.pc = "next", !.plan = @ \ {First(cl.plan)},
                           !.doc = None, !.failed = TRUE]
<1>1. CallOK(cl) /\ cl \in CallRecord
  BY DEF CallsOK, CallOK
<1>2. cl.replaced \in Nat /\ cl.written \in Nat /\ cl.plan \in SUBSET Files
      /\ cl.plan # {}
  BY <1>1 DEF CallRecord, CallOK, Holding
<1>3. First(cl.plan).raw.matches \in Nat
  BY <1>2, FirstIsThere DEF Files, Texts
<1>4. s \in CallRecord
  <2>1. cl.plan \ {First(cl.plan)} \in SUBSET Files
    BY <1>2
  <2>. QED  BY ZenonT(40), <1>1, <2>1 DEF CallRecord, Places
<1>5. CallOK(s) /\ s.pc = "next"
  <2>1. /\ s.pc = "next" /\ s.kind = cl.kind /\ s.verdict = cl.verdict
        /\ s.plan = cl.plan \ {First(cl.plan)} /\ s.written = cl.written
    BY <1>1 DEF CallRecord
  <2>2. cl.written <= cl.written + First(cl.plan).raw.matches
    BY <1>2, <1>3
  <2> HIDE DEF s
  <2>. QED  BY <1>1, <1>4, <2>1, <2>2, FileDone
<1>6. ~Silent(s)
  <2>1. cl.verdict = "none"
    BY <1>1 DEF CallOK, Holding, Inside
  <2>2. s.verdict = "none"
    BY <1>1, <2>1 DEF CallRecord
  <2> HIDE DEF s
  <2>. QED  BY <1>5, <2>2 DEF Silent, FirstPlaces, NothingWritten
<1>7. call' = [call EXCEPT ![c] = s]
  BY DEF Fail, Become, This, First
<1>. QED
  <2> HIDE DEF s
  <2>. QED  BY <1>5, <1>6, <1>7 DEF Moves, WithText

LEMMA SucceedMoves ==
    ASSUME CallsOK, NEW c \in Calls, call[c].pc \in Inside, Succeed(c),
           call[c].doc.raw = This(c).raw
    PROVE  \E s : Moves(c, s) /\ s.pc = "next"
<1> DEFINE cl == call[c]
           s == [cl EXCEPT !.pc = "next", !.plan = @ \ {First(cl.plan)},
                           !.doc = None, !.replaced = @ + 1,
                           !.written = @ + cl.doc.raw.matches]
<1>1. CallOK(cl) /\ cl \in CallRecord
  BY DEF CallsOK, CallOK
<1>2. /\ cl.replaced \in Nat /\ cl.written \in Nat /\ cl.failed \in BOOLEAN
      /\ cl.plan \in SUBSET Files /\ cl.plan # {}
  BY <1>1 DEF CallRecord, CallOK, Holding
<1>3. First(cl.plan).raw.matches \in Nat
  BY <1>2, FirstIsThere DEF Files, Texts
<1>4. cl.doc.raw.matches = First(cl.plan).raw.matches
  BY DEF This, First
<1>5. s \in CallRecord
  <2>1. /\ cl.plan \ {First(cl.plan)} \in SUBSET Files
        /\ cl.replaced + 1 \in Nat
        /\ cl.written + cl.doc.raw.matches \in Nat
    BY <1>2, <1>3, <1>4
  <2>. QED  BY ZenonT(40), <1>1, <2>1 DEF CallRecord, Places
<1>6. CallOK(s) /\ s.pc = "next"
  <2>1. /\ s.pc = "next" /\ s.kind = cl.kind /\ s.verdict = cl.verdict
        /\ s.plan = cl.plan \ {First(cl.plan)}
        /\ s.written = cl.written + First(cl.plan).raw.matches
    BY <1>1, <1>4 DEF CallRecord
  <2>2. s.written <= cl.written + First(cl.plan).raw.matches
    BY <1>2, <1>3, <2>1
  <2> HIDE DEF s
  <2>. QED  BY <1>1, <1>5, <2>1, <2>2, FileDone
<1>7. ~Silent(s)
  <2>1. cl.verdict = "none"
    BY <1>1 DEF CallOK, Holding, Inside
  <2>2. s.verdict = "none"
    BY <1>1, <2>1 DEF CallRecord
  <2> HIDE DEF s
  <2>. QED  BY <1>6, <2>2 DEF Silent, FirstPlaces, NothingWritten
<1>8. call' = [call EXCEPT ![c] = s]
  BY DEF Succeed, Become, This, First
<1>. QED
  <2> HIDE DEF s
  <2>. QED  BY <1>6, <1>7, <1>8 DEF Moves, WithText

(* A call that stays inside a file, or enters it: only its place changes.  *)
LEMMA GoesMoves ==
    ASSUME CallsOK, NEW c \in Calls, call[c].pc \in Inside \cup {"next"},
           call[c].plan # {}, NEW p \in Inside \ {"check"}, Goto(c, p),
           p = "compare" => /\ call[c].pc = "check"
                            /\ call[c].doc.raw = This(c).raw,
           p = "rename" => call[c].pc = "compare",
           p \in {"compare", "rename"} \/ p \notin WithText
    PROVE  \E s : /\ Moves(c, s) /\ s.pc = p /\ s.plan = call[c].plan
                  /\ s.server = call[c].server
<1> DEFINE cl == call[c]
           s == [cl EXCEPT !.pc = p]
<1>1. CallOK(cl) /\ cl \in CallRecord
  BY DEF CallsOK, CallOK
<1>2. CallOK(s)
  BY <1>1, MovesOn DEF This, First
<1>3. /\ s.pc = p /\ s.plan = cl.plan /\ s.server = cl.server
      /\ s.doc = cl.doc /\ s.verdict = cl.verdict
  BY <1>1 DEF CallRecord
<1>4. ~Silent(s)
  <2>1. cl.verdict = "none"
    BY <1>1 DEF CallOK, Holding, Inside
  <2> HIDE DEF s
  <2>. QED  BY <1>3, <2>1 DEF Silent, FirstPlaces, NothingWritten, Inside
<1>5. call' = [call EXCEPT ![c] = s]
  BY DEF Goto, Become
<1>6. s.pc \in WithText => cl.pc \in WithText /\ s.doc = cl.doc
  BY <1>3 DEF WithText, Inside
<1>7. Moves(c, s)
  BY <1>2, <1>3, <1>4, <1>5, <1>6 DEF Moves
<1>. QED
  <2> HIDE DEF s
  <2>. QED  BY <1>3, <1>7

LEMMA ReopenMoves ==
    ASSUME FilesOK, CallsOK, NEW c \in Calls, Reopen(c),
           CanOpen(This(c).path)
    PROVE  \E s : /\ Moves(c, s) /\ s.pc = "check"
                  /\ s.plan = call[c].plan /\ s.server = call[c].server
<1> DEFINE cl == call[c]
           doc == Document(This(c).path)
           s == [cl EXCEPT !.pc = "check", !.doc = doc]
<1>1. CallOK(cl) /\ cl \in CallRecord /\ cl.pc = "reopen"
  BY DEF CallsOK, CallOK, Reopen, At
<1>2. This(c) \in cl.plan /\ cl.plan \in SUBSET Files
  BY <1>1, FirstIsThere DEF CallRecord, CallOK, Holding, Inside, This, First
<1>3. This(c).path \in Paths
  BY <1>2 DEF Files
<1>4. doc \in Docs /\ \E i \in Inodes : doc.raw = data[i]
  BY <1>3, DocumentType
<1>5. call' = [call EXCEPT ![c] = s]
  BY DEF Reopen, Become
<1> HIDE DEF doc
<1>6. CallOK(s)
  BY <1>1, <1>4, ReopensOK
<1>7. /\ s.pc = "check" /\ s.plan = cl.plan /\ s.server = cl.server
      /\ s.doc = doc /\ s.verdict = cl.verdict
  BY <1>1 DEF CallRecord
<1>8. ~Silent(s)
  <2>1. cl.verdict = "none"
    BY <1>1 DEF CallOK, Holding, Inside
  <2> HIDE DEF s
  <2>. QED  BY <1>7, <2>1 DEF Silent, FirstPlaces, NothingWritten, Inside
<1>. QED  BY <1>4, <1>5, <1>6, <1>7, <1>8 DEF Moves
-----------------------------------------------------------------------------
(* What a step does to the locks: it keeps those it has, drops them all,   *)
(* or takes one that nobody holds.                                         *)
LocksMove(c, s) ==
    \/ held' = held /\ LocksOf(s) = LocksOf(call[c])
    \/ held' = [held EXCEPT ![c] = {}] /\ LocksOf(s) = {}
    \/ \E lock : /\ held' = [held EXCEPT ![c] = @ \cup {lock}] /\ Free(lock)
                 /\ LocksOf(s) = LocksOf(call[c]) \cup {lock}

LEMMA NoLocksOutside ==
    ASSUME NEW cl, cl.pc \notin Inside
    PROVE  LocksOf(cl) = {}
BY DEF LocksOf

LEMMA LocksStep ==
    ASSUME CallsOK, LocksHeld, NoneShared, NEW c \in Calls, NEW s,
           Moves(c, s), LocksMove(c, s)
    PROVE  LocksHeld' /\ NoneShared'
<1>1. /\ DOMAIN call' = Calls /\ call' = [d \in Calls |-> call'[d]]
      /\ call'[c] = s /\ \A d \in Calls : d # c => call'[d] = call[d]
  BY DEF Moves, CallsOK
<1>2. \A d \in Calls : held[d] = LocksOf(call[d])
  BY DEF LocksHeld
<1>3. CASE held' = held /\ LocksOf(s) = LocksOf(call[c])
  <2>1. \A d \in Calls : LocksOf(call'[d]) = LocksOf(call[d])
    BY <1>1, <1>3
  <2>. QED  BY <1>3, <2>1 DEF LocksHeld, NoneShared
<1>4. CASE held' = [held EXCEPT ![c] = {}] /\ LocksOf(s) = {}
  <2>1. held' = [d \in Calls |-> LocksOf(call'[d])]
    BY <1>1, <1>2, <1>4 DEF LocksHeld
  <2>2. \A d \in Calls : held'[d] = {} \/ held'[d] = held[d]
    BY <1>4 DEF LocksHeld
  <2>3. NoneShared'
    BY <2>2 DEF NoneShared
  <2>. QED  BY <2>1, <2>3 DEF LocksHeld
<1>5. CASE \E lock : /\ held' = [held EXCEPT ![c] = @ \cup {lock}]
                     /\ Free(lock)
                     /\ LocksOf(s) = LocksOf(call[c]) \cup {lock}
  <2>1. PICK lock : /\ held' = [held EXCEPT ![c] = @ \cup {lock}]
                    /\ Free(lock)
                    /\ LocksOf(s) = LocksOf(call[c]) \cup {lock}
    BY <1>5
  <2>2. held' = [d \in Calls |-> LocksOf(call'[d])]
    BY <1>1, <1>2, <2>1 DEF LocksHeld
  <2>3. /\ held'[c] = held[c] \cup {lock}
        /\ \A d \in Calls : d # c => held'[d] = held[d]
    BY <2>1 DEF LocksHeld
  <2>4. \A d \in Calls : lock \notin held[d]
    BY <2>1 DEF Free
  <2>5. NoneShared'
    BY <2>3, <2>4 DEF NoneShared
  <2>. QED  BY <2>2, <2>5 DEF LocksHeld
<1>. QED  BY <1>3, <1>4, <1>5 DEF LocksMove

LEMMA StartLocks ==
    ASSUME FilesOK, CallsOK, NEW c \in Calls, Start(c) \/ FirstPass(c)
    PROVE  \E s : Moves(c, s) /\ LocksMove(c, s)
<1>1. held' = held /\ call[c].pc \notin Inside
  BY DEF Start, FirstPass, OpenCandidate, CandidateSkipped, Identify,
         Unreplaceable, Decide, At, Inside
<1>2. \E s : Moves(c, s) /\ s.pc \notin Inside
  BY StartMoves, OpenMoves, IdentifyMoves, DecideMoves DEF FirstPass
<1>3. \A s : s.pc \notin Inside => LocksOf(s) = LocksOf(call[c])
  BY <1>1, NoLocksOutside
<1>. QED  BY <1>1, <1>2, <1>3 DEF LocksMove

LEMMA ReleaseLocks ==
    ASSUME NEW c \in Calls, NEW s, s.pc = "next", Release(c)
    PROVE  LocksMove(c, s)
<1>1. LocksOf(s) = {}
  BY NoLocksOutside DEF Inside
<1>. QED  BY <1>1 DEF LocksMove, Release

LEMMA LockLocks ==
    ASSUME CallsOK, NEW c \in Calls,
           LockNameMutex(c) \/ LockNameFile(c) \/ LockTargetMutex(c)
              \/ LockTargetFile(c)
    PROVE  \E s : Moves(c, s) /\ LocksMove(c, s)
<1> DEFINE cl == call[c]
<1>1. CallOK(cl)
  BY DEF CallsOK
<1>2. ASSUME NEW p \in {"name_file", "target", "target_file", "reopen"},
             cl.pc \in Inside \cup {"next"}, cl.plan # {}, Goto(c, p)
      PROVE  \E s : /\ Moves(c, s) /\ s.pc = p /\ s.plan = cl.plan
                    /\ s.server = cl.server
  <2>1. /\ p \in Inside \ {"check"} /\ p # "compare" /\ p # "rename"
        /\ p \notin WithText
    BY DEF Inside, WithText
  <2>. QED  BY <1>2, <2>1, GoesMoves
<1>3. CASE LockNameMutex(c)
  <2>1. cl.pc = "next" /\ cl.plan # {} /\ Goto(c, "name_file")
    BY <1>3 DEF LockNameMutex, Lock, At
  <2>2. PICK s : /\ Moves(c, s) /\ s.pc = "name_file" /\ s.plan = cl.plan
                 /\ s.server = cl.server
    BY <1>2, <2>1
  <2>3. LocksOf(s) = LocksOf(cl) \cup {Mutex(c, This(c).name)}
    BY <2>1, <2>2 DEF LocksOf, Inside, NameMutex, Mutex, This, First
  <2>. QED  BY <1>3, <2>2, <2>3 DEF LocksMove, LockNameMutex, Lock
<1>4. CASE LockNameFile(c)
  <2>1. cl.pc = "name_file" /\ cl.plan # {} /\ Goto(c, "target")
    BY <1>1, <1>4 DEF LockNameFile, Lock, At, CallOK, Holding, Inside
  <2>2. PICK s : /\ Moves(c, s) /\ s.pc = "target" /\ s.plan = cl.plan
                 /\ s.server = cl.server
    BY <1>2, <2>1 DEF Inside
  <2>3. LocksOf(s) = LocksOf(cl) \cup {FileLock(This(c).name)}
    BY <2>1, <2>2 DEF LocksOf, Inside, NameMutex, NameLock, This, First
  <2>. QED  BY <1>4, <2>2, <2>3 DEF LocksMove, LockNameFile, Lock
<1>5. CASE LockTargetMutex(c)
  <2>1. cl.pc = "target" /\ cl.plan # {} /\ Goto(c, "target_file")
    BY <1>1, <1>5 DEF LockTargetMutex, Lock, At, CallOK, Holding, Inside
  <2>2. PICK s : /\ Moves(c, s) /\ s.pc = "target_file"
                 /\ s.plan = cl.plan /\ s.server = cl.server
    BY <1>2, <2>1 DEF Inside
  <2>3. LocksOf(s) = LocksOf(cl) \cup {Mutex(c, This(c).inode)}
    BY <2>1, <2>2 DEF LocksOf, Inside, NameMutex, NameLock, TargetMutex,
                      Mutex, This, First
  <2>. QED  BY <1>5, <2>2, <2>3 DEF LocksMove, LockTargetMutex, Lock
<1>6. CASE LockTargetFile(c)
  <2>1. cl.pc = "target_file" /\ cl.plan # {} /\ Goto(c, "reopen")
    BY <1>1, <1>6 DEF LockTargetFile, Lock, At, CallOK, Holding, Inside
  <2>2. PICK s : /\ Moves(c, s) /\ s.pc = "reopen" /\ s.plan = cl.plan
                 /\ s.server = cl.server
    BY <1>2, <2>1 DEF Inside
  <2>3. LocksOf(s) = LocksOf(cl) \cup {FileLock(This(c).inode)}
    BY <2>1, <2>2 DEF LocksOf, Inside, NameMutex, NameLock, TargetMutex,
                      TargetLock, This, First
  <2>. QED  BY <1>6, <2>2, <2>3 DEF LocksMove, LockTargetFile, Lock
<1>. QED  BY <1>3, <1>4, <1>5, <1>6

(* Inside a file, past the last lock, the locks stay as they are.          *)
LEMMA KeepsLocks ==
    ASSUME NEW c \in Calls, NEW s, UNCHANGED held,
           s.plan = call[c].plan, s.server = call[c].server,
           call[c].pc \in {"reopen", "check", "compare"},
           s.pc \in {"check", "compare", "rename"}
    PROVE  LocksMove(c, s)
<1>1. LocksOf(s) = LocksOf(call[c])
  BY DEF LocksOf, Inside, NameMutex, NameLock, TargetMutex, TargetLock
<1>. QED  BY <1>1 DEF LocksMove

LEMMA FailLocks ==
    ASSUME CallsOK, NEW c \in Calls, call[c].pc \in Inside, Fail(c)
    PROVE  \E s : Moves(c, s) /\ LocksMove(c, s)
BY FailMoves, ReleaseLocks DEF Fail

LEMMA SucceedLocks ==
    ASSUME CallsOK, NEW c \in Calls, call[c].pc \in Inside, Succeed(c),
           call[c].doc.raw = This(c).raw
    PROVE  \E s : Moves(c, s) /\ LocksMove(c, s)
BY SucceedMoves, ReleaseLocks DEF Succeed

LEMMA SecondPassLocks ==
    ASSUME FilesOK, CallsOK, NEW c \in Calls, SecondPass(c)
    PROVE  \E s : Moves(c, s) /\ LocksMove(c, s)
<1> DEFINE cl == call[c]
<1>1. CallOK(cl)
  BY DEF CallsOK
<1>2. CASE FileFails(c)
  BY <1>2, FailLocks DEF FileFails, Inside
<1>3. CASE Reopen(c)
  <2>1. cl.pc = "reopen"
    BY <1>3 DEF Reopen, At
  <2>2. CASE CanOpen(This(c).path)
    <3>1. PICK s : /\ Moves(c, s) /\ s.pc = "check" /\ s.plan = cl.plan
                   /\ s.server = cl.server
      BY <1>3, <2>2, ReopenMoves
    <3>2. UNCHANGED held
      BY <1>3, <2>2 DEF Reopen
    <3>. QED  BY <2>1, <3>1, <3>2, KeepsLocks
  <2>3. CASE ~CanOpen(This(c).path)
    BY <1>3, <2>1, <2>3, FailLocks DEF Reopen, Inside
  <2>. QED  BY <2>2, <2>3
<1>4. CASE Check(c)
  <2>1. cl.pc = "check" /\ cl.plan # {}
    BY <1>1, <1>4 DEF Check, At, CallOK, Holding, Inside
  <2>2. CASE ~Unchanged(c)
    BY <1>4, <2>1, <2>2, FailLocks DEF Check, Inside
  <2>3. CASE Unchanged(c) /\ cl.kind = "same"
    BY <1>4, <2>1, <2>3, SucceedLocks DEF Check, Unchanged, Inside
  <2>4. CASE Unchanged(c) /\ cl.kind # "same"
    <3>1. Goto(c, "compare") /\ UNCHANGED held /\ cl.doc.raw = This(c).raw
      BY <1>4, <2>4 DEF Check, Unchanged
    <3>2. PICK s : /\ Moves(c, s) /\ s.pc = "compare" /\ s.plan = cl.plan
                   /\ s.server = cl.server
      <4>1. /\ "compare" \in Inside \ {"check"} /\ "compare" # "rename"
            /\ cl.pc \in Inside \cup {"next"}
        BY <2>1 DEF Inside
      <4>. QED  BY <2>1, <3>1, <4>1, GoesMoves
    <3>. QED  BY <2>1, <3>1, <3>2, KeepsLocks
  <2>. QED  BY <2>2, <2>3, <2>4
<1>5. CASE Compare(c)
  <2>1. cl.pc = "compare" /\ cl.plan # {}
    BY <1>1, <1>5 DEF Compare, At, CallOK, Holding, Inside
  <2>2. CASE Fail(c)
    BY <2>1, <2>2, FailLocks DEF Inside
  <2>3. CASE Goto(c, "rename") /\ UNCHANGED held
    <3>1. PICK s : /\ Moves(c, s) /\ s.pc = "rename" /\ s.plan = cl.plan
                   /\ s.server = cl.server
      <4>1. /\ "rename" \in Inside \ {"check"} /\ "compare" # "rename"
            /\ cl.pc \in Inside \cup {"next"}
        BY <2>1 DEF Inside
      <4>. QED  BY <2>1, <2>3, <4>1, GoesMoves
    <3>. QED  BY <2>1, <2>3, <3>1, KeepsLocks
  <2>. QED  BY <1>5, <2>2, <2>3 DEF Compare
<1>6. CASE Rename(c)
  <2>1. cl.pc = "rename" /\ cl.doc.raw = This(c).raw /\ Succeed(c)
    BY <1>1, <1>6 DEF Rename, At, CallOK, Holding, This, First
  <2>. QED  BY <2>1, SucceedLocks DEF Inside
<1>7. CASE Report(c)
  <2>1. held' = held /\ cl.pc \notin Inside
    BY <1>7 DEF Report, At, Inside
  <2>2. PICK s : Moves(c, s) /\ s.pc \notin Inside
    BY <1>7, ReportMoves
  <2>. QED  BY <2>1, <2>2, NoLocksOutside DEF LocksMove
<1>. QED
  BY <1>2, <1>3, <1>4, <1>5, <1>6, <1>7, LockLocks DEF SecondPass
-----------------------------------------------------------------------------
(* What a step does to the files.                                          *)

LEMMA AppendType ==
    ASSUME NEW base \in Texts, NEW x \in Calls \cup {None},
           NEW k \in 0..MaxMatches
    PROVE  /\ [marks |-> Append(base.marks, x), matches |-> k] \in Texts
           /\ Range(Append(base.marks, x)) = Range(base.marks) \cup {x}
<1>1. base.marks \in Seq(Calls \cup {None})
  BY DEF Texts
<1> DEFINE m == base.marks
           n == Append(m, x)
<1>2. n \in Seq(Calls \cup {None})
  BY <1>1
<1>3. /\ Len(m) \in Nat /\ DOMAIN m = 1..Len(m)
      /\ DOMAIN n = 1..(Len(m) + 1) /\ n[Len(m) + 1] = x
      /\ \A i \in 1..Len(m) : n[i] = m[i]
  BY <1>1
<1>4. 1..(Len(m) + 1) = 1..Len(m) \cup {Len(m) + 1}
  BY <1>3
<1>5. Range(n) = Range(m) \cup {x}
  <2> HIDE DEF n, m
  <2>. QED  BY <1>3, <1>4 DEF Range
<1>. QED  BY <1>2, <1>5 DEF Texts

LEMMA RenameFiles ==
    ASSUME FilesOK, CallsOK, NEW c \in Calls, Rename(c)
    PROVE  /\ FilesOK'
           /\ \A i \in Inodes :
                 \/ data'[i] = data[i]
                 \/ Range(data'[i].marks) = Range(call[c].doc.raw.marks)
                                               \cup {c}
<1> DEFINE doc == call[c].doc
           fresh == FreshInode
           text == Edited(c, doc.raw)
<1>1. doc.target \in Names /\ doc.raw \in Texts
  BY DEF CallsOK, CallOK, Holding, Rename, At, WithText, Docs
<1>2. fresh \in Inodes
  BY FreshIsThere
<1>3. /\ text \in Texts
      /\ Range(text.marks) = Range(doc.raw.marks) \cup {c}
  <2>1. 0 \in 0..MaxMatches
    BY DEF MaxMatches
  <2> HIDE DEF doc
  <2>. QED  BY <1>1, <2>1, AppendType DEF Edited
<1>4. /\ data' = [data EXCEPT ![fresh] = text]
      /\ directory' = [directory EXCEPT ![doc.target] = fresh]
      /\ alias' = alias /\ trouble' = trouble
  BY DEF Rename
<1> HIDE DEF doc, fresh, text
<1>5. /\ FilesOK'
      /\ \A i \in Inodes : data'[i] = data[i] \/ data'[i] = text
  BY <1>1, <1>2, <1>3, <1>4 DEF FilesOK
<1>. QED  BY <1>3, <1>5 DEF doc

(* Others mark a text as theirs, and touch no call and no lock.            *)
LEMMA OthersFiles ==
    ASSUME FilesOK, OthersAct
    PROVE  /\ FilesOK' /\ UNCHANGED <<call, held>>
           /\ \A i \in Inodes : \E j \in Inodes :
                 \/ data'[i] = data[j]
                 \/ Range(data'[i].marks) = Range(data[j].marks) \cup {None}
<1>1. PICK n \in Names :
        \/ \E k \in 0..MaxMatches : SaveInPlace(n, k) \/ SaveByRename(n, k)
        \/ \E m \in Names : Move(n, m) \/ HardLink(n, m)
        \/ Retarget(n)
  BY DEF OthersAct
<1>2. UNCHANGED <<call, held>> /\ trouble' \in Nat
  BY <1>1 DEF SaveInPlace, SaveByRename, Move, HardLink, Retarget, Other,
              FilesOK
<1>3. ASSUME NEW k \in 0..MaxMatches, NEW i \in Inodes,
             directory[n] \in Inodes,
             data' = [data EXCEPT ![i] =
                [marks |-> Append(data[directory[n]].marks, None),
                 matches |-> k]]
      PROVE  /\ data' \in [Inodes -> Texts]
             /\ \A x \in Inodes : \E j \in Inodes :
                   \/ data'[x] = data[j]
                   \/ Range(data'[x].marks) = Range(data[j].marks) \cup {None}
  <2> DEFINE base == data[directory[n]]
             text == [marks |-> Append(base.marks, None), matches |-> k]
  <2>1. base \in Texts
    BY <1>3 DEF FilesOK
  <2>2. /\ text \in Texts
        /\ Range(text.marks) = Range(base.marks) \cup {None}
    <3> HIDE DEF base
    <3>. QED  BY <2>1, AppendType
  <2>3. data' = [data EXCEPT ![i] = text]
    BY <1>3
  <2>4. \A x \in Inodes : data'[x] = data[x] \/ data'[x] = text
    <3> HIDE DEF text
    <3>. QED  BY <2>3 DEF FilesOK
  <2>5. data' \in [Inodes -> Texts]
    <3> HIDE DEF text
    <3>. QED  BY <2>2, <2>3 DEF FilesOK
  <2>. QED
    <3> HIDE DEF text
    <3>. QED  BY <1>3, <2>2, <2>4, <2>5
<1>4. CASE \E k \in 0..MaxMatches : SaveInPlace(n, k)
  <2>1. PICK k \in 0..MaxMatches : SaveInPlace(n, k)
    BY <1>4
  <2>2. directory[n] \in Inodes
    BY <2>1 DEF SaveInPlace, FilesOK
  <2>3. data' = [data EXCEPT ![directory[n]] =
                    [marks |-> Append(data[directory[n]].marks, None),
                     matches |-> k]]
    BY <2>1, <2>2 DEF SaveInPlace, FilesOK
  <2>4. directory' = directory /\ alias' = alias
    BY <2>1 DEF SaveInPlace
  <2>. QED  BY <1>2, <1>3, <2>2, <2>3, <2>4 DEF FilesOK
<1>5. CASE \E k \in 0..MaxMatches : SaveByRename(n, k)
  <2>1. PICK k \in 0..MaxMatches : SaveByRename(n, k)
    BY <1>5
  <2>2. directory[n] \in Inodes
    BY <2>1 DEF SaveByRename, FilesOK
  <2>3. FreshInode \in Inodes
    BY FreshIsThere
  <2>4. /\ data' = [data EXCEPT ![FreshInode] =
                       [marks |-> Append(data[directory[n]].marks, None),
                        matches |-> k]]
        /\ directory' = [directory EXCEPT ![n] = FreshInode]
        /\ alias' = alias
    BY <2>1, <2>2 DEF SaveByRename, TextAt
  <2> DEFINE fresh == FreshInode
  <2> HIDE DEF fresh
  <2>5. directory' \in [Names -> Inodes \cup {None}] /\ alias' \in Names
    BY <2>3, <2>4 DEF FilesOK
  <2>. QED  BY <1>2, <1>3, <2>2, <2>3, <2>4, <2>5 DEF FilesOK
<1>6. CASE \E m \in Names : Move(n, m) \/ HardLink(n, m)
  <2>1. data' = data /\ alias' = alias
    BY <1>6 DEF Move, HardLink
  <2>2. directory' \in [Names -> Inodes \cup {None}]
    BY <1>6 DEF Move, HardLink, FilesOK
  <2>. QED  BY <1>2, <2>1, <2>2 DEF FilesOK
<1>7. CASE Retarget(n)
  BY <1>2, <1>7 DEF Retarget, FilesOK
<1>. QED  BY <1>1, <1>4, <1>5, <1>6, <1>7

(* Only the rename of a call changes the files.                            *)
LEMMA CallFiles ==
    ASSUME FilesOK, CallsOK, NEW c \in Calls,
           Start(c) \/ FirstPass(c) \/ SecondPass(c)
    PROVE  /\ FilesOK'
           /\ \/ data' = data
              \/ /\ call[c].pc = "rename"
                 /\ \A i \in Inodes :
                       \/ data'[i] = data[i]
                       \/ Range(data'[i].marks) =
                             Range(call[c].doc.raw.marks) \cup {c}
<1>1. CASE Rename(c)
  BY <1>1, RenameFiles DEF Rename, At
<1>2. CASE ~Rename(c)
  <2>1. CASE Start(c) \/ FirstPass(c)
    <3>1. UNCHANGED <<directory, alias, data>>
      BY <2>1 DEF Start, FirstPass, OpenCandidate, CandidateSkipped,
                  Identify, Unreplaceable, Decide
    <3>2. trouble' = trouble \/ trouble' = trouble + 1
      BY <2>1 DEF Start, FirstPass, OpenCandidate, CandidateSkipped,
                  Identify, Unreplaceable, Decide, Fault
    <3>. QED  BY <3>1, <3>2 DEF FilesOK
  <2>2. CASE LockNameMutex(c) \/ LockNameFile(c) \/ LockTargetMutex(c)
                \/ LockTargetFile(c)
    <3>1. UNCHANGED <<directory, alias, data, trouble>>
      BY <2>2 DEF LockNameMutex, LockNameFile, LockTargetMutex,
                  LockTargetFile, Lock
    <3>. QED  BY <3>1 DEF FilesOK
  <2>3. CASE FileFails(c) \/ Reopen(c) \/ Check(c) \/ Compare(c)
                \/ Report(c)
    <3>1. UNCHANGED <<directory, alias, data>>
      BY <2>3 DEF FileFails, Reopen, Check, Compare, Report
    <3>2. trouble' = trouble \/ trouble' = trouble + 1
      BY <2>3 DEF FileFails, Reopen, Check, Compare, Report, Fault
    <3>. QED  BY <3>1, <3>2 DEF FilesOK
  <2>. QED  BY <1>2, <2>1, <2>2, <2>3 DEF SecondPass
<1>. QED  BY <1>1, <1>2
-----------------------------------------------------------------------------
(* The invariant.                                                          *)

LEMMA MarksStay ==
    ASSUME CallsOK, NoMarks, NEW c \in Calls, NEW s, Moves(c, s),
           \/ data' = data
           \/ /\ call[c].pc = "rename"
              /\ \A i \in Inodes :
                    \/ data'[i] = data[i]
                    \/ Range(data'[i].marks) = Range(call[c].doc.raw.marks)
                                                  \cup {c}
    PROVE  NoMarks'
<1>1. call'[c] = s /\ \A d \in Calls : d # c => call'[d] = call[d]
  BY DEF Moves, CallsOK
<1>2. \A d \in Calls : Silent(call'[d]) => Silent(call[d])
  BY <1>1 DEF Moves
<1>3. ASSUME NEW d \in Calls, Silent(call'[d]), NEW i \in Inodes
      PROVE  d \notin Range(data'[i].marks)
  <2>1. Silent(call[d])
    BY <1>2, <1>3
  <2>2. d \notin Range(data[i].marks)
    BY <2>1 DEF NoMarks
  <2>3. CASE data'[i] = data[i]
    BY <2>2, <2>3
  <2>4. CASE /\ call[c].pc = "rename"
             /\ Range(data'[i].marks) = Range(call[c].doc.raw.marks) \cup {c}
    <3>1. call[c].verdict = "none"
      BY <2>4 DEF CallsOK, CallOK, Holding
    <3>2. ~Silent(call[c])
      BY <2>4, <3>1 DEF Silent, FirstPlaces, NothingWritten
    <3>3. d # c
      BY <2>1, <3>2
    <3>4. d \notin Range(call[c].doc.raw.marks)
      BY <2>1, <2>4 DEF NoMarks, WithText
    <3>. QED  BY <2>4, <3>3, <3>4
  <2>. QED  BY <2>3, <2>4
<1>4. ASSUME NEW d \in Calls, Silent(call'[d]), NEW e \in Calls,
             call'[e].pc \in WithText
      PROVE  d \notin Range(call'[e].doc.raw.marks)
  <2>1. Silent(call[d])
    BY <1>2, <1>4
  <2>2. CASE e # c
    <3>1. call'[e] = call[e]
      BY <1>1, <2>2
    <3>. QED  BY <1>4, <2>1, <3>1 DEF NoMarks
  <2>3. CASE e = c
    <3>1. s.pc \in WithText /\ call'[e] = s
      BY <1>1, <1>4, <2>3
    <3>2. CASE call[c].pc \in WithText /\ s.doc = call[c].doc
      BY <2>1, <3>1, <3>2 DEF NoMarks
    <3>3. CASE \E i \in Inodes : s.doc.raw = data[i]
      BY <2>1, <3>1, <3>3 DEF NoMarks
    <3>. QED  BY <3>1, <3>2, <3>3 DEF Moves
  <2>. QED  BY <2>2, <2>3
<1>. QED  BY <1>3, <1>4 DEF NoMarks

LEMMA CallSteps ==
    ASSUME IInv, NEW c \in Calls,
           Start(c) \/ FirstPass(c) \/ SecondPass(c)
    PROVE  IInv'
<1>1. FilesOK /\ CallsOK /\ LocksHeld /\ NoneShared /\ NoMarks
  BY DEF IInv
<1>2. PICK s : Moves(c, s) /\ LocksMove(c, s)
  BY <1>1, StartLocks, SecondPassLocks
<1>3. CallsOK'
  BY <1>1, <1>2 DEF Moves, CallsOK
<1>4. LocksHeld' /\ NoneShared'
  BY <1>1, <1>2, LocksStep
<1>5. FilesOK' /\ NoMarks'
  BY <1>1, <1>2, CallFiles, MarksStay
<1>. QED  BY <1>3, <1>4, <1>5 DEF IInv

LEMMA OthersStep ==
    ASSUME IInv, OthersAct
    PROVE  IInv'
<1>1. FilesOK /\ CallsOK /\ LocksHeld /\ NoneShared /\ NoMarks
  BY DEF IInv
<1>2. /\ FilesOK' /\ call' = call /\ held' = held
      /\ \A i \in Inodes : \E j \in Inodes :
            \/ data'[i] = data[j]
            \/ Range(data'[i].marks) = Range(data[j].marks) \cup {None}
  BY <1>1, OthersFiles
<1>3. CallsOK' /\ LocksHeld' /\ NoneShared'
  BY <1>1, <1>2 DEF CallsOK, LocksHeld, NoneShared
<1>4. ASSUME NEW c \in Calls, Silent(call[c]), NEW i \in Inodes
      PROVE  c \notin Range(data'[i].marks)
  <2>1. PICK j \in Inodes :
            \/ data'[i] = data[j]
            \/ Range(data'[i].marks) = Range(data[j].marks) \cup {None}
    BY <1>2
  <2>2. c \notin Range(data[j].marks) /\ c # None
    BY <1>1, <1>4 DEF NoMarks
  <2>. QED  BY <2>1, <2>2
<1>5. NoMarks'
  BY <1>1, <1>2, <1>4 DEF NoMarks
<1>. QED  BY <1>2, <1>3, <1>5 DEF IInv

LEMMA Initially == Init => IInv
<1> SUFFICES ASSUME Init PROVE IInv
  OBVIOUS
<1> DEFINE n == Cardinality(Names)
<1>1. n \in Nat /\ 1..n \subseteq Inodes
  BY Constants
<1>2. \E d \in [Names -> 1..n] : \A x, y \in Names : x # y => d[x] # d[y]
  <2>1. ExistsBijection(1..n, Names)
    BY FS_CardinalityType
  <2>2. PICK f \in [1..n -> Names] :
           /\ \A i, j \in 1..n : f[i] = f[j] => i = j
           /\ \A x \in Names : \E i \in 1..n : f[i] = x
    BY <2>1 DEF ExistsBijection, Bijection, Injection, Surjection, IsInjective
  <2> DEFINE d == [x \in Names |-> CHOOSE i \in 1..n : f[i] = x]
  <2>3. \A x \in Names : d[x] \in 1..n /\ f[d[x]] = x
    BY <2>2
  <2>4. d \in [Names -> 1..n]
    BY <2>3
  <2> HIDE DEF d, n
  <2>5. \A x, y \in Names : x # y => d[x] # d[y]
    BY <2>3
  <2>. QED  BY <2>4, <2>5
<1>3. directory \in [Names -> 1..n]
  BY <1>2 DEF Init
<1>4. directory \in [Names -> Inodes \cup {None}]
  BY <1>1, <1>3
<1>5. alias \in Names /\ trouble \in Nat
  BY DEF Init
<1>6. \A i \in Inodes : data[i] \in Texts /\ Range(data[i].marks) = {}
  <2> TAKE i \in Inodes
  <2>1. PICK k \in 0..MaxMatches : data[i] = [marks |-> <<>>, matches |-> k]
    BY DEF Init, MaxMatches
  <2>2. <<>> \in Seq(Calls \cup {None}) /\ Range(<<>>) = {}
    BY DEF Range
  <2>. QED  BY <2>1, <2>2 DEF Texts
<1>7. data \in [Inodes -> Texts]
  <2>1. DOMAIN data = Inodes /\ data = [i \in Inodes |-> data[i]]
    BY DEF Init
  <2>. QED  BY <1>6, <2>1
<1>8. /\ call = [c \in Calls |-> IdleCall]
      /\ held = [c \in Calls |-> {}]
  BY DEF Init
<1>9. CallsOK
  BY <1>8, IdleOK DEF CallsOK
<1>10. LocksHeld /\ NoneShared
  <2>1. LocksOf(IdleCall) = {}
    BY NoLocksOutside DEF IdleCall, Inside
  <2>. QED  BY <1>8, <2>1 DEF LocksHeld, NoneShared
<1>11. NoMarks
  <2>1. IdleCall.pc \notin WithText
    BY DEF IdleCall, WithText
  <2>. QED  BY <1>6, <1>8, <2>1 DEF NoMarks
<1>. QED  BY <1>4, <1>5, <1>7, <1>9, <1>10, <1>11 DEF IInv, FilesOK

LEMMA Invariance == Spec => []IInv
<1>1. IInv /\ [Next]_vars => IInv'
  <2> SUFFICES ASSUME IInv, [Next]_vars PROVE IInv'
    OBVIOUS
  <2>1. CASE Next
    BY <2>1, CallSteps, OthersStep DEF Next
  <2>2. CASE UNCHANGED vars
    BY <2>2 DEF vars, IInv, FilesOK, CallsOK, LocksHeld, NoneShared, NoMarks
  <2>. QED  BY <2>1, <2>2
<1>. QED  BY <1>1, Initially, PTL DEF Spec
-----------------------------------------------------------------------------
(* Files, texts and locks stay what they are: a lock is held by one call,  *)
(* which is inside the second pass of a file (locks.rs, replace.rs).       *)
LEMMA TypesHold == IInv => TypeOK
<1> SUFFICES ASSUME IInv PROVE TypeOK
  OBVIOUS
<1>1. FilesOK /\ LocksHeld /\ NoneShared
  BY DEF IInv
<1>2. ASSUME NEW c \in Calls, held[c] # {} PROVE call[c].pc \in Inside
  BY <1>1, <1>2, NoLocksOutside DEF LocksHeld
<1>. QED  BY <1>1, <1>2 DEF TypeOK, FilesOK, NoneShared, Inside

THEOREM Typing == Spec => []TypeOK
BY Invariance, TypesHold, PTL

(* max_replacements bounds what a call writes, whatever happens to the     *)
(* files between its two passes, and a call that refuses, previews or ends *)
(* in an error leaves no mark (replace.rs).                                *)
THEOREM Bounded == Spec => []BlastRadius
<1>1. IInv => BlastRadius
  <2> SUFFICES ASSUME IInv PROVE BlastRadius
    OBVIOUS
  <2>1. CallsOK /\ NoMarks /\ TypeOK
    BY TypesHold DEF IInv
  <2>2. ASSUME NEW c \in Calls PROVE call[c].written <= Cap(call[c])
    <3> DEFINE cl == call[c]
    <3>1. cl \in CallRecord /\ Budgeted(cl)
      BY <2>1 DEF CallsOK, CallOK
    <3>2. /\ cl.written \in Nat /\ Cap(cl) \in Nat
          /\ Weight(cl.plan) \in Nat
      BY <3>1, Constants, WeightType DEF CallRecord, Budgeted
    <3>3. CASE cl.pc \in FirstPlaces
      BY <3>1, <3>2, <3>3 DEF Budgeted
    <3>4. CASE cl.pc \notin FirstPlaces
      BY <3>1, <3>2, <3>4 DEF Budgeted
    <3>. QED  BY <3>3, <3>4
  <2>3. ASSUME NEW c \in Calls,
               call[c].verdict \in {"refused", "preview", "error"}
        PROVE  \A i \in Inodes : c \notin Range(data[i].marks)
    BY <2>1, <2>3 DEF NoMarks, Silent, NothingWritten
  <2>. QED  BY <2>1, <2>2, <2>3 DEF BlastRadius
<1>. QED  BY <1>1, Invariance, PTL
-----------------------------------------------------------------------------
(* Every call takes its locks in one order of kinds: name mutex, name      *)
(* file, identity mutex, identity file.  A call that wants a lock of some  *)
(* kind holds only those of the kinds before.                              *)
Level(c) ==
    IF At(c, "next") /\ call[c].plan # {} THEN 0
    ELSE IF At(c, "name_file") THEN 1
    ELSE IF At(c, "target") THEN 2
    ELSE IF At(c, "target_file") THEN 3
    ELSE 4

(* A lock that a call wants is held only by a call that has come further.  *)
LEMMA WaitsForFurther ==
    ASSUME IInv, NEW c \in Calls, NEW d \in Calls,
           Wanted(c) \cap held[d] # {}
    PROVE  Level(c) < Level(d)
<1> DEFINE cl == call[c]
           dl == call[d]
<1>1. /\ CallOK(cl) /\ cl \in CallRecord
      /\ CallOK(dl) /\ dl \in CallRecord
      /\ held[d] = LocksOf(dl)
  BY DEF IInv, CallsOK, CallOK, LocksHeld
<1>2. PICK lock \in Wanted(c) : lock \in LocksOf(dl)
  BY <1>1
<1>3. dl.pc \in Inside /\ dl.plan # {}
  BY <1>1, <1>2, NoLocksOutside DEF CallOK, Holding
<1>4. First(dl.plan).name \in Names /\ First(dl.plan).inode \in Inodes
  BY <1>1, <1>3, FirstIsThere DEF CallRecord, Files
<1>5. ASSUME cl.plan # {}
      PROVE  First(cl.plan).name \in Names /\ First(cl.plan).inode \in Inodes
  BY <1>1, <1>5, FirstIsThere DEF CallRecord, Files
<1>6. /\ dl.pc = "name_file" => Level(d) = 1
      /\ dl.pc = "target" => Level(d) = 2
      /\ dl.pc = "target_file" => Level(d) = 3
      /\ dl.pc \in Inside \ {"name_file", "target", "target_file"}
            => Level(d) = 4
  BY DEF Level, At, Inside
<1>7. CASE cl.pc = "next" /\ cl.plan # {}
  <2>1. Level(c) = 0
    BY <1>7 DEF Level, At
  <2>. QED  BY <1>3, <1>6, <2>1
<1>8. CASE cl.pc = "name_file"
  <2>1. Level(c) = 1 /\ lock = FileLock(First(cl.plan).name) /\ cl.plan # {}
    BY <1>1, <1>2, <1>8 DEF Level, Wanted, At, This, First, CallOK, Holding,
                            Inside
  <2>2. dl.pc # "name_file"
    BY <1>2, <2>1 DEF LocksOf, NameMutex, FileLock
  <2>. QED  BY <1>3, <1>6, <2>1, <2>2
<1>9. CASE cl.pc = "target"
  <2>1. /\ Level(c) = 2 /\ cl.plan # {}
        /\ lock = <<"mutex", cl.server, First(cl.plan).inode>>
    BY <1>1, <1>2, <1>9 DEF Level, Wanted, At, This, First, CallOK, Holding,
                            Inside, Mutex
  <2>2. lock # NameMutex(dl) /\ lock # NameLock(dl)
    BY <1>4, <1>5, <2>1 DEF NameMutex, NameLock, FileLock
  <2>3. dl.pc \notin {"name_file", "target"}
    BY <1>2, <2>2 DEF LocksOf
  <2>. QED  BY <1>3, <1>6, <2>1, <2>3
<1>10. CASE cl.pc = "target_file"
  <2>1. /\ Level(c) = 3 /\ cl.plan # {}
        /\ lock = FileLock(First(cl.plan).inode)
    BY <1>1, <1>2, <1>10 DEF Level, Wanted, At, This, First, CallOK, Holding,
                             Inside
  <2>2. lock # NameMutex(dl) /\ lock # NameLock(dl) /\ lock # TargetMutex(dl)
    BY <1>4, <1>5, <2>1 DEF NameMutex, NameLock, TargetMutex, FileLock
  <2>3. dl.pc \notin {"name_file", "target", "target_file"}
    BY <1>2, <2>2 DEF LocksOf
  <2>. QED  BY <1>3, <1>6, <2>1, <2>3
<1>11. CASE /\ ~(cl.pc = "next" /\ cl.plan # {})
            /\ cl.pc \notin {"name_file", "target", "target_file"}
  BY <1>2, <1>11 DEF Wanted, At
<1>. QED  BY <1>7, <1>8, <1>9, <1>10, <1>11

(* Whatever the plans are, calls and processes never wait for one another  *)
(* in a circle: the one that has come furthest waits for none of the       *)
(* others (replace.rs, locks.rs).                                          *)
THEOREM NoCircle == Spec => []NoCircularWait
<1>1. IInv => NoCircularWait
  <2> SUFFICES ASSUME IInv, NEW some \in SUBSET Calls, some # {}
               PROVE  \E c \in some : \A d \in some :
                         Wanted(c) \cap held[d] = {}
    BY DEF NoCircularWait
  <2>1. \A c \in some : Level(c) \in 0..4
    BY DEF Level
  <2>2. PICK c \in some : \A d \in some : ~(Level(c) < Level(d))
    <3>1. CASE \E c \in some : Level(c) = 4
      BY <2>1, <3>1
    <3>2. CASE \A c \in some : Level(c) \in 0..3
      <4>1. CASE \E c \in some : Level(c) = 3
        BY <3>2, <4>1
      <4>2. CASE \A c \in some : Level(c) \in 0..2
        <5>1. CASE \E c \in some : Level(c) = 2
          BY <4>2, <5>1
        <5>2. CASE \A c \in some : Level(c) \in 0..1
          <6>1. CASE \E c \in some : Level(c) = 1
            BY <5>2, <6>1
          <6>2. CASE \A c \in some : Level(c) = 0
            BY <6>2
          <6>. QED  BY <5>2, <6>1, <6>2
        <5>. QED  BY <4>2, <5>1, <5>2
      <4>. QED  BY <3>2, <4>1, <4>2
    <3>. QED  BY <2>1, <3>1, <3>2
  <2>. QED  BY <2>2, WaitsForFurther
<1>. QED  BY <1>1, Invariance, PTL
-----------------------------------------------------------------------------
(* The edits are serial.  A call that has not started is as it was made;   *)
NewOnes == \A c \in Calls : call[c].pc = "idle" => call[c] = IdleCall

(* what SerialEdits speaks of, under its own names;                        *)
Text == [n \in Names |-> TextAt(n)]
Keeps == [c \in Calls |-> call[c].kind = "same"]
EditOf(cl) ==
    IF cl.pc = "rename"
    THEN [name |-> cl.doc.target, base |-> cl.doc.raw,
          direct |-> cl.doc.target = First(cl.plan).name]
    ELSE None
Editing == [c \in Calls |-> EditOf(call[c])]
Replaced == [c \in Calls |-> call[c].replaced]
Seen == <<Text, Keeps, Editing, Replaced>>

(* and its actions in those names.                                         *)
LEMMA Mapping ==
    /\ Serial!vars = Seen
    /\ Serial!Init <=>
          /\ Text \in [Names -> {None} \cup [marks : {<<>>}, matches : 0..2]]
          /\ Keeps = [c \in Calls |-> FALSE]
          /\ Editing = [c \in Calls |-> None]
          /\ Replaced = [c \in Calls |-> 0]
    /\ \A c \in Calls :
          /\ Serial!Choose(c) <=>
                /\ Keeps' \in {Keeps, [Keeps EXCEPT ![c] = TRUE]}
                /\ Keeps' # Keeps
                /\ UNCHANGED <<Text, Editing, Replaced>>
          /\ Serial!Finish(c) <=>
                /\ Editing[c] # None
                /\ Text' = [Text EXCEPT ![Editing[c].name] =
                                Edited(c, Editing[c].base)]
                /\ Editing' = [Editing EXCEPT ![c] = None]
                /\ Replaced' = [Replaced EXCEPT ![c] = @ + 1]
                /\ UNCHANGED Keeps
          /\ Serial!Abandon(c) <=>
                /\ Editing' = [Editing EXCEPT ![c] = None]
                /\ UNCHANGED <<Text, Keeps, Replaced>>
          /\ Serial!ReplaceByItself(c) <=>
                /\ Keeps[c]
                /\ Replaced' = [Replaced EXCEPT ![c] = @ + 1]
                /\ UNCHANGED <<Text, Keeps, Editing>>
    /\ Serial!Others <=>
          /\ \A n \in Names :
                \/ Text'[n] = None \/ \E m \in Names : Text'[n] = Text[m]
                \/ Text'[n].marks[Len(Text'[n].marks)] \notin Calls
          /\ UNCHANGED <<Keeps, Editing, Replaced>>
<1>1. /\ Text = [n \in Names |-> TextAt(n)]
      /\ Keeps = [c \in Calls |-> call[c].kind = "same"]
      /\ Replaced = [c \in Calls |-> call[c].replaced]
  BY DEF Text, Keeps, Replaced
<1>2. Editing = [c \in Calls |->
        IF call[c].pc = "rename"
        THEN [name |-> call[c].doc.target, base |-> call[c].doc.raw,
              direct |-> call[c].doc.target = This(c).name]
        ELSE None]
  BY DEF Editing, EditOf, This, First
<1>. QED  BY DEF Serial!vars, Serial!Init, Serial!Choose, Serial!Finish,
               Serial!Abandon, Serial!ReplaceByItself, Serial!Others,
               Serial!Edited, Edited, Text, Keeps, Replaced, Editing, EditOf,
               This, First, Seen

LEMMA BeginMapping ==
    ASSUME NEW c, NEW n, NEW direct
    PROVE  Serial!Begin(c, n, direct) <=>
              /\ Editing[c] = None /\ Text[n] # None
              /\ \A d \in Calls :
                    \/ Editing[d] = None \/ Editing[d].name # n
                    \/ ~(direct /\ Editing[d].direct)
              /\ Editing' = [Editing EXCEPT ![c] =
                     [name |-> n, base |-> Text[n], direct |-> direct]]
              /\ UNCHANGED <<Text, Keeps, Replaced>>
BY DEF Serial!Begin, Text, Keeps, Replaced, Editing, EditOf, This, First

(* What a step of call c makes of that call and of the files.              *)
Turns(c, s) ==
    /\ call' = [call EXCEPT ![c] = s] /\ s.pc # "idle"
    /\ s.kind = call[c].kind
Idles(c, s) == Turns(c, s) /\ s.pc # "rename" /\ s.replaced = call[c].replaced
               /\ UNCHANGED <<directory, data>>

(* A call is of one kind, and only counts a file as replaced when it was.  *)
LEMMA FieldsKept ==
    ASSUME NEW cl \in CallRecord, NEW v
    PROVE  /\ Ended(cl, v).pc = "done" /\ Ended(cl, v).kind = cl.kind
           /\ Ended(cl, v).replaced = cl.replaced
           /\ Passed(cl).pc = "open" /\ Passed(cl).kind = cl.kind
           /\ Passed(cl).replaced = cl.replaced
           /\ Rejected(cl).pc \in {"open", "done"}
           /\ Rejected(cl).kind = cl.kind
           /\ Rejected(cl).replaced = cl.replaced
           /\ SecondPassOf(cl).pc = "next" /\ SecondPassOf(cl).kind = cl.kind
           /\ SecondPassOf(cl).replaced = cl.replaced
<1>1. /\ Ended(cl, v).pc = "done" /\ Ended(cl, v).kind = cl.kind
      /\ Ended(cl, v).replaced = cl.replaced
  BY DEF Ended, IdleCall
<1>2. /\ Ended(cl, "error").pc = "done" /\ Ended(cl, "error").kind = cl.kind
      /\ Ended(cl, "error").replaced = cl.replaced
  BY DEF Ended, IdleCall
<1>3. /\ Passed(cl).pc = "open" /\ Passed(cl).kind = cl.kind
      /\ Passed(cl).replaced = cl.replaced
  BY DEF Passed, CallRecord
<1>4. /\ SecondPassOf(cl).pc = "next" /\ SecondPassOf(cl).kind = cl.kind
      /\ SecondPassOf(cl).replaced = cl.replaced
  BY DEF SecondPassOf, CallRecord
<1>5. CASE cl.single
  BY <1>1, <1>2, <1>3, <1>4, <1>5 DEF Rejected
<1>6. CASE ~cl.single
  <2>1. Rejected(cl) = [cl EXCEPT !.pc = "open", !.todo = Tail(@),
                                  !.failed = TRUE, !.doc = None]
    BY <1>6 DEF Rejected
  <2>2. /\ Rejected(cl).pc = "open" /\ Rejected(cl).kind = cl.kind
        /\ Rejected(cl).replaced = cl.replaced
    BY <2>1 DEF CallRecord
  <2>. QED  BY <1>1, <1>3, <1>4, <2>2
<1>. QED  BY <1>5, <1>6

LEMMA FirstPassIdles ==
    ASSUME FilesOK, CallsOK, NEW c \in Calls, FirstPass(c)
    PROVE  \E s : Idles(c, s)
<1> DEFINE cl == call[c]
<1>1. cl \in CallRecord
  BY DEF CallsOK, CallOK
<1>2. UNCHANGED <<directory, data>>
  BY DEF FirstPass, OpenCandidate, CandidateSkipped, Identify, Unreplaceable,
         Decide
<1>3. ASSUME NEW s, Become(c, s), s.pc \in {"open", "identify", "next", "done"},
             s.kind = cl.kind, s.replaced = cl.replaced
      PROVE  \E t : Idles(c, t)
  BY <1>2, <1>3 DEF Idles, Turns, Become
<1>4. CASE Become(c, Passed(cl)) \/ Become(c, Rejected(cl))
  BY <1>1, <1>3, <1>4, FieldsKept
<1>5. CASE OpenCandidate(c) \/ CandidateSkipped(c)
  <2> DEFINE s == [cl EXCEPT !.pc = "identify",
                             !.doc = Document(Head(cl.todo))]
  <2>1. CASE Become(c, s)
    <3>1. s.pc = "identify" /\ s.kind = cl.kind /\ s.replaced = cl.replaced
      BY <1>1 DEF CallRecord
    <3> HIDE DEF s
    <3>. QED  BY <1>3, <2>1, <3>1
  <2>. QED  BY <1>4, <1>5, <2>1 DEF OpenCandidate, CandidateSkipped
<1>6. CASE Identify(c) \/ Unreplaceable(c)
  <2> DEFINE inode == directory[cl.doc.target]
             matches == cl.doc.raw.matches
             counted == [cl EXCEPT !.seen = @ \cup {inode},
                                   !.total = @ + matches]
             file == [path |-> Head(cl.todo), name |-> cl.doc.target,
                      inode |-> inode, raw |-> cl.doc.raw]
             planned == [counted EXCEPT !.plan = @ \cup {file}]
  <2>1. CallOK(cl) /\ cl.pc = "identify"
    BY <1>6 DEF Identify, Unreplaceable, At, CallsOK
  <2>2. cl.doc \in Docs
    BY <2>1 DEF CallOK, Holding, WithText
  <2>3. \/ Become(c, Passed(cl)) \/ Become(c, Rejected(cl))
        \/ Become(c, Passed(counted)) \/ Become(c, Rejected(counted))
        \/ Become(c, Passed(planned))
    BY <1>6 DEF Identify, Unreplaceable
  <2>4. /\ DOMAIN counted = DOMAIN cl /\ counted.kind = cl.kind
        /\ counted.replaced = cl.replaced
    BY <1>1 DEF CallRecord
  <2>5. /\ Passed(counted).pc = "open" /\ Passed(counted).kind = cl.kind
        /\ Passed(counted).replaced = cl.replaced
    BY <1>1 DEF CallRecord, Passed
  <2>6. /\ Passed(planned).pc = "open" /\ Passed(planned).kind = cl.kind
        /\ Passed(planned).replaced = cl.replaced
    BY <1>1 DEF CallRecord, Passed
  <2>7. /\ Rejected(counted).pc \in {"open", "done"}
        /\ Rejected(counted).kind = cl.kind
        /\ Rejected(counted).replaced = cl.replaced
    BY <1>1 DEF CallRecord, Rejected, Ended, IdleCall
  <2> HIDE DEF counted, planned
  <2>. QED  BY <1>3, <1>4, <2>3, <2>5, <2>6, <2>7
<1>7. CASE Decide(c)
  BY <1>1, <1>3, <1>7, FieldsKept DEF Decide
<1>. QED  BY <1>5, <1>6, <1>7 DEF FirstPass

LEMMA FailIdles ==
    ASSUME CallsOK, NEW c \in Calls, Fail(c), UNCHANGED <<directory, data>>
    PROVE  \E s : Idles(c, s)
<1> DEFINE cl == call[c]
           s == [cl EXCEPT !.pc = "next", !.plan = @ \ {This(c)},
                           !.doc = None, !.failed = TRUE]
<1>1. cl \in CallRecord
  BY DEF CallsOK, CallOK
<1>2. s.pc = "next" /\ s.kind = cl.kind /\ s.replaced = cl.replaced
  BY <1>1 DEF CallRecord
<1>3. call' = [call EXCEPT ![c] = s]
  BY DEF Fail, Become
<1> HIDE DEF s
<1>. QED  BY <1>2, <1>3 DEF Idles, Turns

LEMMA GoesIdle ==
    ASSUME CallsOK, NEW c \in Calls, NEW pc, Goto(c, pc),
           pc \notin {"idle", "rename"}, UNCHANGED <<directory, data>>
    PROVE  \E s : Idles(c, s)
<1> DEFINE cl == call[c]
           s == [cl EXCEPT !.pc = pc]
<1>1. cl \in CallRecord
  BY DEF CallsOK, CallOK
<1>2. s.pc = pc /\ s.kind = cl.kind /\ s.replaced = cl.replaced
  BY <1>1 DEF CallRecord
<1>3. call' = [call EXCEPT ![c] = s]
  BY DEF Goto, Become
<1> HIDE DEF s
<1>. QED  BY <1>2, <1>3 DEF Idles, Turns

LEMMA SecondPassIdles ==
    ASSUME CallsOK, NEW c \in Calls,
           \/ LockNameMutex(c) \/ LockNameFile(c) \/ LockTargetMutex(c)
           \/ LockTargetFile(c) \/ FileFails(c) \/ Reopen(c)
           \/ Check(c) /\ ~(Unchanged(c) /\ call[c].kind = "same")
           \/ (Compare(c) /\ Fail(c)) \/ Report(c)
    PROVE  \E s : Idles(c, s)
<1> DEFINE cl == call[c]
<1>1. cl \in CallRecord
  BY DEF CallsOK, CallOK
<1>2. CASE \/ LockNameMutex(c) \/ LockNameFile(c) \/ LockTargetMutex(c)
           \/ LockTargetFile(c)
  <2>1. \E pc \in {"name_file", "target", "target_file", "reopen"} :
           Goto(c, pc) /\ UNCHANGED <<directory, data>>
    BY <1>2 DEF LockNameMutex, LockNameFile, LockTargetMutex, LockTargetFile,
                Lock
  <2>. QED  BY <2>1, GoesIdle
<1>3. CASE FileFails(c)
  BY <1>3, FailIdles DEF FileFails
<1>4. CASE Reopen(c)
  <2> DEFINE doc == Document(This(c).path)
             s == [cl EXCEPT !.pc = "check", !.doc = doc]
  <2>1. UNCHANGED <<directory, data>> /\ (Fail(c) \/ Become(c, s))
    BY <1>4 DEF Reopen
  <2>2. s.pc = "check" /\ s.kind = cl.kind /\ s.replaced = cl.replaced
    BY <1>1 DEF CallRecord
  <2>3. Become(c, s) => call' = [call EXCEPT ![c] = s]
    BY DEF Become
  <2> HIDE DEF s
  <2>. QED  BY <2>1, <2>2, <2>3, FailIdles DEF Idles, Turns
<1>5. CASE Check(c) /\ ~(Unchanged(c) /\ cl.kind = "same")
  <2>1. UNCHANGED <<directory, data>> /\ (Fail(c) \/ Goto(c, "compare"))
    BY <1>5 DEF Check
  <2>. QED  BY <2>1, FailIdles, GoesIdle
<1>6. CASE Compare(c) /\ Fail(c)
  BY <1>6, FailIdles DEF Compare
<1>7. CASE Report(c)
  <2> DEFINE v == IF cl.failed THEN "partial" ELSE "complete"
             s == Ended(cl, v)
  <2>1. UNCHANGED <<directory, data>> /\ call' = [call EXCEPT ![c] = s]
    BY <1>7 DEF Report, Become
  <2> HIDE DEF v
  <2>2. s.pc = "done" /\ s.kind = cl.kind /\ s.replaced = cl.replaced
    BY <1>1, FieldsKept
  <2> HIDE DEF s
  <2>. QED  BY <2>1, <2>2 DEF Idles, Turns
<1>. QED  BY <1>2, <1>3, <1>4, <1>5, <1>6, <1>7

(* What such a step is to SerialEdits.                                     *)
LEMMA EditType ==
    ASSUME NEW cl, CallOK(cl)
    PROVE  /\ cl.pc = "rename" => EditOf(cl) \in Edits /\ EditOf(cl) # None
           /\ cl.pc # "rename" => EditOf(cl) = None
<1>1. CASE cl.pc = "rename"
  <2>1. cl.doc \in Docs
    BY <1>1 DEF CallOK, Holding, WithText
  <2> DEFINE direct == cl.doc.target = First(cl.plan).name
  <2>2. direct \in BOOLEAN
    OBVIOUS
  <2>3. EditOf(cl) = [name |-> cl.doc.target, base |-> cl.doc.raw,
                      direct |-> direct]
    BY <1>1 DEF EditOf
  <2> HIDE DEF direct
  <2>4. EditOf(cl) \in Edits
    BY <2>1, <2>2, <2>3 DEF Edits, Docs
  <2>. QED  BY <1>1, <2>4
<1>2. CASE cl.pc # "rename"
  BY <1>2 DEF EditOf
<1>. QED  BY <1>1, <1>2

LEMMA Turned ==
    ASSUME CallsOK, NEW c \in Calls, NEW s, Turns(c, s)
    PROVE  /\ Keeps' = Keeps
           /\ Editing' = [Editing EXCEPT ![c] = EditOf(s)]
           /\ Replaced' = [Replaced EXCEPT ![c] = s.replaced]
           /\ NewOnes => NewOnes'
<1>1. /\ DOMAIN call = Calls /\ call' = [call EXCEPT ![c] = s]
      /\ call' = [d \in Calls |-> call'[d]]
  BY DEF Turns, CallsOK
<1>2. /\ call'[c] = s
      /\ \A d \in Calls : d # c => call'[d] = call[d]
  BY <1>1
<1>3. Keeps' = Keeps
  BY <1>2 DEF Keeps, Turns
<1>4. Editing' = [Editing EXCEPT ![c] = EditOf(s)]
  <2>1. Editing' = [d \in Calls |-> EditOf(call'[d])]
    BY DEF Editing, EditOf
  <2>2. \A d \in Calls : d # c => EditOf(call'[d]) = EditOf(call[d])
    BY <1>2
  <2>. QED  BY <1>2, <2>1, <2>2 DEF Editing
<1>5. Replaced' = [Replaced EXCEPT ![c] = s.replaced]
  BY <1>2 DEF Replaced
<1>6. NewOnes => NewOnes'
  BY <1>2 DEF NewOnes, Turns
<1>. QED  BY <1>3, <1>4, <1>5, <1>6

LEMMA SameText ==
    ASSUME UNCHANGED <<directory, data>> PROVE Text' = Text
BY DEF Text, TextAt

LEMMA IdlesAbandons ==
    ASSUME CallsOK, NEW c \in Calls, NEW s, Idles(c, s)
    PROVE  Serial!Abandon(c) /\ (NewOnes => NewOnes')
<1>1. /\ Keeps' = Keeps
      /\ Editing' = [Editing EXCEPT ![c] = EditOf(s)]
      /\ Replaced' = [Replaced EXCEPT ![c] = s.replaced]
      /\ NewOnes => NewOnes'
  BY Turned DEF Idles
<1>2. EditOf(s) = None
  BY DEF Idles, EditOf
<1>3. Replaced' = Replaced
  BY <1>1 DEF Idles, Replaced
<1>4. Text' = Text
  BY SameText DEF Idles
<1>. QED  BY <1>1, <1>2, <1>3, <1>4, Mapping

LEMMA StartChooses ==
    ASSUME FilesOK, CallsOK, NewOnes, NEW c \in Calls, Start(c)
    PROVE  (Serial!Choose(c) \/ UNCHANGED Seen) /\ NewOnes'
<1>1. PICK path \in Paths \cup {None}, kind \in Kinds,
           server \in ServersOf(c) :
          Become(c, [IdleCall EXCEPT !.pc = "open", !.kind = kind,
                !.server = server, !.single = path # None,
                !.todo = IF path # None THEN <<Resolve(path)>>
                         ELSE SetToSeq({p \in Paths :
                                          directory[Resolve(p)] # None})])
  BY DEF Start
<1> DEFINE todo == IF path # None THEN <<Resolve(path)>>
                   ELSE SetToSeq({p \in Paths :
                                    directory[Resolve(p)] # None})
           s == [IdleCall EXCEPT !.pc = "open", !.kind = kind,
                   !.server = server, !.single = path # None, !.todo = todo]
<1>2. s.pc = "open" /\ s.kind = kind /\ s.replaced = 0
  BY DEF IdleCall
<1>3. call' = [call EXCEPT ![c] = s]
  BY <1>1 DEF Become
<1>4. call[c] = IdleCall
  BY DEF NewOnes, Start, At
<1>5. call[c].kind = "plain" /\ call[c].replaced = 0 /\ call[c].pc = "idle"
  BY <1>4 DEF IdleCall
<1>6. Text' = Text
  BY SameText DEF Start
<1> HIDE DEF s
<1>7. /\ DOMAIN call = Calls /\ call'[c] = s
      /\ \A d \in Calls : d # c => call'[d] = call[d]
  BY <1>3 DEF CallsOK
<1>8. Editing' = Editing
  <2>1. Editing' = [d \in Calls |-> EditOf(call'[d])]
    BY DEF Editing, EditOf
  <2>2. EditOf(s) = EditOf(call[c])
    BY <1>2, <1>5 DEF EditOf
  <2>3. \A d \in Calls : EditOf(call'[d]) = EditOf(call[d])
    BY <1>7, <2>2
  <2>. QED  BY <2>1, <2>3 DEF Editing
<1>9. Replaced' = Replaced
  BY <1>2, <1>5, <1>7 DEF Replaced
<1>10. Keeps' \in {Keeps, [Keeps EXCEPT ![c] = TRUE]}
  <2>1. CASE kind = "same"
    <3>1. Keeps' = [Keeps EXCEPT ![c] = TRUE]
      BY <1>2, <1>7, <2>1 DEF Keeps
    <3>. QED  BY <3>1
  <2>2. CASE kind # "same"
    <3>1. Keeps' = Keeps
      BY <1>2, <1>5, <1>7, <2>2 DEF Keeps
    <3>. QED  BY <3>1
  <2>. QED  BY <2>1, <2>2
<1>11. Serial!Choose(c) \/ UNCHANGED Seen
  <2>1. CASE Keeps' = Keeps
    BY <1>6, <1>8, <1>9, <2>1 DEF Seen
  <2>2. CASE Keeps' # Keeps
    BY <1>6, <1>8, <1>9, <1>10, <2>2, Mapping
  <2>. QED  BY <2>1, <2>2
<1>12. NewOnes'
  BY <1>2, <1>7 DEF NewOnes
<1>. QED  BY <1>11, <1>12

(* A replacement that changes no byte, or the rename.                      *)
LEMMA SucceedTurns ==
    ASSUME CallsOK, NEW c \in Calls, Succeed(c)
    PROVE  \E s : /\ Turns(c, s) /\ s.pc = "next"
                  /\ s.replaced = call[c].replaced + 1
<1> DEFINE cl == call[c]
           s == [cl EXCEPT !.pc = "next", !.plan = @ \ {This(c)},
                           !.doc = None, !.replaced = @ + 1,
                           !.written = @ + cl.doc.raw.matches]
<1>1. cl \in CallRecord
  BY DEF CallsOK, CallOK
<1>2. /\ s.pc = "next" /\ s.kind = cl.kind
      /\ s.replaced = cl.replaced + 1
  BY <1>1 DEF CallRecord
<1>3. call' = [call EXCEPT ![c] = s]
  BY DEF Succeed, Become
<1> HIDE DEF s
<1>. QED  BY <1>2, <1>3 DEF Turns

LEMMA SameKeeps ==
    ASSUME CallsOK, NEW c \in Calls, Check(c), Unchanged(c),
           call[c].kind = "same"
    PROVE  Serial!ReplaceByItself(c) /\ (NewOnes => NewOnes')
<1>1. Succeed(c) /\ UNCHANGED <<directory, data>> /\ call[c].pc = "check"
  BY DEF Check, At
<1>2. PICK s : /\ Turns(c, s) /\ s.pc = "next"
               /\ s.replaced = call[c].replaced + 1
  BY <1>1, SucceedTurns
<1>3. /\ Keeps' = Keeps
      /\ Editing' = [Editing EXCEPT ![c] = EditOf(s)]
      /\ Replaced' = [Replaced EXCEPT ![c] = s.replaced]
      /\ NewOnes => NewOnes'
  BY <1>2, Turned
<1>4. EditOf(s) = None /\ EditOf(call[c]) = None
  BY <1>1, <1>2 DEF EditOf
<1>5. Editing' = Editing
  BY <1>3, <1>4 DEF Editing
<1>6. Replaced' = [Replaced EXCEPT ![c] = @ + 1]
  BY <1>2, <1>3 DEF Replaced
<1>7. Text' = Text /\ Keeps[c]
  BY <1>1, SameText DEF Keeps
<1>. QED  BY <1>3, <1>5, <1>6, <1>7, Mapping

(* The comparison begins the edit: no other call edits the file under the  *)
(* name that both have locked.                                             *)
LEMMA BeginIs ==
    ASSUME NEW c \in Calls, NEW n \in Names, NEW direct \in BOOLEAN,
           Editing[c] = None, Text[n] # None,
           \A d \in Calls : \/ Editing[d] = None \/ Editing[d].name # n
                            \/ ~(direct /\ Editing[d].direct),
           Editing' = [Editing EXCEPT ![c] =
                         [name |-> n, base |-> Text[n], direct |-> direct]],
           Text' = Text, Keeps' = Keeps, Replaced' = Replaced
    PROVE  Serial!Begin(c, n, direct)
<1>1. UNCHANGED <<Text, Keeps, Replaced>>
  OBVIOUS
<1>. QED  BY Zenon, <1>1, BeginMapping

LEMMA CompareBeginsAs ==
    ASSUME IInv, NEW c \in Calls, Compare(c), ~Fail(c),
           NEW n, n = call[c].doc.target,
           NEW direct \in BOOLEAN,
           direct = (call[c].doc.target = First(call[c].plan).name)
    PROVE  /\ n \in Names /\ Serial!Begin(c, n, direct)
           /\ NewOnes => NewOnes'
<1> DEFINE cl == call[c]
           s == [cl EXCEPT !.pc = "rename"]
<1>1. FilesOK /\ CallsOK /\ LocksHeld /\ NoneShared
  BY DEF IInv
<1>2. CallOK(cl) /\ cl \in CallRecord /\ cl.pc = "compare"
  BY <1>1 DEF CallsOK, CallOK, Compare, At
<1>3. /\ TextAt(n) = cl.doc.raw /\ UNCHANGED <<directory, data>>
      /\ call' = [call EXCEPT ![c] = s]
  BY DEF Compare, Goto, Become
<1>4. n \in Names /\ cl.doc.raw \in Texts /\ cl.doc.raw # None
  BY <1>2 DEF CallOK, Holding, WithText, Docs
<1>5. /\ s.pc = "rename" /\ s.kind = cl.kind /\ s.replaced = cl.replaced
      /\ s.doc = cl.doc /\ s.plan = cl.plan
  BY <1>2 DEF CallRecord
<1>6. Turns(c, s)
  <2> HIDE DEF s
  <2>. QED  BY <1>3, <1>5 DEF Turns
<1>7. /\ Keeps' = Keeps
      /\ Editing' = [Editing EXCEPT ![c] = EditOf(s)]
      /\ Replaced' = [Replaced EXCEPT ![c] = s.replaced]
      /\ NewOnes => NewOnes'
  <2> HIDE DEF s
  <2>. QED  BY <1>1, <1>6, Turned
<1>8. EditOf(s) = [name |-> n, base |-> Text[n], direct |-> direct]
  <2> HIDE DEF s
  <2>. QED  BY <1>3, <1>4, <1>5 DEF EditOf, Text
<1>9. Replaced' = Replaced
  <2> HIDE DEF s
  <2>. QED  BY <1>5, <1>7 DEF Replaced
<1>10. Text' = Text /\ Text[n] # None
  BY <1>3, <1>4, SameText DEF Text
<1>11. Editing[c] = None
  BY <1>2 DEF Editing, EditOf
<1>12. ASSUME NEW d \in Calls, Editing[d] # None, Editing[d].name = n,
              direct, Editing[d].direct
       PROVE  FALSE
  <2>1. call[d].pc = "rename"
    BY <1>12 DEF Editing, EditOf
  <2>2. /\ call[d].doc.target = n
        /\ call[d].doc.target = First(call[d].plan).name
    BY <1>12, <2>1 DEF Editing, EditOf
  <2>3. d # c
    BY <1>2, <2>1
  <2>4. NameLock(call[d]) = NameLock(cl)
    BY <1>12, <2>2 DEF NameLock
  <2>5. NameLock(call[d]) \in held[d] /\ NameLock(cl) \in held[c]
    BY <1>1, <1>2, <2>1 DEF LocksHeld, LocksOf, Inside
  <2>. QED  BY <1>1, <2>3, <2>4, <2>5 DEF NoneShared
<1>. QED  BY <1>4, <1>7, <1>8, <1>9, <1>10, <1>11, <1>12, BeginIs

LEMMA CompareBegins ==
    ASSUME IInv, NEW c \in Calls, Compare(c), ~Fail(c)
    PROVE  /\ \E n \in Names, direct \in BOOLEAN : Serial!Begin(c, n, direct)
           /\ NewOnes => NewOnes'
<1> DEFINE n == call[c].doc.target
<1>1. CASE n = First(call[c].plan).name
  <2>1. n \in Names /\ Serial!Begin(c, n, TRUE) /\ (NewOnes => NewOnes')
    BY <1>1, CompareBeginsAs
  <2>. QED  BY <2>1
<1>2. CASE n # First(call[c].plan).name
  <2>1. n \in Names /\ Serial!Begin(c, n, FALSE) /\ (NewOnes => NewOnes')
    BY <1>2, CompareBeginsAs
  <2>. QED  BY <2>1
<1>. QED  BY <1>1, <1>2

(* The rename finishes it, and leaves every other name the text it has.    *)
LEMMA RenameFinishes ==
    ASSUME FilesOK, CallsOK, NEW c \in Calls, Rename(c)
    PROVE  Serial!Finish(c) /\ (NewOnes => NewOnes')
<1> DEFINE cl == call[c]
           doc == cl.doc
           fresh == FreshInode
           text == Edited(c, doc.raw)
<1>1. CallOK(cl) /\ cl.pc = "rename" /\ Succeed(c)
  BY DEF CallsOK, Rename, At
<1>2. doc.target \in Names /\ doc.raw \in Texts
  BY <1>1 DEF CallOK, Holding, WithText, Docs
<1>3. fresh \in Inodes /\ fresh \notin Used
  BY FreshIsThere
<1>4. /\ data' = [data EXCEPT ![fresh] = text]
      /\ directory' = [directory EXCEPT ![doc.target] = fresh]
  BY DEF Rename
<1>5. PICK s : /\ Turns(c, s) /\ s.pc = "next"
               /\ s.replaced = call[c].replaced + 1
  BY <1>1, SucceedTurns
<1>6. /\ Keeps' = Keeps
      /\ Editing' = [Editing EXCEPT ![c] = EditOf(s)]
      /\ Replaced' = [Replaced EXCEPT ![c] = s.replaced]
      /\ NewOnes => NewOnes'
  BY <1>5, Turned
<1>7. EditOf(s) = None
  BY <1>5 DEF EditOf
<1>8. Replaced' = [Replaced EXCEPT ![c] = @ + 1]
  BY <1>5, <1>6 DEF Replaced
<1>9. /\ Editing[c] # None /\ Editing[c].name = doc.target
      /\ Editing[c].base = doc.raw
  BY <1>1, EditType DEF Editing, EditOf
<1>10. Text' = [Text EXCEPT ![doc.target] = text]
  <2> HIDE DEF fresh, text, doc
  <2>1. /\ directory'[doc.target] = fresh /\ data'[fresh] = text
        /\ fresh # None
    BY <1>2, <1>3, <1>4 DEF FilesOK
  <2>3. ASSUME NEW n \in Names, n # doc.target
        PROVE  (IF directory'[n] = None THEN None ELSE data'[directory'[n]])
                  = TextAt(n)
    <3>1. directory'[n] = directory[n]
      BY <1>4, <2>3 DEF FilesOK
    <3>2. directory[n] # None => directory[n] # fresh /\ directory[n] \in Inodes
      BY <1>3 DEF Used, FilesOK
    <3>. QED  BY <1>4, <3>1, <3>2 DEF TextAt, FilesOK
  <2>4. (IF directory'[doc.target] = None THEN None
         ELSE data'[directory'[doc.target]]) = text
    BY <2>1
  <2>5. Text' = [n \in Names |-> IF directory'[n] = None THEN None
                                 ELSE data'[directory'[n]]]
    BY DEF Text, TextAt
  <2>. QED  BY <1>2, <2>3, <2>4, <2>5 DEF Text
<1> HIDE DEF text, doc, fresh
<1>11. Text' = [Text EXCEPT ![Editing[c].name] = Edited(c, Editing[c].base)]
  BY <1>9, <1>10 DEF text
<1>. QED  BY <1>6, <1>7, <1>8, <1>9, <1>11, Mapping

(* Others mark what they write as theirs.                                  *)
LEMMA OthersEdit ==
    ASSUME FilesOK, OthersAct
    PROVE  Serial!Others
<1>1. PICK n \in Names :
        \/ \E k \in 0..MaxMatches : SaveInPlace(n, k) \/ SaveByRename(n, k)
        \/ \E m \in Names : Move(n, m) \/ HardLink(n, m)
        \/ Retarget(n)
  BY DEF OthersAct
<1>2. call' = call
  BY <1>1 DEF SaveInPlace, SaveByRename, Move, HardLink, Retarget, Other
<1>3. UNCHANGED <<Keeps, Editing, Replaced>>
  BY <1>2 DEF Keeps, Editing, EditOf, Replaced
<1> DEFINE Now(x) == IF directory'[x] = None THEN None
                     ELSE data'[directory'[x]]
<1>4. Text' = [x \in Names |-> Now(x)]
  BY DEF Text, TextAt
<1>5. ASSUME NEW base \in Texts, NEW k
      PROVE  LET text == [marks |-> Append(base.marks, None), matches |-> k]
             IN  text.marks[Len(text.marks)] = None
  <2> DEFINE m == base.marks
             added == Append(m, None)
  <2>1. m \in Seq(Calls \cup {None})
    BY DEF Texts
  <2>2. Len(m) \in Nat /\ Len(added) = Len(m) + 1 /\ added[Len(m) + 1] = None
    BY <2>1
  <2> HIDE DEF added, m
  <2>3. added[Len(added)] = None
    BY <2>2
  <2>. QED  BY <2>3 DEF added, m
<1>6. ASSUME NEW x \in Names
      PROVE  \/ Now(x) = None \/ \E m \in Names : Now(x) = Text[m]
             \/ Now(x).marks[Len(Now(x).marks)] = None
  <2>1. directory[x] \in Inodes \cup {None} /\ directory[n] \in Inodes \cup {None}
    BY DEF FilesOK
  <2>2. directory'[x] = directory[x] /\ data' = data
          => Now(x) = Text[x]
    BY DEF Text, TextAt
  <2>3. CASE \E k \in 0..MaxMatches : SaveInPlace(n, k)
    <3>1. PICK k \in 0..MaxMatches : SaveInPlace(n, k)
      BY <2>3
    <3> DEFINE text == [marks |-> Append(data[directory[n]].marks, None),
                        matches |-> k]
    <3>2. /\ directory[n] \in Inodes /\ directory' = directory
          /\ data' = [data EXCEPT ![directory[n]] = text]
      BY <2>1, <3>1 DEF SaveInPlace, FilesOK
    <3>3. data[directory[n]] \in Texts
      BY <3>2 DEF FilesOK
    <3>4. text.marks[Len(text.marks)] = None
      BY <1>5, <3>3
    <3> HIDE DEF text
    <3>5. CASE directory[x] = directory[n]
      <4>1. Now(x) = text
        BY <3>2, <3>5 DEF FilesOK
      <4>. QED  BY <3>4, <4>1
    <3>6. CASE directory[x] # directory[n]
      <4>1. Now(x) = Text[x]
        BY <2>1, <3>2, <3>6 DEF FilesOK, Text, TextAt
      <4>. QED  BY <4>1
    <3>. QED  BY <3>5, <3>6
  <2>4. CASE \E k \in 0..MaxMatches : SaveByRename(n, k)
    <3>1. PICK k \in 0..MaxMatches : SaveByRename(n, k)
      BY <2>4
    <3> DEFINE text == [marks |-> Append(TextAt(n).marks, None),
                        matches |-> k]
               fresh == FreshInode
    <3>2. /\ directory[n] # None
          /\ data' = [data EXCEPT ![fresh] = text]
          /\ directory' = [directory EXCEPT ![n] = fresh]
      BY <3>1 DEF SaveByRename
    <3>3. TextAt(n) \in Texts
      BY <2>1, <3>2 DEF FilesOK, TextAt
    <3>4. text.marks[Len(text.marks)] = None
      BY <1>5, <3>3
    <3>5. fresh \in Inodes /\ fresh \notin Used
      BY FreshIsThere
    <3> HIDE DEF text, fresh
    <3>6. CASE x = n
      <4>1. Now(x) = text
        BY <3>2, <3>5, <3>6 DEF FilesOK
      <4>. QED  BY <3>4, <4>1
    <3>7. CASE x # n
      <4>1. directory'[x] = directory[x]
        BY <3>2, <3>7 DEF FilesOK
      <4>2. directory[x] # None => directory[x] # fresh
        BY <3>5 DEF Used
      <4>3. Now(x) = Text[x]
        BY <2>1, <3>2, <4>1, <4>2 DEF FilesOK, Text, TextAt
      <4>. QED  BY <4>3
    <3>. QED  BY <3>6, <3>7
  <2>5. CASE \E m \in Names : Move(n, m) \/ HardLink(n, m)
    <3>1. data' = data
      BY <2>5 DEF Move, HardLink
    <3>2. directory'[x] \in {directory[x], directory[n], None}
      BY <2>5 DEF Move, HardLink, FilesOK
    <3>3. CASE directory'[x] = directory[n]
      <4>1. Now(x) = Text[n]
        BY <3>1, <3>3 DEF Text, TextAt
      <4>. QED  BY <4>1
    <3>4. CASE directory'[x] = directory[x]
      BY <2>2, <3>1, <3>4
    <3>. QED  BY <3>2, <3>3, <3>4
  <2>6. CASE Retarget(n)
    <3>1. Now(x) = Text[x]
      BY <2>2, <2>6 DEF Retarget
    <3>. QED  BY <3>1
  <2>. QED  BY <1>1, <2>3, <2>4, <2>5, <2>6
<1>7. None \notin Calls
  OBVIOUS
<1> HIDE DEF Now
<1>. QED  BY <1>3, <1>4, <1>6, <1>7, Mapping

LEMMA InitiallyNew ==
    ASSUME Init, FilesOK
    PROVE  Serial!Init /\ NewOnes
<1>1. call = [c \in Calls |-> IdleCall]
  BY DEF Init
<1>2. IdleCall.kind = "plain" /\ IdleCall.replaced = 0 /\ IdleCall.pc = "idle"
  BY DEF IdleCall
<1>3. Keeps = [c \in Calls |-> FALSE] /\ Replaced = [c \in Calls |-> 0]
  BY <1>1, <1>2 DEF Keeps, Replaced
<1>4. Editing = [c \in Calls |-> None]
  BY <1>1, <1>2 DEF Editing, EditOf
<1>5. ASSUME NEW n \in Names
      PROVE  Text[n] \in {None} \cup [marks : {<<>>}, matches : 0..2]
  <2>1. directory[n] \in Inodes \cup {None}
    BY DEF FilesOK
  <2>2. ASSUME NEW i \in Inodes
        PROVE  data[i] \in [marks : {<<>>}, matches : 0..2]
    <3>1. PICK k \in 0..2 : data[i] = [marks |-> <<>>, matches |-> k]
      BY DEF Init
    <3>. QED  BY <3>1
  <2>. QED  BY <2>1, <2>2 DEF Text, TextAt
<1>6. Text \in [Names -> {None} \cup [marks : {<<>>}, matches : 0..2]]
  BY <1>5 DEF Text
<1>. QED  BY <1>1, <1>3, <1>4, <1>6, Mapping DEF NewOnes

LEMMA SameSeen ==
    ASSUME UNCHANGED Seen PROVE UNCHANGED (Serial!vars)
BY DEF Serial!vars, Seen, Text, Keeps, Replaced, Editing, EditOf, This, First

LEMMA CallEdits ==
    ASSUME IInv, NewOnes, NEW c \in Calls,
           Start(c) \/ FirstPass(c) \/ SecondPass(c)
    PROVE  (Serial!Next \/ UNCHANGED Seen) /\ NewOnes'
<1>1. FilesOK /\ CallsOK
  BY DEF IInv
<1>2. ASSUME \E s : Idles(c, s)
      PROVE  Serial!Next /\ NewOnes'
  BY <1>1, <1>2, IdlesAbandons DEF Serial!Next
<1>3. CASE Start(c)
  BY <1>1, <1>3, StartChooses DEF Serial!Next
<1>4. CASE FirstPass(c)
  BY <1>1, <1>2, <1>4, FirstPassIdles
<1>5. CASE Rename(c)
  BY <1>1, <1>5, RenameFinishes DEF Serial!Next
<1>6. CASE Compare(c) /\ ~Fail(c)
  <2>1. /\ \E n \in Names, direct \in BOOLEAN : Serial!Begin(c, n, direct)
        /\ NewOnes'
    BY <1>6, CompareBegins
  <2>. QED  BY <2>1 DEF Serial!Next
<1>7. CASE Check(c) /\ Unchanged(c) /\ call[c].kind = "same"
  BY <1>1, <1>7, SameKeeps DEF Serial!Next
<1>8. CASE \/ LockNameMutex(c) \/ LockNameFile(c) \/ LockTargetMutex(c)
           \/ LockTargetFile(c) \/ FileFails(c) \/ Reopen(c)
           \/ Check(c) /\ ~(Unchanged(c) /\ call[c].kind = "same")
           \/ (Compare(c) /\ Fail(c)) \/ Report(c)
  BY <1>1, <1>2, <1>8, SecondPassIdles
<1>. QED  BY <1>3, <1>4, <1>5, <1>6, <1>7, <1>8 DEF SecondPass

(* Calls that edit one file, through whatever paths and in whatever        *)
(* processes, edit it one after the other (locks.rs, replace.rs): every    *)
(* step of theirs is a step of SerialEdits, or changes nothing that it     *)
(* speaks of.                                                              *)
THEOREM Serializable == Spec => EditsAreSerial
<1>1. IInv /\ NewOnes /\ [Next]_vars
        => [Serial!Next]_(Serial!vars) /\ NewOnes'
  <2> SUFFICES ASSUME IInv, NewOnes, [Next]_vars
               PROVE  (Serial!Next \/ UNCHANGED Seen) /\ NewOnes'
    BY SameSeen
  <2>1. CASE OthersAct
    <3>1. Serial!Next
      BY <2>1, OthersEdit DEF IInv, Serial!Next
    <3>2. call' = call
      BY <2>1, OthersFiles DEF IInv
    <3>. QED  BY <3>1, <3>2 DEF NewOnes
  <2>2. CASE \E c \in Calls : Start(c) \/ FirstPass(c) \/ SecondPass(c)
    BY <2>2, CallEdits
  <2>3. CASE UNCHANGED vars
    BY <2>3 DEF vars, Seen, Text, TextAt, Keeps, Editing, EditOf, Replaced,
                NewOnes
  <2>. QED  BY <2>1, <2>2, <2>3 DEF Next
<1>2. Init /\ IInv => Serial!Init /\ NewOnes
  BY InitiallyNew DEF IInv
<1>. QED  BY <1>1, <1>2, Invariance, PTL DEF Spec, EditsAreSerial, Serial!Spec
=============================================================================

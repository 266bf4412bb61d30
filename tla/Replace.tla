------------------------------ MODULE Replace -------------------------------
(***************************************************************************)
(* The replace tool (edit/replace.rs, locks.rs, document.rs).  A call      *)
(* works in two passes.  The first opens every candidate, counts the       *)
(* matches of the whole tree against max_replacements, and writes nothing. *)
(* The second takes the analysed files one by one, in the order of their   *)
(* identities: under locks on the file's name and on its identity it opens *)
(* the file again, makes sure that it still is the file and the text of    *)
(* the first pass, compares the bytes once more and renames a new file     *)
(* into place.                                                             *)
(*                                                                         *)
(* Locks exclude the calls of one server (mutexes) and of other processes  *)
(* (file locks).  Editors and other programs take no locks: they save,     *)
(* move and link files, and turn symbolic links, between any two steps.    *)
(*                                                                         *)
(* A text is who wrote it and how many matches the pattern has in it.      *)
(***************************************************************************)
EXTENDS Naturals, Sequences, FiniteSets, SequencesExt

CONSTANTS
    Calls,          \* calls of the tool
    Servers,        \* FastCtx processes
    ServersOf(_),   \* ServersOf(c): the processes that may serve call c
    Names,          \* file names in the tree
    Alias,          \* a symbolic link in the tree
    Inodes,         \* identities of files
    None,
    MaxTrouble      \* bound: changes by others and failing operations

MaxMatches == 2
Texts == [marks : Seq(Calls \cup {None}), matches : 0..MaxMatches]
Edits == [name : Names, base : Texts, direct : BOOLEAN]

ASSUME ReplaceAssumption ==
    /\ \A c \in Calls : ServersOf(c) \subseteq Servers
    /\ Alias \notin Names /\ None \notin Names \cup Inodes \cup Calls
    /\ Names # {} /\ IsFiniteSet(Names)
    /\ Inodes \subseteq Nat /\ 1..(Cardinality(Names) + 1) \subseteq Inodes
    \* The locks on names and those on identities have keys of their own.
    /\ Names \cap Inodes = {}
    /\ MaxTrouble \in Nat
    /\ None \notin Texts \cup Edits

VARIABLES
    directory,      \* directory[n]: the inode of name n, or None
    alias,          \* the name that the symbolic link leads to
    data,           \* data[i]: the text of inode i
    call,           \* the calls
    held,           \* held[c]: the locks that call c holds
    trouble         \* how much of the bound is used up

vars == <<directory, alias, data, call, held, trouble>>

Paths == Names \cup {Alias}
-----------------------------------------------------------------------------
(* Files                                                                   *)

Resolve(path) == IF path = Alias THEN alias ELSE path
Used == {directory[n] : n \in Names} \ {None}
TextAt(n) == IF directory[n] = None THEN None ELSE data[directory[n]]
(* A freed identity is used again at once, which is the worst case.        *)
FreshInode == CHOOSE i \in Inodes \ Used : \A j \in Inodes \ Used : i <= j
HardLinked(n) == \E m \in Names \ {n} : directory[m] = directory[n]

(* TextDocument::open; a failure of another kind is MayFail's.             *)
CanOpen(path) ==
    directory[Resolve(path)] # None /\ ~HardLinked(Resolve(path))
Document(path) == [target |-> Resolve(path), raw |-> TextAt(Resolve(path))]

Edited(c, base) == [marks |-> Append(base.marks, c), matches |-> 0]
-----------------------------------------------------------------------------
(* Locks: a mutex of the server and a file lock, on a name or an inode.    *)

Mutex(c, key) == <<"mutex", call[c].server, key>>
FileLock(key) == <<"file", None, key>>
Free_MutexOnly(lock) ==
    lock[1] = "mutex" => \A c \in Calls : lock \notin held[c]
Free(lock) == \A c \in Calls : lock \notin held[c]
-----------------------------------------------------------------------------
(* Calls                                                                   *)

(* A call without more; with max_replacements 1; whose replacement is the  *)
(* text that it replaces; and a preview.                                   *)
Kinds == {"plain", "capped", "same", "dry_run"}
Cap(cl) == IF cl.kind = "capped" THEN 1 ELSE MaxMatches * Cardinality(Names)

IdleCall == [pc |-> "idle", server |-> None, kind |-> "plain",
             todo |-> <<>>, single |-> FALSE, doc |-> None, seen |-> {},
             total |-> 0, plan |-> {}, replaced |-> 0, written |-> 0,
             failed |-> FALSE, verdict |-> "none"]

(* What a call no longer reads is dropped.                                 *)
Ended(cl, verdict) == [IdleCall EXCEPT !.pc = "done", !.verdict = verdict,
    !.kind = cl.kind, !.replaced = cl.replaced, !.written = cl.written]
SecondPassOf(cl) == [cl EXCEPT !.pc = "next", !.doc = None,
                               !.seen = {}, !.total = 0]

At(c, pc) == call[c].pc = pc
Become(c, changed) == call' = [call EXCEPT ![c] = changed]
Goto(c, pc) == Become(c, [call[c] EXCEPT !.pc = pc])
(* The analysed files are taken in the order of their identities.          *)
This(c) == CHOOSE file \in call[c].plan :
              \A other \in call[c].plan : file.inode <= other.inode
MayFail == trouble < MaxTrouble
Fault == trouble' = trouble + 1

(* A call names one file or the whole tree; the walk finds what is there.  *)
Start(c) ==
    /\ At(c, "idle")
    /\ \E path \in Paths \cup {None}, kind \in Kinds,
          server \in ServersOf(c) :
          /\ path # None => directory[Resolve(path)] # None
          /\ Become(c, [IdleCall EXCEPT !.pc = "open", !.kind = kind,
                !.server = server, !.single = path # None,
                !.todo = IF path # None THEN <<Resolve(path)>>
                         ELSE SetToSeq({p \in Paths :
                                          directory[Resolve(p)] # None})])
    /\ UNCHANGED <<directory, alias, data, held, trouble>>

(* The first pass goes on, or ends the call when its only file failed.     *)
Rejected(cl) ==
    IF cl.single THEN Ended(cl, "error")
    ELSE [cl EXCEPT !.pc = "open", !.todo = Tail(@), !.failed = TRUE,
                    !.doc = None]
Passed(cl) == [cl EXCEPT !.pc = "open", !.todo = Tail(@), !.doc = None]

OpenCandidate(c) ==
    LET path == Head(call[c].todo) IN
    /\ At(c, "open") /\ call[c].todo # <<>>
    /\ IF CanOpen(path)
       THEN Become(c, [call[c] EXCEPT !.pc = "identify",
                                      !.doc = Document(path)])
       ELSE Become(c, Rejected(call[c]))
    /\ UNCHANGED <<directory, alias, data, held, trouble>>

(* A binary file, an ambiguous encoding or a file over the limit is        *)
(* skipped, and not counted as a failure.                                  *)
CandidateSkipped(c) ==
    /\ At(c, "open") /\ call[c].todo # <<>> /\ MayFail
    /\ Become(c, IF call[c].single THEN Rejected(call[c])
                 ELSE Passed(call[c]))
    /\ Fault
    /\ UNCHANGED <<directory, alias, data, held>>

(* The identity is looked up after the text was read.  A file seen under   *)
(* another path, or without a match, is done with.                         *)
Identify(c) ==
    LET cl == call[c]
        inode == directory[cl.doc.target]
        matches == cl.doc.raw.matches
        counted == [cl EXCEPT !.seen = @ \cup {inode}, !.total = @ + matches]
    IN  /\ At(c, "identify")
        /\ Become(c,
             IF inode = None THEN Rejected(cl)
             ELSE IF inode \in cl.seen THEN Passed(cl)
             ELSE IF matches = 0 THEN Passed(counted)
             ELSE Passed([counted EXCEPT !.plan = @ \cup
                    {[path |-> Head(cl.todo), name |-> cl.doc.target,
                      inode |-> inode, raw |-> cl.doc.raw]}]))
        /\ UNCHANGED <<directory, alias, data, held, trouble>>

(* The result would be too large, or cannot be encoded; its matches count. *)
Unreplaceable(c) ==
    LET cl == call[c]
        inode == directory[cl.doc.target]
    IN  /\ At(c, "identify") /\ MayFail
        /\ inode # None /\ inode \notin cl.seen /\ cl.doc.raw.matches > 0
        /\ Become(c, Rejected([cl EXCEPT !.seen = @ \cup {inode},
                                   !.total = @ + cl.doc.raw.matches]))
        /\ Fault
        /\ UNCHANGED <<directory, alias, data, held>>

Decide(c) ==
    LET cl == call[c] IN
    /\ At(c, "open") /\ cl.todo = <<>>
    /\ Become(c,
         IF cl.total > Cap(cl) THEN Ended(cl, "refused")
         ELSE IF cl.kind = "dry_run" THEN Ended(cl, "preview")
         ELSE SecondPassOf(cl))
    /\ UNCHANGED <<directory, alias, data, held, trouble>>
-----------------------------------------------------------------------------
(* The second pass.  Every way out of a file drops its locks.              *)

Release(c) == held' = [held EXCEPT ![c] = {}]
Fail(c) ==
    /\ Become(c, [call[c] EXCEPT !.pc = "next", !.plan = @ \ {This(c)},
                                 !.doc = None, !.failed = TRUE])
    /\ Release(c)
Succeed_KeepsLocks(c) ==
    /\ Become(c, [call[c] EXCEPT !.pc = "next", !.plan = @ \ {This(c)},
                    !.doc = None, !.replaced = @ + 1,
                    !.written = @ + call[c].doc.raw.matches])
    /\ UNCHANGED held
Succeed(c) ==
    /\ Become(c, [call[c] EXCEPT !.pc = "next", !.plan = @ \ {This(c)},
                    !.doc = None, !.replaced = @ + 1,
                    !.written = @ + call[c].doc.raw.matches])
    /\ Release(c)

Lock(c, pc, lock, next) ==
    /\ At(c, pc) /\ Free(lock)
    /\ held' = [held EXCEPT ![c] = @ \cup {lock}]
    /\ Goto(c, next)
    /\ UNCHANGED <<directory, alias, data, trouble>>

LockNameMutex(c) ==
    /\ call[c].plan # {}
    /\ Lock(c, "next", Mutex(c, This(c).name), "name_file")
LockNameFile(c) == Lock(c, "name_file", FileLock(This(c).name), "target")
LockTargetMutex(c) ==
    Lock(c, "target", Mutex(c, This(c).inode), "target_file")
LockTargetFile(c) ==
    Lock(c, "target_file", FileLock(This(c).inode), "reopen")

(* A lock file that cannot be locked, a file that cannot be read or        *)
(* encoded any more, a temporary that cannot be written: the file fails.   *)
FileFails(c) ==
    /\ call[c].pc \in {"name_file", "target_file", "reopen", "check", "rename"}
    /\ MayFail
    /\ Fail(c) /\ Fault
    /\ UNCHANGED <<directory, alias, data>>

Reopen(c) ==
    /\ At(c, "reopen")
    /\ IF CanOpen(This(c).path)
       THEN /\ Become(c, [call[c] EXCEPT !.pc = "check",
                                         !.doc = Document(This(c).path)])
            /\ UNCHANGED held
       ELSE Fail(c)
    /\ UNCHANGED <<directory, alias, data, trouble>>

(* The identity, then the revision and the number of matches, are those of *)
(* the first pass.  A replacement that changes no byte is not written.     *)
Unchanged_Identity(c) == directory[call[c].doc.target] = This(c).inode
Unchanged(c) ==
    /\ directory[call[c].doc.target] = This(c).inode
    /\ call[c].doc.raw = This(c).raw

Check(c) ==
    /\ At(c, "check")
    /\ IF ~Unchanged(c) THEN Fail(c)
       ELSE IF call[c].kind = "same" THEN Succeed(c)
       ELSE Goto(c, "compare") /\ UNCHANGED held
    /\ UNCHANGED <<directory, alias, data, trouble>>

(* TextDocument::commit: the bytes are compared again, the links counted.  *)
Compare(c) ==
    LET doc == call[c].doc IN
    /\ At(c, "compare")
    /\ IF TextAt(doc.target) = doc.raw /\ ~HardLinked(doc.target)
       THEN Goto(c, "rename") /\ UNCHANGED held
       ELSE Fail(c)
    /\ UNCHANGED <<directory, alias, data, trouble>>

(* A new file takes the name: the identity changes with every edit.        *)
Rename(c) ==
    LET doc == call[c].doc IN
    /\ At(c, "rename")
    /\ data' = [data EXCEPT ![FreshInode] = Edited(c, doc.raw)]
    /\ directory' = [directory EXCEPT ![doc.target] = FreshInode]
    /\ Succeed(c)
    /\ UNCHANGED <<alias, trouble>>

Report(c) ==
    /\ At(c, "next") /\ call[c].plan = {}
    /\ Become(c, Ended(call[c],
                    IF call[c].failed THEN "partial" ELSE "complete"))
    /\ UNCHANGED <<directory, alias, data, held, trouble>>
-----------------------------------------------------------------------------
(* Others: an editor saves in place or by a rename, a program moves a file *)
(* over another or links it, the symbolic link is turned.                  *)

Other == trouble < MaxTrouble /\ trouble' = trouble + 1
         /\ UNCHANGED <<call, held>>

SaveInPlace(n, matches) ==
    /\ directory[n] # None /\ Other
    /\ data' = [data EXCEPT ![directory[n]] =
                   [marks |-> Append(@.marks, None), matches |-> matches]]
    /\ UNCHANGED <<directory, alias>>

SaveByRename(n, matches) ==
    /\ directory[n] # None /\ Other
    /\ data' = [data EXCEPT ![FreshInode] =
                [marks |-> Append(TextAt(n).marks, None), matches |-> matches]]
    /\ directory' = [directory EXCEPT ![n] = FreshInode]
    /\ UNCHANGED alias

Move(n, m) ==
    /\ n # m /\ directory[n] # None /\ Other
    /\ directory' = [directory EXCEPT ![m] = directory[n], ![n] = None]
    /\ UNCHANGED <<alias, data>>

(* ln -f: a second name for the file, in place of the file it names.       *)
HardLink(n, m) ==
    /\ directory[n] # None /\ directory[m] # directory[n] /\ Other
    /\ directory' = [directory EXCEPT ![m] = directory[n]]
    /\ UNCHANGED <<alias, data>>

Retarget(n) ==
    /\ alias # n /\ Other
    /\ alias' = n
    /\ UNCHANGED <<directory, data>>

OthersAct ==
    \E n \in Names :
        \/ \E matches \in 0..MaxMatches :
              SaveInPlace(n, matches) \/ SaveByRename(n, matches)
        \/ \E m \in Names : Move(n, m) \/ HardLink(n, m)
        \/ Retarget(n)
-----------------------------------------------------------------------------
Init ==
    /\ directory = CHOOSE d \in [Names -> 1..Cardinality(Names)] :
                      \A n, m \in Names : n # m => d[n] # d[m]
    /\ data = [i \in Inodes |->
                 [marks |-> <<>>, matches |-> IF i \in Used THEN 1 ELSE 0]]
    /\ alias = CHOOSE n \in Names : TRUE
    /\ call = [c \in Calls |-> IdleCall]
    /\ held = [c \in Calls |-> {}]
    /\ trouble = 0

FirstPass(c) == OpenCandidate(c) \/ CandidateSkipped(c) \/ Identify(c)
                    \/ Unreplaceable(c) \/ Decide(c)
SecondPass(c) ==
    \/ LockNameMutex(c) \/ LockNameFile(c) \/ LockTargetMutex(c)
    \/ LockTargetFile(c) \/ FileFails(c) \/ Reopen(c) \/ Check(c)
    \/ Compare(c) \/ Rename(c) \/ Report(c)

Next == OthersAct \/ \E c \in Calls : Start(c) \/ FirstPass(c) \/ SecondPass(c)

Spec == Init /\ [][Next]_vars
-----------------------------------------------------------------------------
(* Properties                                                              *)

(* Locks are only held by a call inside the second pass of a file, and no  *)
(* lock by two calls.                                                      *)
TypeOK ==
    /\ directory \in [Names -> Inodes \cup {None}]
    /\ alias \in Names
    /\ data \in [Inodes -> Texts]
    /\ \A c \in Calls :
          /\ held[c] # {} => call[c].pc \in {"name_file", "target",
                 "target_file", "reopen", "check", "compare", "rename"}
          /\ \A d \in Calls \ {c} : held[c] \cap held[d] = {}

(* Concurrent replaces of one file through whatever paths and processes    *)
(* are serial: no edit of a call undoes one of another, a file reported as *)
(* replaced was, and one reported as failed was not touched.  The name     *)
(* that is locked is the one the first pass resolved: a call whose         *)
(* symbolic link was turned since may edit its file under another.         *)
Serial == INSTANCE SerialEdits WITH
    text <- [n \in Names |-> TextAt(n)],
    keeps <- [c \in Calls |-> call[c].kind = "same"],
    editing <- [c \in Calls |->
        IF call[c].pc = "rename"
        THEN [name |-> call[c].doc.target, base |-> call[c].doc.raw,
              direct |-> call[c].doc.target = This(c).name]
        ELSE None],
    replaced <- [c \in Calls |-> call[c].replaced]
EditsAreSerial == Serial!Spec

(* max_replacements: what a call writes never exceeds its cap, although    *)
(* the matches were counted before the locks, and a call that refuses or   *)
(* previews writes nothing.                                                *)
BlastRadius ==
    /\ TypeOK
    /\ \A c \in Calls :
          /\ call[c].written <= Cap(call[c])
          /\ call[c].verdict \in {"refused", "preview", "error"} =>
                \A i \in Inodes : c \notin Range(data[i].marks)

(* The locks of several calls and processes cannot be waited for in a      *)
(* circle, in whatever order the plans list the files: among any calls     *)
(* there is one that waits for none of them.                               *)
Wanted(c) ==
    CASE At(c, "next") /\ call[c].plan # {} -> {Mutex(c, This(c).name)}
      [] At(c, "name_file") -> {FileLock(This(c).name)}
      [] At(c, "target") -> {Mutex(c, This(c).inode)}
      [] At(c, "target_file") -> {FileLock(This(c).inode)}
      [] OTHER -> {}
NoCircularWait ==
    \A some \in (SUBSET Calls) \ {{}} :
        \E c \in some : \A d \in some : Wanted(c) \cap held[d] = {}
=============================================================================

---------------------------- MODULE UpdateCheck ----------------------------
(* The update check and its cache (update/check.rs, update/cache.rs).  A   *)
(* checker is one worker thread of a FastCtx process; they share the two   *)
(* private files of their installation source: the last successful outcome *)
(* and the last attempt.  A step is one access to a file or one probe of   *)
(* the network.                                                            *)
(*                                                                         *)
(* Versions are numbers.  What a probe concludes from the registries'      *)
(* answers is UpdateSource; here it sees the published version or fails.   *)
EXTENDS Integers, FiniteSets

CONSTANTS
    Checkers,
    Version,      \* the running version of their process
    Newest,       \* bound: the newest version there is
    MaxChecks,    \* bound: checks that are begun
    MaxTrouble    \* bound: failing file accesses, settings reads and probes

ASSUME CheckAssumption ==
    /\ Newest \in Nat /\ Version \in 2..(Newest - 1)
    /\ {MaxChecks, MaxTrouble} \subseteq Nat

VARIABLES
    success,      \* cache-<source>.json
    last,         \* last-<source>.json
    check,        \* check[c]: where a checker is, with what it has read or found
    begun, trouble

checks == <<success, last, check, begun, trouble>>

Outcome(kind, target) == [kind |-> kind, target |-> target]
NoOutcome == Outcome("none", 0)
Failure == Outcome("failed", 0)
Found == {Outcome("current", 0)} \cup [kind : {"available"}, target : 1..Newest]

(* Enough generations that a new one is never one still in use.            *)
Generations == 1..(Cardinality(Checkers) + 3)
NoRecord == [gen |-> 0, version |-> 0, outcome |-> NoOutcome]
Record(gen, version, outcome) ==
    [gen |-> gen, version |-> version, outcome |-> outcome]
NewGeneration ==
    CHOOSE g \in Generations :
        /\ g # success.gen /\ g # last.gen /\ \A c \in Checkers : g # check[c].held.gen
        /\ \A h \in 1..(g - 1) :
              \/ h = success.gen \/ h = last.gen
              \/ \E c \in Checkers : h = check[c].held.gen

Idle == [pc |-> "idle", force |-> FALSE, held |-> NoRecord, result |-> NoOutcome]
Fault == trouble < MaxTrouble /\ trouble' = trouble + 1
Sound == UNCHANGED trouble

At(c, pc) == check[c].pc = pc
GoTo(c, pc) == check' = [check EXCEPT ![c].pc = pc]
(* What was read or found on the way is not looked at again.               *)
Ends(c, result) ==
    check' = [check EXCEPT ![c] = [Idle EXCEPT !.pc = "done", !.result = result]]
-----------------------------------------------------------------------------
Begin(c, force) ==
    /\ check[c].pc \in {"idle", "done"} /\ begun < MaxChecks /\ begun' = begun + 1
    /\ check' = [check EXCEPT ![c] = [Idle EXCEPT !.pc = "gate", !.force = force]]
    /\ UNCHANGED <<success, last, trouble>>

(* Settings that cannot be read fail even a forced check; an environment   *)
(* variable or the settings turn an automatic one off.                     *)
Gate(c) ==
    /\ At(c, "gate")
    /\ \/ Fault /\ Ends(c, Failure)
       \/ Sound /\ ~check[c].force /\ Ends(c, NoOutcome)
       \/ Sound /\ GoTo(c, IF check[c].force THEN "invalidate" ELSE "readSuccess")
    /\ UNCHANGED <<success, last>>

Invalidate(c) ==
    /\ At(c, "invalidate")
    /\ \/ Sound /\ success' = NoRecord
       \/ Fault /\ UNCHANGED success
    /\ GoTo(c, "probe") /\ UNCHANGED last

(* A record is of no use once SUCCESS_TTL has passed since it was made, or *)
(* the clock has gone back behind it; both may happen before any read.     *)
ReadSuccess(c) ==
    /\ At(c, "readSuccess")
    /\ \/ GoTo(c, "probe")
       \/ success # NoRecord
          /\ check' = [check EXCEPT ![c].pc = "readLast", ![c].held = success]
    /\ UNCHANGED <<success, last, trouble>>

UsableHit_AnyVersion(record) == record.gen = last.gen /\ record.outcome = last.outcome
UsableHit(record) ==
    /\ record.version = Version
    /\ record.gen = last.gen /\ record.outcome = last.outcome

ReadLast(c) ==
    /\ At(c, "readLast")
    /\ IF UsableHit(check[c].held) THEN Ends(c, check[c].held.outcome)
       ELSE check' = [check EXCEPT ![c].pc = "probe", ![c].held = NoRecord]
    /\ UNCHANGED <<success, last, trouble>>

(* An npm release is pending until the mirrors have all of its packages,   *)
(* and then there is nothing to offer, as for a version that is current.   *)
Probe(c) ==
    /\ At(c, "probe")
    /\ \/ /\ Sound
          /\ \E found \in Found :
                /\ found.kind = "available" => found.target > Version
                /\ check' = [check EXCEPT
                      ![c].pc = "writeLast",
                      ![c].held = Record(NewGeneration, Version, found)]
       \/ Fault /\ GoTo(c, "recordFailure")
    /\ UNCHANGED <<success, last>>

(* The record of the attempt precedes the success, the commit point.       *)
WriteLast(c) ==
    /\ At(c, "writeLast")
    /\ \/ Sound /\ last' = check[c].held /\ GoTo(c, "writeSuccess")
       \/ Fault /\ GoTo(c, "recordFailure") /\ UNCHANGED last
    /\ UNCHANGED success

WriteSuccess(c) ==
    /\ At(c, "writeSuccess")
    /\ \/ Sound /\ success' = check[c].held /\ Ends(c, check[c].held.outcome)
       \/ Fault /\ GoTo(c, "recordFailure") /\ UNCHANGED success
    /\ UNCHANGED last

RecordFailure(c) ==
    /\ At(c, "recordFailure")
    /\ \/ Sound /\ last' = Record(NewGeneration, Version, Failure)
       \/ Fault /\ UNCHANGED last
    /\ Ends(c, Failure) /\ UNCHANGED success

Work(c) ==
    /\ UNCHANGED begun
    /\ \/ Gate(c) \/ Invalidate(c) \/ ReadSuccess(c) \/ ReadLast(c) \/ Probe(c)
       \/ WriteLast(c) \/ WriteSuccess(c) \/ RecordFailure(c)

-----------------------------------------------------------------------------
(* What a check may have left in the cache: a record of its own version or *)
(* of the one before, and after it perhaps that of a failure.              *)
CheckInit ==
    /\ \E old \in {Version - 1, Version} :
          /\ success \in {NoRecord, Record(1, old, Outcome("available", old + 1))}
          /\ last \in {success, Record(2, old, Failure)}
    /\ check = [c \in Checkers |-> Idle] /\ begun = 0 /\ trouble = 0

Records == [gen : Generations \cup {0}, version : 0..Newest,
            outcome : Found \cup {NoOutcome, Failure}]
CheckTypeOK ==
    /\ success \in Records /\ last \in Records
    /\ check \in [Checkers -> [
          pc : {"idle", "gate", "invalidate", "readSuccess", "readLast", "probe",
                "writeLast", "writeSuccess", "recordFailure", "done"},
          force : BOOLEAN, held : Records, result : Found \cup {NoOutcome, Failure}]]
    /\ begun \in 0..MaxChecks /\ trouble \in 0..MaxTrouble

(* load_fresh_success, record_success: whatever earlier checks, failures   *)
(* and deaths have left in the cache, an update that is on offer is one to *)
(* a version newer than the running one.                                   *)
OffersAreSound ==
    \A c \in Checkers : check[c].result.kind = "available" =>
       check[c].result.target \in (Version + 1)..Newest
=============================================================================

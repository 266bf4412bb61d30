------------------------- MODULE ServerCallsProofs --------------------------
(* Proofs about ServerCalls, for any number of calls and jobs, any kinds   *)
(* and lanes, and any budget, hard limit and length of the logs.           *)
EXTENDS ServerCalls, FiniteSetTheorems, TLAPS

Holding == Working \cup {"answering"}
Ticketed == {"queued", "admitted", "early"}
Stages == Holding \cup Ticketed \cup {"waiting", "failed", "answered"}

CallRecord ==
    [stage : Stages, kind : Kinds, job : Jobs \cup {NoJob},
     allowance : 0..TokenBudget, exhausted : BOOLEAN,
     probing : SUBSET Jobs, missing : SUBSET Jobs,
     anchor : 0..MaxLines, page : 0..MaxLines, ended : BOOLEAN, withheld : BOOLEAN]
PoolRecord ==
    [quiet : BOOLEAN, active : Nat, unclaimed : Nat, spent : Nat, reserved : Nat]

Types ==
    /\ call \in [Calls -> CallRecord]
    /\ tracked \subseteq Jobs /\ known \subseteq Jobs /\ trouble \in 0..MaxTrouble
    /\ status \in [Jobs -> {"none", "running", "ended", "gone"}]
    /\ printed \in [Jobs -> 0..MaxLines] /\ cursor \in [Jobs -> 0..MaxLines]
    /\ covered \in [Jobs -> SUBSET (1..MaxLines)]

(* Who holds what, as a function of the table of calls: so that it can be  *)
(* asked of the table of this state and of that of the next.               *)
Tickets(f) == {c \in Calls : f[c].stage \in Ticketed}
Claims(f) == {c \in Calls : f[c].stage \in Holding}
Tokens(f) == {t \in Calls \X (1..TokenBudget) :
                 f[t[1]].stage \in Holding /\ t[2] <= f[t[1]].allowance}

(* The books of the pool are those of the calls that are there.            *)
Books ==
    /\ pool \in PoolRecord
    /\ pool.spent + pool.reserved <= HardLimit
    /\ pool.reserved = Cardinality(Tokens(call))
    /\ pool.unclaimed = Cardinality(Tickets(call))
    /\ pool.active = Cardinality(Tickets(call) \cup Claims(call))

(* A job begins once, by the one call that reserved its name; a call that  *)
(* is about a job knows which; and what a call concluded about a job that  *)
(* is over stays true.                                                     *)
Beginning(c) == call[c].kind = "start" /\ call[c].stage \in {"queued", "admitted", "listed", "ready"}
Following(c) == call[c].stage \in {"asking", "seen", "read"}
JobsBegin ==
    /\ \A c \in Calls :
          /\ call[c].kind \notin {"search", "plain"}
             /\ call[c].stage \in {"queued", "admitted", "listed", "ready", "launched",
                                   "asking", "seen", "read"}
                => call[c].job \in Jobs
          /\ call[c].stage = "launched" => call[c].kind = "start" /\ status[call[c].job] # "none"
          /\ Following(c) => call[c].kind = "output"
    /\ \A c \in Calls : Beginning(c) =>
          /\ status[call[c].job] = "none"
          /\ \A d \in Calls \ {c} : call[d].job # call[c].job
    /\ \A j \in known : status[j] # "none"
JobsEnd ==
    /\ \A c \in Calls : \A j \in call[c].missing : status[j] = "gone"
    /\ \A c \in Calls : call[c].stage \in {"seen", "read"} /\ call[c].ended
                           => status[call[c].job] \in {"ended", "gone"}
Anchored ==
    \A c \in Calls : Following(c) => 1..call[c].anchor \subseteq covered[call[c].job]

IInv == /\ Types /\ Books /\ JobsBegin /\ JobsEnd /\ Anchored
        /\ RunningJobsStayListed /\ NothingIsPassedOver
-----------------------------------------------------------------------------
(* Helpers *)

LEMMA Constants ==
    /\ TokenBudget \in Nat /\ HardLimit \in Nat /\ StubTokens \in Nat \ {0}
    /\ MaxLines \in Nat /\ MaxTrouble \in Nat
    /\ StubTokens <= TokenBudget /\ TokenBudget <= HardLimit
    /\ IsFiniteSet(Calls) /\ NoJob \notin Jobs
BY CallsAssumption

LEMMA MaxOfTwo ==
    ASSUME NEW a \in Int, NEW b \in Int
    PROVE  /\ Max({a, b}) \in {a, b}
           /\ Max({a, b}) >= a /\ Max({a, b}) >= b
<1>1. \E x \in {a, b} : \A y \in {a, b} : x >= y
  OBVIOUS
<1> QED
  BY <1>1 DEF Max

LEMMA MinOfTwo ==
    ASSUME NEW a \in Int, NEW b \in Int
    PROVE  /\ Min({a, b}) \in {a, b}
           /\ Min({a, b}) <= a /\ Min({a, b}) <= b
<1>1. \E x \in {a, b} : \A y \in {a, b} : x <= y
  OBVIOUS
<1> QED
  BY <1>1 DEF Min

LEMMA MinOfThree ==
    ASSUME NEW a \in Int, NEW b \in Int, NEW d \in Int
    PROVE  /\ Min({a, b, d}) \in {a, b, d}
           /\ Min({a, b, d}) <= a /\ Min({a, b, d}) <= b /\ Min({a, b, d}) <= d
<1>1. \E x \in {a, b, d} : \A y \in {a, b, d} : x <= y
  OBVIOUS
<1> QED
  BY <1>1 DEF Min

LEMMA NoCallType == NoCall \in CallRecord
BY Constants DEF NoCall, CallRecord, Stages, Kinds

(* The share of a call: no more than is left under the hard limit.         *)
LEMMA AllowanceFits ==
    ASSUME pool \in PoolRecord, pool.unclaimed # 0, pool.spent + pool.reserved <= HardLimit
    PROVE  /\ Allowance \in 0..TokenBudget
           /\ pool.spent + pool.reserved + Allowance <= HardLimit
<1> DEFINE used == pool.spent + pool.reserved
           remaining == Max({TokenBudget - used, 0})
           hard == Max({HardLimit - used, 0})
           share == Max({remaining \div pool.unclaimed, StubTokens})
<1>1. used \in Nat /\ pool.unclaimed \in Nat \ {0} /\ used <= HardLimit
  BY DEF PoolRecord
<1>2. remaining \in Nat
  <2>1. TokenBudget - used \in Int /\ 0 \in Int
    BY <1>1, Constants
  <2>2. remaining \in {TokenBudget - used, 0} /\ remaining >= 0
    BY <2>1, MaxOfTwo
  <2> QED
    BY <2>1, <2>2
<1>3. hard \in Nat /\ hard = HardLimit - used
  <2>1. HardLimit - used \in Int /\ HardLimit - used >= 0 /\ 0 \in Int
    BY <1>1, Constants
  <2>2. hard \in {HardLimit - used, 0} /\ hard >= HardLimit - used
    BY <2>1, MaxOfTwo
  <2> QED
    BY <2>1, <2>2
<1>4. remaining \div pool.unclaimed \in Nat
  <2> HIDE DEF remaining
  <2> QED
    BY <1>1, <1>2
<1>5. share \in Nat
  <2> HIDE DEF remaining
  <2> DEFINE part == remaining \div pool.unclaimed
  <2>1. share \in {part, StubTokens}
    <3>1. part \in Int /\ StubTokens \in Int
      BY <1>4, Constants
    <3> HIDE DEF part
    <3>2. Max({part, StubTokens}) \in {part, StubTokens}
      BY <3>1, MaxOfTwo
    <3> QED
      BY <3>2 DEF part
  <2> QED
    BY <1>4, <2>1, Constants
<1>6. Allowance = Min({TokenBudget, share, hard})
  BY DEF Allowance
<1> HIDE DEF used, remaining, hard, share
<1>7. /\ Allowance \in {TokenBudget, share, hard}
      /\ Allowance <= TokenBudget /\ Allowance <= hard
  <2>1. TokenBudget \in Int /\ share \in Int /\ hard \in Int
    BY <1>3, <1>5, Constants
  <2> QED
    BY <2>1, <1>6, MinOfThree
<1>8. Allowance \in Nat
  BY <1>3, <1>5, <1>7, Constants
<1> QED
  BY <1>1, <1>3, <1>7, <1>8, Constants DEF used

-----------------------------------------------------------------------------
(* Types *)

LEMMA TypesInit == Init => Types
BY NoCallType, Constants DEF Init, Types

LEMMA RenderedType ==
    ASSUME Types, NEW c \in Calls, NEW answer
    PROVE  Rendered(c, answer) \in CallRecord
BY NoCallType DEF Rendered, Types, CallRecord, Stages, Holding, Working

LEMMA AnswersType ==
    ASSUME Types, NEW c \in Calls, NEW answer, Answers(c, answer)
    PROVE  call' \in [Calls -> CallRecord]
<1> DEFINE r == Rendered(c, answer)
<1>1. r \in CallRecord
  BY RenderedType
<1>2. call' = [call EXCEPT ![c] = r]
  BY DEF Answers
<1> HIDE DEF r
<1> QED
  BY <1>1, <1>2 DEF Types

LEMMA ClaimType ==
    ASSUME Types, Books, NEW c \in Calls, NEW stage \in Holding, call[c].stage \in Ticketed
    PROVE  WithClaim(c, stage) \in CallRecord
<1>1. c \in Tickets(call)
  BY DEF Tickets
<1>2. IsFiniteSet(Tickets(call))
  BY Constants, FS_Subset DEF Tickets
<1>3. pool.unclaimed # 0
  BY <1>1, <1>2, FS_EmptySet DEF Books
<1>4. Allowance \in 0..TokenBudget
  BY <1>3, AllowanceFits DEF Books
<1>5. Exhausted \in BOOLEAN
  BY DEF Exhausted
<1> QED
  BY ZenonT(40), <1>4, <1>5 DEF WithClaim, Types, CallRecord, Stages

LEMMA TypesStep == Types /\ Books /\ JobsBegin /\ [Next]_vars => Types'
<1> SUFFICES ASSUME Types, Books, JobsBegin, [Next]_vars PROVE Types'
  OBVIOUS
<1>0. MaxLines \in Nat /\ MaxTrouble \in Nat
  BY Constants
<1> USE DEF Types, CallRecord, Stages, Holding, Ticketed, Working
<1>1. ASSUME NEW c \in Calls, NEW kind \in Kinds, NEW j \in Jobs \cup {NoJob}, Arrive(c, kind, j)
      PROVE  Types'
  BY <1>1, NoCallType DEF Arrive, session, world
<1>2. ASSUME NEW c \in Calls, Admit(c) PROVE Types'
  BY <1>2 DEF Admit, Goes, session, world
<1>3. ASSUME NEW c \in Calls, AnswerEarly(c) PROVE Types'
  BY <1>3 DEF AnswerEarly, Goes, session, world
<1>4. ASSUME NEW c \in Calls, Claim(c) PROVE Types'
  <2>1. WithClaim(c, "listed") \in CallRecord
    BY <1>4, ClaimType DEF Claim, At
  <2> QED
    BY <1>4, <2>1 DEF Claim, session, world
<1>5. ASSUME NEW c \in Calls, NEW j \in Jobs, Probe(c, j) PROVE Types'
  BY <1>5 DEF Probe, world
<1>6. ASSUME NEW c \in Calls, Forget(c) PROVE Types'
  <2>1. call' \in [Calls -> CallRecord]
    <3>1. call[c] \in CallRecord
      OBVIOUS
    <3>2. [[call[c] EXCEPT !.stage = "ready"] EXCEPT !.missing = {}] \in CallRecord
      BY <3>1
    <3> QED
      BY <1>6, <3>2 DEF Forget
  <2> QED
    BY <1>6, <2>1 DEF Forget, world
<1>7. ASSUME NEW c \in Calls, Work(c) PROVE Types'
  BY <1>7, AnswersType DEF Work, session, world
<1>8. ASSUME NEW c \in Calls, Launch(c) PROVE Types'
  BY <1>8, AnswersType DEF Launch, Goes, session
<1>9. ASSUME NEW c \in Calls, Track(c) PROVE Types'
  <2>1. call[c].job \in Jobs
    BY <1>9 DEF Track, At, JobsBegin
  <2> QED
    BY <1>9, <2>1, AnswersType DEF Track, world
<1>10. ASSUME NEW c \in Calls, Anchor(c) PROVE Types'
  <2>1. call[c].job \in Jobs
    BY <1>10 DEF Anchor, At, Is, JobsBegin
  <2> QED
    BY SMTT(40), <1>0, <1>10, <2>1 DEF Anchor, world
<1>11. ASSUME NEW c \in Calls, Ask(c) PROVE Types'
  <2>1. call[c].job \in Jobs
    BY <1>11 DEF Ask, At, JobsBegin, Following
  <2> QED
    BY <1>11, <2>1, AnswersType DEF Ask, world
<1>12. ASSUME NEW c \in Calls, ReadLog(c) PROVE Types'
  <2>1. call[c].job \in Jobs
    BY <1>12 DEF ReadLog, At, JobsBegin, Following
  <2> QED
    BY <1>12, <2>1, AnswersType DEF ReadLog, session, world
<1>13. ASSUME NEW c \in Calls, MoveCursor(c) PROVE Types'
  <2> DEFINE j == call[c].job
             page == call[c].page
  <2>1. j \in Jobs
    BY <1>13 DEF MoveCursor, At, JobsBegin, Following
  <2>2. call' \in [Calls -> CallRecord]
    BY <1>13, AnswersType DEF MoveCursor
  <2>3. page \in 0..MaxLines /\ cursor[j] \in 0..MaxLines /\ call[c].anchor \in 0..MaxLines
    BY <2>1
  <2>4. Max({cursor[j], page}) \in 0..MaxLines
    <3>1. page \in Int /\ cursor[j] \in Int
      BY <1>0, <2>3
    <3> HIDE DEF page, j
    <3>2. Max({cursor[j], page}) \in {cursor[j], page}
      BY <3>1, MaxOfTwo
    <3> QED
      BY <2>3, <3>2
  <2>5. cursor' \in [Jobs -> 0..MaxLines]
    BY <1>13, <2>1, <2>4 DEF MoveCursor
  <2>6. covered' \in [Jobs -> SUBSET (1..MaxLines)]
    BY <1>0, <1>13, <2>1, <2>3 DEF MoveCursor
  <2> QED
    BY <1>13, <2>2, <2>5, <2>6 DEF MoveCursor, world
<1>14. ASSUME NEW c \in Calls, Kill(c) PROVE Types'
  BY <1>14, AnswersType DEF Kill, world
<1>15. ASSUME NEW c \in Calls, Panic(c) PROVE Types'
  <2>1. call' \in [Calls -> CallRecord]
    BY <1>15, NoCallType DEF Panic
  <2>2. trouble' \in 0..MaxTrouble
    BY <1>0, <1>15 DEF Panic, Fault
  <2> QED
    BY <1>15, <2>1, <2>2 DEF Panic, session, world
<1>16. ASSUME NEW c \in Calls, Retake(c) PROVE Types'
  BY <1>16 DEF Retake, session, world
<1>17. ASSUME NEW c \in Calls, ClaimEarly(c) PROVE Types'
  <2>1. WithClaim(c, "answering") \in CallRecord
    BY <1>17, ClaimType DEF ClaimEarly, At
  <2> QED
    BY <1>17, <2>1 DEF ClaimEarly, session, world
<1>18. ASSUME NEW c \in Calls, Deliver(c) PROVE Types'
  BY <1>18, NoCallType DEF Deliver, session, world
<1>19. ASSUME NEW j \in Jobs, AddLine(j) PROVE Types'
  BY <1>0, <1>19 DEF AddLine, session
<1>20. ASSUME NEW j \in Jobs, End(j) \/ Evict(j) PROVE Types'
  BY <1>20 DEF End, Evict, session
<1>21. CASE Quiet
  BY <1>21 DEF Quiet, session, world
<1>22. CASE UNCHANGED vars
  BY <1>22 DEF vars
<1> HIDE DEF Types
<1> QED
  BY <1>1, <1>2, <1>3, <1>4, <1>5, <1>6, <1>7, <1>8, <1>9, <1>10, <1>11, <1>12, <1>13,
     <1>14, <1>15, <1>16, <1>17, <1>18, <1>19, <1>20, <1>21, <1>22
     DEF Next, Step, Finished

-----------------------------------------------------------------------------
(* The books of the pool *)

LEMMA HoldersFinite ==
    ASSUME NEW f \in [Calls -> CallRecord]
    PROVE  /\ IsFiniteSet(Tickets(f)) /\ IsFiniteSet(Claims(f)) /\ IsFiniteSet(Tokens(f))
           /\ Cardinality(Tickets(f)) \in Nat /\ Cardinality(Tokens(f)) \in Nat
           /\ IsFiniteSet(Tickets(f) \cup Claims(f))
           /\ Cardinality(Tickets(f) \cup Claims(f)) \in Nat
<1>1. IsFiniteSet(Tickets(f)) /\ IsFiniteSet(Claims(f))
  BY Constants, FS_Subset DEF Tickets, Claims
<1>2. IsFiniteSet(1..TokenBudget)
  BY Constants, FS_Interval
<1>3. IsFiniteSet(Calls \X (1..TokenBudget))
  BY <1>2, Constants, FS_Product
<1>4. IsFiniteSet(Tokens(f))
  BY <1>3, FS_Subset DEF Tokens
<1> QED
  BY <1>1, <1>4, FS_CardinalityType, FS_Union

(* A claim of n tokens is n tokens.                                        *)
LEMMA ShareCounted ==
    ASSUME NEW c \in Calls, NEW n \in Nat
    PROVE  IsFiniteSet({c} \X (1..n)) /\ Cardinality({c} \X (1..n)) = n
<1>1. IsFiniteSet({c}) /\ Cardinality({c}) = 1
  BY FS_Singleton
<1>2. IsFiniteSet(1..n) /\ Cardinality(1..n) = n
  BY FS_Interval
<1>3. /\ IsFiniteSet({c} \X (1..n))
      /\ Cardinality({c} \X (1..n)) = Cardinality({c}) * Cardinality(1..n)
  BY <1>1, <1>2, FS_Product
<1> QED
  BY <1>1, <1>2, <1>3

LEMMA DisjointUnion ==
    ASSUME NEW S, NEW T, IsFiniteSet(S), IsFiniteSet(T), S \cap T = {}
    PROVE  Cardinality(S \cup T) = Cardinality(S) + Cardinality(T)
<1>1. Cardinality(S) \in Nat /\ Cardinality(T) \in Nat /\ Cardinality(S \cap T) = 0
  BY FS_CardinalityType, FS_EmptySet
<1>2. Cardinality(S \cup T) = Cardinality(S) + Cardinality(T) - Cardinality(S \cap T)
  BY FS_Union
<1> QED
  BY <1>1, <1>2

(* Between two tables that differ in what call c holds.                    *)
LEMMA TicketTaken ==
    ASSUME NEW f \in [Calls -> CallRecord], NEW g \in [Calls -> CallRecord], NEW c \in Calls,
           \A d \in Calls \ {c} : g[d] = f[d],
           f[c].stage \notin Ticketed \cup Holding, g[c].stage \in Ticketed
    PROVE  /\ Cardinality(Tickets(g)) = Cardinality(Tickets(f)) + 1
           /\ Cardinality(Tickets(g) \cup Claims(g)) = Cardinality(Tickets(f) \cup Claims(f)) + 1
           /\ Claims(g) = Claims(f) /\ Tokens(g) = Tokens(f)
<1> USE DEF Ticketed, Holding, Working
<1>1. Tickets(g) = Tickets(f) \cup {c} /\ c \notin Tickets(f) \cup Claims(f)
  BY DEF Tickets, Claims
<1>2. Claims(g) = Claims(f)
  BY DEF Claims
<1>3. Tokens(g) = Tokens(f)
  BY DEF Tokens
<1>4. Tickets(g) \cup Claims(g) = (Tickets(f) \cup Claims(f)) \cup {c}
  BY <1>1, <1>2
<1>5. IsFiniteSet(Tickets(f)) /\ IsFiniteSet(Tickets(f) \cup Claims(f))
  BY HoldersFinite
<1>6. Cardinality(Tickets(f) \cup {c}) = Cardinality(Tickets(f)) + 1
  BY <1>1, <1>5, FS_AddElement
<1>7. Cardinality((Tickets(f) \cup Claims(f)) \cup {c}) = Cardinality(Tickets(f) \cup Claims(f)) + 1
  BY <1>1, <1>5, FS_AddElement
<1> QED
  BY <1>1, <1>2, <1>3, <1>4, <1>6, <1>7

LEMMA TicketClaims ==
    ASSUME NEW f \in [Calls -> CallRecord], NEW g \in [Calls -> CallRecord], NEW c \in Calls,
           \A d \in Calls \ {c} : g[d] = f[d],
           f[c].stage \in Ticketed, g[c].stage \in Holding
    PROVE  /\ Cardinality(Tickets(g)) = Cardinality(Tickets(f)) - 1
           /\ Tickets(g) \cup Claims(g) = Tickets(f) \cup Claims(f)
           /\ Cardinality(Tokens(g)) = Cardinality(Tokens(f)) + g[c].allowance
<1> USE DEF Ticketed, Holding, Working
<1>1. Tickets(g) = Tickets(f) \ {c} /\ c \in Tickets(f)
  BY DEF Tickets
<1>2. Tickets(g) \cup Claims(g) = Tickets(f) \cup Claims(f)
  BY DEF Tickets, Claims
<1>3. Cardinality(Tickets(g)) = Cardinality(Tickets(f)) - 1
  BY <1>1, HoldersFinite, FS_RemoveElement
<1> DEFINE share == {c} \X (1..g[c].allowance)
<1>4. g[c].allowance \in Nat /\ g[c].allowance <= TokenBudget
  BY Constants DEF CallRecord
<1>5. Tokens(g) = Tokens(f) \cup share
  BY <1>4, Constants DEF Tokens
<1>6. Tokens(f) \cap share = {}
  BY DEF Tokens
<1>7. IsFiniteSet(share) /\ Cardinality(share) = g[c].allowance
  BY <1>4, ShareCounted
<1> HIDE DEF share
<1>8. Cardinality(Tokens(g)) = Cardinality(Tokens(f)) + g[c].allowance
  <2>1. IsFiniteSet(Tokens(f))
    BY HoldersFinite
  <2>2. Cardinality(Tokens(f) \cup share) = Cardinality(Tokens(f)) + Cardinality(share)
    BY <1>6, <1>7, <2>1, DisjointUnion
  <2> QED
    BY <1>5, <1>7, <2>2
<1> QED
  BY <1>2, <1>3, <1>8

LEMMA ClaimEnds ==
    ASSUME NEW f \in [Calls -> CallRecord], NEW g \in [Calls -> CallRecord], NEW c \in Calls,
           \A d \in Calls \ {c} : g[d] = f[d],
           f[c].stage \in Holding, g[c].stage \notin Ticketed \cup Holding
    PROVE  /\ Tickets(g) = Tickets(f)
           /\ Cardinality(Tickets(g) \cup Claims(g)) = Cardinality(Tickets(f) \cup Claims(f)) - 1
           /\ Cardinality(Tokens(g)) = Cardinality(Tokens(f)) - f[c].allowance
           /\ f[c].allowance \in Nat /\ f[c].allowance <= Cardinality(Tokens(f))
<1> USE DEF Ticketed, Holding, Working
<1>1. Tickets(g) = Tickets(f)
  BY DEF Tickets
<1>2. /\ Tickets(g) \cup Claims(g) = (Tickets(f) \cup Claims(f)) \ {c}
      /\ c \in Tickets(f) \cup Claims(f)
  BY DEF Tickets, Claims
<1>3. Cardinality(Tickets(g) \cup Claims(g)) = Cardinality(Tickets(f) \cup Claims(f)) - 1
  BY SMTT(40), <1>2, HoldersFinite, FS_RemoveElement
<1> DEFINE share == {c} \X (1..f[c].allowance)
<1>4. f[c].allowance \in Nat /\ f[c].allowance <= TokenBudget
  BY Constants DEF CallRecord
<1>5. Tokens(f) = Tokens(g) \cup share
  BY <1>4, Constants DEF Tokens
<1>6. Tokens(g) \cap share = {}
  BY DEF Tokens
<1>7. IsFiniteSet(share) /\ Cardinality(share) = f[c].allowance
  BY <1>4, ShareCounted
<1> HIDE DEF share
<1>8. Cardinality(Tokens(f)) = Cardinality(Tokens(g)) + f[c].allowance
  <2>1. IsFiniteSet(Tokens(g))
    BY HoldersFinite
  <2>2. Cardinality(Tokens(g) \cup share) = Cardinality(Tokens(g)) + Cardinality(share)
    BY <1>6, <1>7, <2>1, DisjointUnion
  <2> QED
    BY <1>5, <1>7, <2>2
<1>9. Cardinality(Tokens(g)) \in Nat
  BY HoldersFinite
<1> QED
  BY <1>1, <1>3, <1>4, <1>8, <1>9

(* A pool in which nothing is under way has nothing reserved.              *)
LEMMA IdleReservesNothing ==
    ASSUME Types, Books, pool.active = 0
    PROVE  pool.reserved = 0
<1>1. Tickets(call) \cup Claims(call) = {}
  BY HoldersFinite, FS_EmptySet DEF Types, Books
<1>2. Tokens(call) = {}
  BY <1>1 DEF Tokens, Claims
<1> QED
  BY <1>2, FS_EmptySet DEF Books

LEMMA ArrivedKeeps ==
    ASSUME Types, Books
    PROVE  /\ Arrived \in PoolRecord
           /\ Arrived.active = pool.active + 1 /\ Arrived.unclaimed = pool.unclaimed + 1
           /\ Arrived.reserved = pool.reserved
           /\ Arrived.spent + Arrived.reserved <= pool.spent + pool.reserved
<1>1. pool \in PoolRecord
  BY DEF Books
<1>2. /\ pool.active \in Nat /\ pool.unclaimed \in Nat /\ pool.spent \in Nat
      /\ pool.reserved \in Nat /\ pool.quiet \in BOOLEAN
  BY <1>1 DEF PoolRecord
<1>3. PICK spent \in {0, pool.spent} :
         Arrived = [pool EXCEPT !.spent = spent, !.reserved = pool.reserved,
                                !.active = pool.active + 1, !.unclaimed = pool.unclaimed + 1]
  <2>1. CASE pool.active = 0 /\ pool.quiet
    <3>1. pool.reserved = 0
      BY <2>1, IdleReservesNothing
    <3>2. Arrived = [pool EXCEPT !.spent = 0, !.reserved = 0, !.active = pool.active + 1,
                                 !.unclaimed = pool.unclaimed + 1]
      BY <2>1 DEF Arrived
    <3> QED
      BY <3>1, <3>2
  <2>2. CASE ~(pool.active = 0 /\ pool.quiet)
    BY <2>2 DEF Arrived
  <2> QED
    BY <2>1, <2>2
<1>4. /\ spent \in Nat /\ spent <= pool.spent
      /\ pool.active + 1 \in Nat /\ pool.unclaimed + 1 \in Nat
  BY <1>2
<1>5. Arrived \in PoolRecord
  BY <1>1, <1>2, <1>3, <1>4 DEF PoolRecord
<1>6. /\ Arrived.active = pool.active + 1 /\ Arrived.unclaimed = pool.unclaimed + 1
      /\ Arrived.reserved = pool.reserved /\ Arrived.spent = spent
  BY <1>1, <1>3 DEF PoolRecord
<1> QED
  BY <1>2, <1>4, <1>5, <1>6

LEMMA BooksArrive ==
    ASSUME Types, Types', Books, NEW c \in Calls, pool' = Arrived,
           call[c].stage \notin Ticketed \cup Holding, call'[c].stage \in Ticketed,
           \A d \in Calls \ {c} : call'[d] = call[d]
    PROVE  Books'
<1>1. /\ Cardinality(Tickets(call')) = Cardinality(Tickets(call)) + 1
      /\ Cardinality(Tickets(call') \cup Claims(call'))
           = Cardinality(Tickets(call) \cup Claims(call)) + 1
      /\ Tokens(call') = Tokens(call)
  BY TicketTaken DEF Types
<1>2. /\ pool' \in PoolRecord
      /\ pool'.active = pool.active + 1 /\ pool'.unclaimed = pool.unclaimed + 1
      /\ pool'.reserved = pool.reserved
      /\ pool'.spent + pool'.reserved <= pool.spent + pool.reserved
  BY ArrivedKeeps
<1> QED
  BY <1>1, <1>2, Constants DEF Books, PoolRecord

LEMMA BooksClaim ==
    ASSUME Types, Types', Books, NEW c \in Calls, pool' = Claimed,
           call[c].stage \in Ticketed, call'[c].stage \in Holding,
           call'[c].allowance = Allowance,
           \A d \in Calls \ {c} : call'[d] = call[d]
    PROVE  Books'
<1>1. /\ Cardinality(Tickets(call')) = Cardinality(Tickets(call)) - 1
      /\ Tickets(call') \cup Claims(call') = Tickets(call) \cup Claims(call)
      /\ Cardinality(Tokens(call')) = Cardinality(Tokens(call)) + Allowance
  BY TicketClaims DEF Types
<1>2. /\ Cardinality(Tickets(call)) \in Nat /\ Cardinality(Tickets(call')) \in Nat
      /\ IsFiniteSet(Tickets(call))
  BY HoldersFinite DEF Types
<1>3. pool.unclaimed # 0
  BY <1>1, <1>2 DEF Books
<1>4. Allowance \in Nat /\ pool.spent + pool.reserved + Allowance <= HardLimit
  BY <1>3, AllowanceFits DEF Books
<1>5. /\ pool' \in PoolRecord
      /\ pool'.unclaimed = pool.unclaimed - 1 /\ pool'.reserved = pool.reserved + Allowance
      /\ pool'.active = pool.active /\ pool'.spent = pool.spent
  <2>1. pool' = [pool EXCEPT !.unclaimed = pool.unclaimed - 1,
                             !.reserved = pool.reserved + Allowance]
    BY DEF Claimed
  <2>2. pool.unclaimed - 1 \in Nat /\ pool.reserved + Allowance \in Nat
    BY <1>3, <1>4 DEF PoolRecord, Books
  <2> HIDE DEF Allowance
  <2> QED
    BY <2>1, <2>2 DEF PoolRecord, Books
<1>6. pool'.spent + pool'.reserved <= HardLimit
  BY <1>4, <1>5 DEF Books, PoolRecord
<1> QED
  BY <1>1, <1>5, <1>6 DEF Books

LEMMA BooksEnd ==
    ASSUME Types, Types', Books, NEW c \in Calls, NEW tokens \in 0..call[c].allowance,
           pool' = [pool EXCEPT !.reserved = Max({@ - call[c].allowance, 0}),
                                !.spent = @ + tokens, !.active = @ - 1, !.quiet = FALSE],
           call[c].stage \in Holding, call'[c].stage \notin Ticketed \cup Holding,
           \A d \in Calls \ {c} : call'[d] = call[d]
    PROVE  Books'
<1> DEFINE allowance == call[c].allowance
<1>1. /\ Tickets(call') = Tickets(call)
      /\ Cardinality(Tickets(call') \cup Claims(call'))
           = Cardinality(Tickets(call) \cup Claims(call)) - 1
      /\ Cardinality(Tokens(call')) = Cardinality(Tokens(call)) - allowance
      /\ allowance \in Nat /\ allowance <= Cardinality(Tokens(call))
  BY ClaimEnds DEF Types
<1>2. Cardinality(Tickets(call') \cup Claims(call')) \in Nat
  BY HoldersFinite DEF Types
<1>3. pool.reserved \in Nat /\ pool.reserved >= allowance /\ pool.spent \in Nat /\ tokens \in Nat
      /\ tokens <= allowance /\ pool.active \in Nat
  BY <1>1 DEF Books, PoolRecord
<1> HIDE DEF allowance
<1>4. Max({pool.reserved - allowance, 0}) = pool.reserved - allowance
  <2>1. pool.reserved - allowance \in Int /\ 0 \in Int /\ pool.reserved - allowance >= 0
    BY <1>1, <1>3
  <2>2. /\ Max({pool.reserved - allowance, 0}) \in {pool.reserved - allowance, 0}
        /\ Max({pool.reserved - allowance, 0}) >= pool.reserved - allowance
    BY <2>1, MaxOfTwo
  <2> QED
    BY <2>1, <2>2
<1>5. pool' = [pool EXCEPT !.reserved = pool.reserved - allowance,
                           !.spent = pool.spent + tokens, !.active = pool.active - 1, !.quiet = FALSE]
  BY <1>4 DEF allowance
<1>6. pool.active - 1 \in Nat /\ pool.active - 1 = Cardinality(Tickets(call') \cup Claims(call'))
  BY <1>1, <1>2 DEF Books
<1>7. /\ pool' \in PoolRecord
      /\ pool'.reserved = pool.reserved - allowance /\ pool'.spent = pool.spent + tokens
      /\ pool'.active = pool.active - 1 /\ pool'.unclaimed = pool.unclaimed
  <2>1. pool.reserved - allowance \in Nat /\ pool.spent + tokens \in Nat
    BY <1>1, <1>3
  <2> QED
    BY <1>5, <1>6, <2>1 DEF PoolRecord, Books
<1> QED
  BY <1>1, <1>3, <1>6, <1>7, Constants DEF Books

(* The other steps leave the pool's counters and what a call holds.        *)
LEMMA BooksKept ==
    ASSUME Types, Types', Books,
           pool' = pool \/ (\E q \in BOOLEAN : pool' = [pool EXCEPT !.quiet = q]),
           \A d \in Calls :
              \/ call'[d] = call[d]
              \/ call[d].stage \in Ticketed /\ call'[d].stage \in Ticketed
              \/ /\ call[d].stage \in Holding /\ call'[d].stage \in Holding
                 /\ call'[d].allowance = call[d].allowance
    PROVE  Books'
<1>1. /\ Tickets(call') = Tickets(call) /\ Claims(call') = Claims(call)
      /\ Tokens(call') = Tokens(call)
  BY DEF Types, Tickets, Claims, Tokens, Ticketed, Holding, Working
<1>2. /\ pool' \in PoolRecord /\ pool'.spent = pool.spent /\ pool'.reserved = pool.reserved
      /\ pool'.unclaimed = pool.unclaimed /\ pool'.active = pool.active
  BY DEF Books, PoolRecord
<1> QED
  BY <1>1, <1>2 DEF Books

LEMMA BooksInit == Init => Books
<1> SUFFICES ASSUME Init PROVE Books
  OBVIOUS
<1>1. Tickets(call) = {} /\ Claims(call) = {} /\ Tokens(call) = {}
  BY DEF Init, NoCall, Tickets, Claims, Tokens, Ticketed, Holding, Working
<1>2. Tickets(call) \cup Claims(call) = {}
  BY <1>1
<1> QED
  BY <1>1, <1>2, FS_EmptySet, Constants DEF Init, Books, PoolRecord

(* An answer ends the work of a call and leaves it the share it claimed.   *)
LEMMA BooksAnswer ==
    ASSUME Types, Types', Books, NEW c \in Calls, NEW answer, Answers(c, answer),
           call[c].stage \in Holding, pool' = pool
    PROVE  Books'
<1>1. /\ call'[c].stage \in Holding /\ call'[c].allowance = call[c].allowance
      /\ \A d \in Calls \ {c} : call'[d] = call[d]
  BY DEF Answers, Rendered, NoCall, Types, Holding, Working
<1> QED
  BY <1>1, BooksKept

LEMMA BooksStep == Types /\ Types' /\ Books /\ [Next]_vars => Books'
<1> SUFFICES ASSUME Types, Types', Books, [Next]_vars PROVE Books'
  OBVIOUS
<1> USE DEF Types, Holding, Ticketed, Working
<1>1. ASSUME NEW c \in Calls, NEW kind \in Kinds, NEW j \in Jobs \cup {NoJob}, Arrive(c, kind, j)
      PROVE  Books'
  <2>1. /\ call[c].stage \notin Ticketed \cup Holding /\ call'[c].stage \in Ticketed
        /\ \A d \in Calls \ {c} : call'[d] = call[d]
    BY <1>1 DEF Arrive, At, NoCall
  <2> QED
    BY <1>1, <2>1, BooksArrive DEF Arrive
<1>2. ASSUME NEW c \in Calls, Retake(c) PROVE Books'
  <2>1. /\ call[c].stage \notin Ticketed \cup Holding /\ call'[c].stage \in Ticketed
        /\ \A d \in Calls \ {c} : call'[d] = call[d]
    BY <1>2 DEF Retake, At
  <2> QED
    BY <1>2, <2>1, BooksArrive DEF Retake
<1>3. ASSUME NEW c \in Calls, Claim(c) PROVE Books'
  <2>1. /\ call[c].stage \in Ticketed /\ call'[c].stage \in Holding
        /\ call'[c].allowance = Allowance
        /\ \A d \in Calls \ {c} : call'[d] = call[d]
    BY <1>3 DEF Claim, At, WithClaim, CallRecord
  <2> QED
    BY <1>3, <2>1, BooksClaim DEF Claim
<1>4. ASSUME NEW c \in Calls, ClaimEarly(c) PROVE Books'
  <2>1. /\ call[c].stage \in Ticketed /\ call'[c].stage \in Holding
        /\ call'[c].allowance = Allowance
        /\ \A d \in Calls \ {c} : call'[d] = call[d]
    BY <1>4 DEF ClaimEarly, At, WithClaim, CallRecord
  <2> QED
    BY <1>4, <2>1, BooksClaim DEF ClaimEarly
<1>5. ASSUME NEW c \in Calls, Panic(c) PROVE Books'
  <2>1. /\ call[c].stage \in Holding /\ call'[c].stage \notin Ticketed \cup Holding
        /\ \A d \in Calls \ {c} : call'[d] = call[d]
    BY <1>5 DEF Panic, NoCall
  <2>2. 0 \in 0..call[c].allowance /\ pool.spent + 0 = pool.spent
    BY Constants DEF CallRecord, Books, PoolRecord
  <2>3. pool' = [pool EXCEPT !.reserved = Max({@ - call[c].allowance, 0}),
                             !.spent = @ + 0, !.active = @ - 1, !.quiet = FALSE]
    <3>1. pool \in PoolRecord
      BY DEF Books
    <3> QED
      BY <1>5, <2>2, <3>1 DEF Panic, PoolRecord
  <2> QED
    BY <2>1, <2>2, <2>3, BooksEnd
<1>6. ASSUME NEW c \in Calls, Deliver(c) PROVE Books'
  <2>1. /\ call[c].stage \in Holding /\ call'[c].stage \notin Ticketed \cup Holding
        /\ \A d \in Calls \ {c} : call'[d] = call[d]
    BY <1>6 DEF Deliver, NoCall
  <2> DEFINE sizes == IF call[c].withheld THEN {Min({StubTokens, call[c].allowance})}
                                          ELSE 0..call[c].allowance
  <2>2. PICK tokens \in sizes :
          pool' = [pool EXCEPT !.reserved = Max({@ - call[c].allowance, 0}),
                               !.spent = @ + tokens, !.active = @ - 1, !.quiet = FALSE]
    BY <1>6 DEF Deliver
  <2>3. call[c].allowance \in Nat
    BY Constants DEF CallRecord
  <2>4. Min({StubTokens, call[c].allowance}) \in 0..call[c].allowance
    <3> DEFINE allowance == call[c].allowance
    <3>1. allowance \in Int /\ StubTokens \in Int
      BY <2>3, Constants
    <3> HIDE DEF allowance
    <3>2. /\ Min({StubTokens, allowance}) \in {StubTokens, allowance}
          /\ Min({StubTokens, allowance}) <= allowance
      BY <3>1, MinOfTwo
    <3> QED
      BY <2>3, <3>2, Constants DEF allowance
  <2>5. tokens \in 0..call[c].allowance
    BY <2>2, <2>4
  <2> QED
    BY <2>1, <2>2, <2>5, BooksEnd
<1>7. ASSUME NEW c \in Calls, Admit(c) \/ AnswerEarly(c) PROVE Books'
  <2>1. /\ call[c].stage \in Ticketed /\ call'[c].stage \in Ticketed /\ pool' = pool
        /\ \A d \in Calls \ {c} : call'[d] = call[d]
    <3>1. CASE Admit(c)
      BY <3>1 DEF Admit, At, Goes
    <3>2. CASE AnswerEarly(c)
      BY <3>2 DEF AnswerEarly, Goes
    <3> QED
      BY <1>7, <3>1, <3>2
  <2> QED
    BY <2>1, BooksKept
<1>8. ASSUME NEW c \in Calls, (\E j \in Jobs : Probe(c, j)) \/ Forget(c) \/ Anchor(c) PROVE Books'
  <2>1. /\ call[c].stage \in Holding /\ call'[c].stage \in Holding /\ pool' = pool
        /\ call'[c].allowance = call[c].allowance
        /\ \A d \in Calls \ {c} : call'[d] = call[d]
    <3>1. ASSUME NEW j \in Jobs, Probe(c, j) PROVE <2>1
      BY <3>1 DEF Probe, At, CallRecord
    <3>2. CASE Forget(c)
      <4>1. call' = [call EXCEPT ![c] = [[call[c] EXCEPT !.stage = "ready"] EXCEPT !.missing = {}]]
        BY <3>2 DEF Forget
      <4> QED
        BY <3>2, <4>1 DEF Forget, At, CallRecord
    <3>3. CASE Anchor(c)
      BY <3>3 DEF Anchor, At, CallRecord
    <3> QED
      BY <1>8, <3>1, <3>2, <3>3
  <2> QED
    BY <2>1, BooksKept
<1>9. ASSUME NEW c \in Calls, Work(c) \/ Track(c) \/ MoveCursor(c) \/ Kill(c) PROVE Books'
  <2>1. call[c].stage \in Holding /\ pool' = pool
    BY <1>9 DEF Work, Track, MoveCursor, Kill, At
  <2>2. \E answer \in {"fits", "starved", "over"} : Answers(c, answer)
    BY <1>9 DEF Work, Track, MoveCursor, Kill
  <2> QED
    BY <2>1, <2>2, BooksAnswer
<1>10. ASSUME NEW c \in Calls, Launch(c) \/ Ask(c) \/ ReadLog(c) PROVE Books'
  <2>1. call[c].stage \in Holding /\ pool' = pool
    BY <1>10 DEF Launch, Ask, ReadLog, At
  <2>2. CASE \E answer \in {"fits", "starved"} : Answers(c, answer)
    BY <2>1, <2>2, BooksAnswer
  <2>3. CASE ~\E answer \in {"fits", "starved"} : Answers(c, answer)
    <3>1. /\ call'[c].stage \in Holding /\ call'[c].allowance = call[c].allowance
          /\ \A d \in Calls \ {c} : call'[d] = call[d]
      BY <1>10, <2>3 DEF Launch, Ask, ReadLog, At, Goes, CallRecord
    <3> QED
      BY <2>1, <3>1, BooksKept
  <2> QED
    BY <2>2, <2>3
<1>11. ASSUME NEW j \in Jobs, AddLine(j) \/ End(j) \/ Evict(j) PROVE Books'
  <2>1. pool' = pool /\ call' = call
    BY <1>11 DEF AddLine, End, Evict
  <2> QED
    BY <2>1, BooksKept
<1>12. CASE Quiet
  <2>1. pool' = [pool EXCEPT !.quiet = TRUE] /\ call' = call
    BY <1>12 DEF Quiet
  <2> QED
    BY <2>1, BooksKept
<1>13. CASE UNCHANGED vars
  <2>1. pool' = pool /\ call' = call
    BY <1>13 DEF vars
  <2> QED
    BY <2>1, BooksKept
<1> HIDE DEF Types
<1> QED
  BY <1>1, <1>2, <1>3, <1>4, <1>5, <1>6, <1>7, <1>8, <1>9, <1>10, <1>11, <1>12, <1>13
     DEF Next, Step, Finished

-----------------------------------------------------------------------------
(* The jobs of the session *)

(* What an answer leaves of its call: nothing about a job.                 *)
LEMMA AnswerForgets ==
    ASSUME Types, NEW c \in Calls, NEW answer, Answers(c, answer)
    PROVE  /\ call'[c].stage \in {"answering", "rendered"} /\ call'[c].missing = {}
           /\ call'[c].job = NoJob /\ \A d \in Calls \ {c} : call'[d] = call[d]
BY DEF Types, Answers, Rendered, NoCall

LEMMA JobsInit == Init => JobsBegin /\ JobsEnd /\ Anchored /\ RunningJobsStayListed
BY DEF Init, NoCall, JobsBegin, JobsEnd, Anchored, Beginning, Following, RunningJobsStayListed

(* A step of a call that is about a job and stays about it.                *)
LEMMA JobsBeginKept ==
    ASSUME Types, JobsBegin, NEW c \in Calls,
           call'[c].kind = call[c].kind /\ call'[c].job = call[c].job,
           \A d \in Calls \ {c} : call'[d] = call[d],
           \/ call[c].stage = "listed" /\ call'[c].stage \in {"listed", "ready"}
           \/ /\ call[c].stage \in {"ready", "asking", "seen"} /\ call[c].kind = "output"
              /\ call'[c].stage \in {"asking", "seen", "read"},
           status' = status, \A j \in known' \ known : status[j] # "none"
    PROVE  JobsBegin'
<1>1. \A d \in Calls : call'[d].kind = call[d].kind /\ call'[d].job = call[d].job
  OBVIOUS
<1>2. \A d \in Calls : Beginning(d)' => Beginning(d)
  BY DEF Beginning
<1>3. \A d \in Calls : Following(d)' => call[d].kind = "output"
  BY DEF Following, JobsBegin
<1>4. \A d \in Calls : call'[d].stage = "launched" => call[d].stage = "launched"
  OBVIOUS
<1>5. \A d \in Calls :
        /\ call'[d].kind \notin {"search", "plain"}
        /\ call'[d].stage \in {"queued", "admitted", "listed", "ready", "launched",
                               "asking", "seen", "read"}
        => call'[d].job \in Jobs
  BY DEF JobsBegin
<1> QED
  BY <1>1, <1>2, <1>3, <1>4, <1>5 DEF JobsBegin

LEMMA JobsBeginStep == Types /\ Types' /\ JobsBegin /\ [Next]_vars => JobsBegin'
<1> SUFFICES ASSUME Types, Types', JobsBegin, [Next]_vars PROVE JobsBegin'
  OBVIOUS
<1>0. NoJob \notin Jobs
  BY Constants
<1> USE DEF JobsBegin, Beginning, Following
<1>1. ASSUME NEW c \in Calls, NEW kind \in Kinds, NEW j \in Jobs \cup {NoJob}, Arrive(c, kind, j)
      PROVE  JobsBegin'
  BY <1>0, <1>1 DEF Types, Arrive, At, NoCall, session, world
<1>2. ASSUME NEW c \in Calls, Admit(c) PROVE JobsBegin'
  BY <1>2 DEF Types, Admit, Goes, At, session, world
<1>3. ASSUME NEW c \in Calls, AnswerEarly(c) PROVE JobsBegin'
  BY <1>3 DEF Types, AnswerEarly, Goes, Is, session, world
<1>4. ASSUME NEW c \in Calls, Claim(c) PROVE JobsBegin'
  BY <1>4 DEF Types, Claim, WithClaim, At, CallRecord, session, world
<1>5. ASSUME NEW c \in Calls, NEW j \in Jobs, Probe(c, j) PROVE JobsBegin'
  <2>1. /\ call'[c].kind = call[c].kind /\ call'[c].job = call[c].job
        /\ call[c].stage = "listed" /\ call'[c].stage = "listed"
        /\ \A d \in Calls \ {c} : call'[d] = call[d]
    BY <1>5 DEF Types, Probe, At, CallRecord
  <2> QED
    BY <1>5, <2>1, JobsBeginKept DEF Probe, world
<1>6. ASSUME NEW c \in Calls, Forget(c) PROVE JobsBegin'
  <2>1. call' = [call EXCEPT ![c] = [[call[c] EXCEPT !.stage = "ready"] EXCEPT !.missing = {}]]
    BY <1>6 DEF Forget
  <2> QED
    BY <1>6, <2>1 DEF Types, Forget, At, CallRecord, world
<1>7. ASSUME NEW c \in Calls, Work(c) \/ Kill(c) \/ ReadLog(c) \/ MoveCursor(c) PROVE JobsBegin'
  <2>1. UNCHANGED <<known, status>>
    BY <1>7 DEF Work, Kill, ReadLog, MoveCursor, session, world
  <2>2. CASE \E answer \in {"fits", "starved", "over"} : Answers(c, answer)
    BY <1>0, <2>1, <2>2, AnswerForgets DEF Types
  <2>3. CASE ~\E answer \in {"fits", "starved", "over"} : Answers(c, answer)
    <3>1. ReadLog(c) /\ ~Answers(c, "starved")
      BY <1>7, <2>3 DEF Work, Kill, MoveCursor
    <3>2. /\ call'[c].kind = call[c].kind /\ call'[c].job = call[c].job
          /\ call[c].stage = "seen" /\ call'[c].stage = "read"
          /\ \A d \in Calls \ {c} : call'[d] = call[d]
      BY <3>1 DEF Types, ReadLog, At, CallRecord
    <3> QED
      BY <2>1, <3>2, JobsBeginKept
  <2> QED
    BY <2>2, <2>3
<1>8. ASSUME NEW c \in Calls, Launch(c) PROVE JobsBegin'
  <2>1. CASE Answers(c, "starved")
    BY <1>0, <1>8, <2>1, AnswerForgets DEF Types, Launch, session
  <2>2. CASE ~Answers(c, "starved")
    <3>1. /\ call[c].stage = "ready" /\ call[c].kind = "start" /\ known' = known
          /\ status' = [status EXCEPT ![call[c].job] = "running"]
          /\ call' = [call EXCEPT ![c].stage = "launched"]
      BY <1>8, <2>2 DEF Launch, At, Is, Goes, session
    <3>2. /\ call'[c].kind = "start" /\ call'[c].job = call[c].job /\ call'[c].stage = "launched"
          /\ \A d \in Calls \ {c} : call'[d] = call[d] /\ call[d].job # call[c].job
      BY <3>1 DEF Types, CallRecord
    <3>3. call[c].job \in Jobs /\ status'[call[c].job] = "running"
      BY <3>1 DEF Types
    <3>4. \A j \in Jobs : j # call[c].job => status'[j] = status[j]
      BY <3>1 DEF Types
    <3>5. \A d \in Calls : Beginning(d)' =>
            /\ d # c /\ Beginning(d) /\ call[d].job \in Jobs
            /\ status'[call[d].job] = "none"
            /\ \A e \in Calls \ {d} : call'[e].job # call[d].job
      BY <3>2, <3>4
    <3>6. \A j \in known : status'[j] # "none"
      BY <3>3, <3>4 DEF Types
    <3>7. \A d \in Calls :
            /\ call'[d].kind \notin {"search", "plain"}
            /\ call'[d].stage \in {"queued", "admitted", "listed", "ready", "launched",
                                   "asking", "seen", "read"}
            => call'[d].job \in Jobs
      BY <3>2, <3>3
    <3>8. \A d \in Calls : call'[d].stage = "launched" =>
            call'[d].kind = "start" /\ status'[call'[d].job] # "none"
      BY <3>2, <3>3, <3>4
    <3>9. \A d \in Calls : Following(d)' => call'[d].kind = "output"
      BY <3>2
    <3> QED
      BY <3>1, <3>2, <3>5, <3>6, <3>7, <3>8, <3>9
  <2> QED
    BY <2>1, <2>2
<1>9. ASSUME NEW c \in Calls, Track(c) PROVE JobsBegin'
  BY <1>0, <1>9, AnswerForgets DEF Types, Track, At, world
<1>10. ASSUME NEW c \in Calls, Anchor(c) PROVE JobsBegin'
  <2>1. /\ call'[c].kind = call[c].kind /\ call'[c].job = call[c].job
        /\ call[c].stage = "ready" /\ call[c].kind = "output" /\ call'[c].stage = "asking"
        /\ \A d \in Calls \ {c} : call'[d] = call[d]
    BY <1>10 DEF Types, Anchor, At, Is, CallRecord
  <2> QED
    BY <1>10, <2>1, JobsBeginKept DEF Anchor, world
<1>11. ASSUME NEW c \in Calls, Ask(c) PROVE JobsBegin'
  <2>1. CASE Answers(c, "fits")
    BY <1>0, <1>11, <2>1, AnswerForgets DEF Types, Ask, At, world
  <2>2. CASE ~Answers(c, "fits")
    <3>1. /\ call'[c].kind = call[c].kind /\ call'[c].job = call[c].job
          /\ call[c].stage = "asking" /\ call'[c].stage \in {"asking", "seen"}
          /\ \A d \in Calls \ {c} : call'[d] = call[d]
      BY <1>11, <2>2 DEF Types, Ask, At, CallRecord
    <3>2. call[c].kind = "output" /\ status' = status
      BY <1>11, <3>1 DEF Ask, world
    <3>3. \A j \in known' \ known : status[j] # "none"
      BY <1>11, <2>2 DEF Ask
    <3> QED
      BY <3>1, <3>2, <3>3, JobsBeginKept
  <2> QED
    BY <2>1, <2>2
<1>12. ASSUME NEW c \in Calls, Panic(c) PROVE JobsBegin'
  BY <1>0, <1>12 DEF Types, Panic, NoCall, session, world
<1>13. ASSUME NEW c \in Calls, Retake(c) PROVE JobsBegin'
  BY <1>13 DEF Types, Retake, CallRecord, session, world
<1>14. ASSUME NEW c \in Calls, ClaimEarly(c) PROVE JobsBegin'
  BY <1>14 DEF Types, ClaimEarly, WithClaim, CallRecord, session, world
<1>15. ASSUME NEW c \in Calls, Deliver(c) PROVE JobsBegin'
  BY <1>0, <1>15 DEF Types, Deliver, NoCall, session, world
<1>16. ASSUME NEW j \in Jobs, AddLine(j) \/ End(j) \/ Evict(j) PROVE JobsBegin'
  BY <1>16 DEF Types, AddLine, End, Evict, session
<1>17. CASE Quiet
  BY <1>17 DEF Quiet, session, world
<1>18. CASE UNCHANGED vars
  BY <1>18 DEF vars
<1> HIDE DEF JobsBegin
<1> QED
  BY <1>1, <1>2, <1>3, <1>4, <1>5, <1>6, <1>7, <1>8, <1>9, <1>10, <1>11, <1>12, <1>13,
     <1>14, <1>15, <1>16, <1>17, <1>18 DEF Next, Step, Finished

(* A job that is over stays over, and its log stays as it is.              *)
LEMMA OverStaysOver ==
    ASSUME Types, JobsBegin, [Next]_vars, NEW j \in Jobs, status[j] \in {"ended", "gone"}
    PROVE  /\ status'[j] \in {"ended", "gone"} /\ printed'[j] = printed[j]
           /\ status[j] = "gone" => status'[j] = "gone"
<1> USE DEF Types
<1>1. CASE \E c \in Calls : Launch(c)
  <2>1. PICK c \in Calls : Launch(c)
    BY <1>1
  <2>2. status[call[c].job] = "none"
    BY <2>1 DEF JobsBegin, Beginning, Launch, At, Is
  <2>3. printed' = printed /\ (\A i \in Jobs : i # call[c].job => status'[i] = status[i])
    BY <2>1 DEF Launch
  <2> QED
    BY <2>2, <2>3
<1>2. CASE \E i \in Jobs : AddLine(i) \/ End(i) \/ Evict(i)
  BY <1>2 DEF AddLine, End, Evict
<1>3. CASE UNCHANGED <<status, printed>>
  BY <1>3
<1> QED
  BY ZenonT(40), <1>1, <1>2, <1>3 DEF Next, Step, Finished, vars, session, world, Arrive, Admit, AnswerEarly,
     Claim, Probe, Forget, Work, Track, Anchor, Ask, ReadLog, MoveCursor, Kill, Panic, Retake,
     ClaimEarly, Deliver, Quiet

LEMMA JobsEndStep == Types /\ Types' /\ JobsBegin /\ JobsEnd /\ [Next]_vars => JobsEnd'
<1> SUFFICES ASSUME Types, Types', JobsBegin, JobsEnd, [Next]_vars PROVE JobsEnd'
  OBVIOUS
<1>0. \A j \in Jobs : status[j] \in {"ended", "gone"} =>
         status'[j] \in {"ended", "gone"} /\ (status[j] = "gone" => status'[j] = "gone")
  BY OverStaysOver
<1> DEFINE Knows(c, f) ==
      /\ \A j \in f[c].missing : status'[j] = "gone"
      /\ f[c].stage \in {"seen", "read"} /\ f[c].ended => status'[f[c].job] \in {"ended", "gone"}
<1>1. \A c \in Calls : Knows(c, call)
  <2> SUFFICES ASSUME NEW c \in Calls PROVE Knows(c, call)
    OBVIOUS
  <2>1. \A j \in call[c].missing : j \in Jobs /\ status[j] = "gone"
    BY DEF Types, CallRecord, JobsEnd
  <2>2. ASSUME call[c].stage \in {"seen", "read"}, call[c].ended
        PROVE  call[c].job \in Jobs /\ status[call[c].job] \in {"ended", "gone"}
    BY <2>2 DEF JobsEnd, JobsBegin, Following
  <2> QED
    BY <1>0, <2>1, <2>2
<1>2. ASSUME NEW c \in Calls, call'[c].missing = {}, call'[c].stage \notin {"seen", "read"},
             \A d \in Calls \ {c} : call'[d] = call[d]
      PROVE  JobsEnd'
  BY <1>1, <1>2 DEF JobsEnd
<1>3. ASSUME NEW c \in Calls, call'[c].missing \subseteq call[c].missing,
             call'[c].stage \notin {"seen", "read"},
             \A d \in Calls \ {c} : call'[d] = call[d]
      PROVE  JobsEnd'
  BY <1>1, <1>3 DEF JobsEnd
<1>4. CASE call' = call
  BY <1>1, <1>4 DEF JobsEnd
<1> HIDE DEF Knows
<1>5. ASSUME NEW c \in Calls, NEW answer, Answers(c, answer) PROVE JobsEnd'
  <2>1. /\ call'[c].stage \in {"answering", "rendered"} /\ call'[c].missing = {}
        /\ \A d \in Calls \ {c} : call'[d] = call[d]
    BY <1>5, AnswerForgets
  <2> QED
    BY <1>2, <2>1
<1> USE DEF Types
<1>6. ASSUME NEW c \in Calls, NEW kind \in Kinds, NEW j \in Jobs \cup {NoJob}, Arrive(c, kind, j)
      PROVE  JobsEnd'
  <2>1. /\ call'[c].missing = {} /\ call'[c].stage \notin {"seen", "read"}
        /\ \A d \in Calls \ {c} : call'[d] = call[d]
    BY <1>6 DEF Arrive, NoCall
  <2> QED
    BY <1>2, <2>1
<1>7. ASSUME NEW c \in Calls, Panic(c) \/ Deliver(c) PROVE JobsEnd'
  <2>1. /\ call'[c].missing = {} /\ call'[c].stage \notin {"seen", "read"}
        /\ \A d \in Calls \ {c} : call'[d] = call[d]
    <3>1. CASE Panic(c)
      BY <3>1 DEF Panic, NoCall
    <3>2. CASE Deliver(c)
      BY <3>2 DEF Deliver, NoCall
    <3> QED
      BY <1>7, <3>1, <3>2
  <2> QED
    BY <1>2, <2>1
<1>8. ASSUME NEW c \in Calls, Admit(c) \/ AnswerEarly(c) \/ Claim(c) \/ Anchor(c)
                              \/ Retake(c) \/ ClaimEarly(c)
      PROVE  JobsEnd'
  <2>1. /\ call'[c].missing = call[c].missing /\ call'[c].stage \notin {"seen", "read"}
        /\ \A d \in Calls \ {c} : call'[d] = call[d]
    <3>1. ASSUME NEW stage \in {"admitted", "early"}, call' = [call EXCEPT ![c].stage = stage]
          PROVE  <2>1
      BY <3>1 DEF CallRecord
    <3>4. CASE Admit(c) \/ AnswerEarly(c) \/ Retake(c)
      BY <3>1, <3>4 DEF Admit, AnswerEarly, Retake, Goes
    <3>2. CASE Claim(c) \/ ClaimEarly(c)
      <4>1. CASE Claim(c)
        <5> DEFINE r == [WithClaim(c, "listed") EXCEPT !.probing = tracked \ {call[c].job}]
        <5>1. r.missing = call[c].missing /\ r.stage = "listed"
          BY DEF WithClaim, CallRecord
        <5>2. call' = [call EXCEPT ![c] = r]
          BY <4>1 DEF Claim
        <5> QED
          BY <5>1, <5>2
      <4>2. CASE ClaimEarly(c)
        BY <4>2 DEF ClaimEarly, WithClaim, CallRecord
      <4> QED
        BY <3>2, <4>1, <4>2
    <3>3. CASE Anchor(c)
      BY <3>3 DEF Anchor, CallRecord
    <3> QED
      BY <1>8, <3>2, <3>3, <3>4
  <2> QED
    BY <1>3, <2>1
<1>9. ASSUME NEW c \in Calls, NEW j \in Jobs, Probe(c, j) PROVE JobsEnd'
  <2>1. /\ call'[c].stage = "listed" /\ status' = status
        /\ \A d \in Calls \ {c} : call'[d] = call[d]
        /\ \/ call'[c].missing = call[c].missing
           \/ call'[c].missing = call[c].missing \cup {j} /\ status[j] = "gone"
    BY <1>9 DEF Probe, At, CallRecord, world
  <2> QED
    BY <1>1, <2>1 DEF JobsEnd, Knows
<1>10. ASSUME NEW c \in Calls, Forget(c) PROVE JobsEnd'
  <2>1. call' = [call EXCEPT ![c] = [[call[c] EXCEPT !.stage = "ready"] EXCEPT !.missing = {}]]
    BY <1>10 DEF Forget
  <2>2. /\ call'[c].missing = {} /\ call'[c].stage = "ready"
        /\ \A d \in Calls \ {c} : call'[d] = call[d]
    BY <2>1 DEF CallRecord
  <2> QED
    BY <1>2, <2>2
<1>11. ASSUME NEW c \in Calls, Work(c) \/ Track(c) \/ MoveCursor(c) \/ Kill(c) PROVE JobsEnd'
  BY <1>5, <1>11 DEF Work, Track, MoveCursor, Kill
<1>12. ASSUME NEW c \in Calls, Launch(c) PROVE JobsEnd'
  <2>1. CASE Answers(c, "starved")
    BY <1>5, <2>1
  <2>2. CASE Goes(c, "launched")
    <3>1. /\ call'[c].missing = call[c].missing /\ call'[c].stage = "launched"
          /\ \A d \in Calls \ {c} : call'[d] = call[d]
      BY <2>2 DEF Goes, CallRecord
    <3> QED
      BY <1>3, <3>1
  <2> QED
    BY <1>12, <2>1, <2>2 DEF Launch
<1>13. ASSUME NEW c \in Calls, Ask(c) PROVE JobsEnd'
  <2>1. CASE Answers(c, "fits")
    BY <1>5, <2>1
  <2>2. CASE ~Answers(c, "fits")
    <3>1. /\ call'[c].missing = call[c].missing /\ call'[c].job = call[c].job
          /\ call'[c].ended = (status[call[c].job] = "ended") /\ status' = status
          /\ \A d \in Calls \ {c} : call'[d] = call[d]
      BY <1>13, <2>2 DEF Ask, CallRecord, world
    <3> QED
      BY ZenonT(40), <1>1, <3>1 DEF JobsEnd, Knows
  <2> QED
    BY <2>1, <2>2
<1>14. ASSUME NEW c \in Calls, ReadLog(c) PROVE JobsEnd'
  <2>1. CASE Answers(c, "starved")
    BY <1>5, <2>1
  <2>2. CASE ~Answers(c, "starved")
    <3>1. /\ call'[c].missing = call[c].missing /\ call'[c].job = call[c].job
          /\ call'[c].ended = call[c].ended /\ call[c].stage = "seen"
          /\ \A d \in Calls \ {c} : call'[d] = call[d]
      BY <1>14, <2>2 DEF ReadLog, At, CallRecord
    <3> QED
      BY <1>1, <3>1 DEF JobsEnd, Knows
  <2> QED
    BY <2>1, <2>2
<1>15. ASSUME NEW j \in Jobs, AddLine(j) \/ End(j) \/ Evict(j) PROVE JobsEnd'
  BY <1>4, <1>15 DEF AddLine, End, Evict
<1>16. CASE Quiet \/ UNCHANGED vars
  BY <1>4, <1>16 DEF Quiet, vars
<1> QED
  BY <1>6, <1>7, <1>8, <1>9, <1>10, <1>11, <1>12, <1>13, <1>14, <1>15, <1>16
     DEF Next, Step, Finished

(* Running jobs stay listed: whoever takes a job off the list knows it to  *)
(* be over, and who launches one puts it there before it is known.         *)
LEMMA ListedStep ==
    Types /\ JobsBegin /\ JobsEnd /\ RunningJobsStayListed /\ [Next]_vars
       => RunningJobsStayListed'
<1> SUFFICES ASSUME Types, JobsBegin, JobsEnd, RunningJobsStayListed, [Next]_vars
             PROVE  RunningJobsStayListed'
  OBVIOUS
<1> USE DEF Types, RunningJobsStayListed
<1>1. ASSUME NEW c \in Calls, NEW j \in Jobs, Probe(c, j) PROVE RunningJobsStayListed'
  BY <1>1 DEF Probe, world
<1>2. ASSUME NEW c \in Calls, Forget(c) PROVE RunningJobsStayListed'
  BY <1>2 DEF Forget, JobsEnd, world
<1>3. ASSUME NEW c \in Calls, Launch(c) PROVE RunningJobsStayListed'
  <2>1. status[call[c].job] = "none" /\ tracked' = tracked /\ known' = known
    BY <1>3 DEF Launch, JobsBegin, Beginning, At, Is, session
  <2>2. call[c].job \notin known
    BY <2>1 DEF JobsBegin
  <2>3. \A j \in Jobs : j # call[c].job => status'[j] = status[j]
    BY <1>3 DEF Launch
  <2> QED
    BY <2>1, <2>2, <2>3
<1>4. ASSUME NEW c \in Calls, Track(c) PROVE RunningJobsStayListed'
  BY <1>4 DEF Track, world
<1>5. ASSUME NEW c \in Calls, Ask(c) PROVE RunningJobsStayListed'
  BY <1>5 DEF Ask, world
<1>6. ASSUME NEW c \in Calls, MoveCursor(c) PROVE RunningJobsStayListed'
  BY <1>6 DEF MoveCursor, At, JobsEnd, world
<1>7. ASSUME NEW c \in Calls, Kill(c) PROVE RunningJobsStayListed'
  BY <1>7 DEF Kill, world
<1>8. ASSUME NEW j \in Jobs, AddLine(j) \/ End(j) \/ Evict(j) PROVE RunningJobsStayListed'
  BY <1>8 DEF AddLine, End, Evict, session
<1>9. CASE UNCHANGED <<tracked, known, status>>
  BY <1>9
<1> HIDE DEF Types, RunningJobsStayListed
<1> QED
  BY <1>1, <1>2, <1>3, <1>4, <1>5, <1>6, <1>7, <1>8, <1>9
     DEF Next, Step, Finished, vars, session, world, Arrive, Admit, AnswerEarly,
     Claim, Work, Anchor, ReadLog, Panic, Retake, ClaimEarly, Deliver, Quiet

-----------------------------------------------------------------------------
(* The shared cursor *)

LEMMA CoveredGrows ==
    ASSUME Types, JobsBegin, [Next]_vars, NEW j \in Jobs
    PROVE  covered[j] \subseteq covered'[j]
<1> USE DEF Types
<1>1. ASSUME NEW c \in Calls, Anchor(c) PROVE covered[j] \subseteq covered'[j]
  BY <1>1 DEF Anchor
<1>2. ASSUME NEW c \in Calls, MoveCursor(c) PROVE covered[j] \subseteq covered'[j]
  BY <1>2 DEF MoveCursor
<1>3. CASE covered' = covered
  BY <1>3
<1> QED
  BY ZenonT(40), <1>1, <1>2, <1>3 DEF Next, Step, Finished, vars, session, world, Arrive, Admit, AnswerEarly,
     Claim, Probe, Forget, Work, Launch, Track, Ask, ReadLog, Kill, Panic, Retake,
     ClaimEarly, Deliver, Quiet, AddLine, End, Evict

(* Every step that leaves a call following its job was made by that call,  *)
(* which anchors, keeps its anchor, or takes the length of the log.        *)
LEMMA FollowingSteps ==
    ASSUME Types, [Next]_vars, NEW c \in Calls, Following(c)'
    PROVE  \/ Anchor(c)
           \/ /\ Following(c) /\ call'[c].job = call[c].job /\ call'[c].anchor = call[c].anchor
              /\ \/ call'[c] = call[c]
                 \/ call'[c].stage \in {"asking", "seen"}
                 \/ ReadLog(c) /\ call[c].stage = "seen" /\ call'[c].ended = call[c].ended
                    /\ call'[c].page = printed[call[c].job] /\ printed' = printed
<1> USE DEF Types
<1> DEFINE Goal == 
           \/ Anchor(c)
           \/ /\ Following(c) /\ call'[c].job = call[c].job /\ call'[c].anchor = call[c].anchor
              /\ \/ call'[c] = call[c]
                 \/ call'[c].stage \in {"asking", "seen"}
                 \/ ReadLog(c) /\ call[c].stage = "seen" /\ call'[c].ended = call[c].ended
                    /\ call'[c].page = printed[call[c].job] /\ printed' = printed
<1>1. CASE call'[c] = call[c]
  BY <1>1 DEF Following
<1>2. CASE Ask(c)
  <2>1. ~Answers(c, "fits")
    BY AnswerForgets DEF Following
  <2> QED
    BY <1>2, <2>1 DEF Ask, At, Following, CallRecord
<1>3. CASE ReadLog(c)
  <2>1. ~Answers(c, "starved")
    BY AnswerForgets DEF Following
  <2> QED
    BY <1>3, <2>1 DEF ReadLog, At, Following, CallRecord, world
<1>4. CASE call'[c] # call[c] /\ ~Ask(c) /\ ~ReadLog(c)
  <2>1. ASSUME NEW d \in Calls, d # c, NEW answer, Answers(d, answer) PROVE call'[c] = call[c]
    BY <2>1 DEF Answers
  <2>2. ASSUME NEW answer, Answers(c, answer) PROVE FALSE
    BY <2>2, AnswerForgets DEF Following
  <2>3. ASSUME NEW d \in Calls, NEW answer, Answers(d, answer) PROVE FALSE
    BY <1>4, <2>1, <2>2, <2>3
  <2>4. ASSUME NEW d \in Calls, Step(d) \/ Panic(d) \/ \E kind \in Kinds, j \in Jobs \cup {NoJob} : Arrive(d, kind, j)
        PROVE  Anchor(c)
    <3>1. CASE Work(d) \/ Track(d) \/ MoveCursor(d) \/ Kill(d)
      BY <2>3, <3>1 DEF Work, Track, MoveCursor, Kill
    <3>2. CASE Launch(d)
      BY <1>4, <2>3, <3>2 DEF Launch, Goes, Following, CallRecord
    <3>3. CASE Ask(d) \/ ReadLog(d)
      BY <1>4, <2>3, <3>3 DEF Ask, ReadLog
    <3>4. CASE Admit(d) \/ AnswerEarly(d) \/ Retake(d)
      BY <1>4, <3>4 DEF Admit, AnswerEarly, Retake, Goes, Following, CallRecord
    <3>5. CASE Claim(d) \/ ClaimEarly(d)
      BY ZenonT(40), <1>4, <3>5 DEF Claim, ClaimEarly, WithClaim, Following, CallRecord
    <3>6. CASE (\E j \in Jobs : Probe(d, j)) \/ Forget(d)
      <4>1. CASE d = c
        <5>1. ASSUME NEW j \in Jobs, Probe(c, j) PROVE call'[c].stage = "listed"
          BY <5>1 DEF Probe, At, CallRecord
        <5>2. ASSUME Forget(c) PROVE call'[c].stage = "ready"
          BY <5>2 DEF Forget, CallRecord
        <5> QED
          BY <3>6, <4>1, <5>1, <5>2 DEF Following
      <4>2. CASE d # c
        BY <1>4, <3>6, <4>2 DEF Probe, Forget
      <4> QED
        BY <4>1, <4>2
    <3>7. CASE Panic(d) \/ Deliver(d) \/ \E kind \in Kinds, j \in Jobs \cup {NoJob} : Arrive(d, kind, j)
      <4>1. CASE Panic(d)
        BY <1>4, <4>1 DEF Panic, NoCall, Following
      <4>2. CASE Deliver(d)
        BY <1>4, <4>2 DEF Deliver, NoCall, Following
      <4>3. ASSUME NEW kind \in Kinds, NEW j \in Jobs \cup {NoJob}, Arrive(d, kind, j)
            PROVE  Anchor(c)
        BY <1>4, <4>3 DEF Arrive, NoCall, Following
      <4> QED
        BY <3>7, <4>1, <4>2, <4>3
    <3>8. CASE Anchor(d)
      BY <1>4, <3>8 DEF Anchor
    <3> QED
      BY <2>4, <3>1, <3>2, <3>3, <3>4, <3>5, <3>6, <3>7, <3>8 DEF Step
  <2>5. call' # call
    BY <1>4
  <2> QED
    BY <2>4, <2>5 DEF Next, Finished, Quiet, AddLine, End, Evict, vars
<1> QED
  BY <1>1, <1>2, <1>3, <1>4

LEMMA AnchoredStep ==
    Types /\ JobsBegin /\ Anchored /\ NothingIsPassedOver /\ [Next]_vars => Anchored'
<1> SUFFICES ASSUME Types, JobsBegin, Anchored, NothingIsPassedOver, [Next]_vars,
                    NEW c \in Calls, Following(c)'
             PROVE  1..call'[c].anchor \subseteq covered'[call'[c].job]
  BY DEF Anchored
<1> USE DEF Types
<1>1. CASE Anchor(c)
  <2>1. call[c].job \in Jobs /\ call'[c].job = call[c].job
    BY <1>1 DEF Anchor, At, Is, JobsBegin, CallRecord
  <2>2. CASE call'[c].anchor = cursor[call[c].job] /\ covered' = covered
    BY <2>1, <2>2 DEF NothingIsPassedOver
  <2>3. CASE covered' = [covered EXCEPT ![call[c].job] = @ \cup 1..call'[c].anchor]
    BY <2>1, <2>3
  <2>4. \/ call'[c].anchor = cursor[call[c].job] /\ covered' = covered
        \/ covered' = [covered EXCEPT ![call[c].job] = @ \cup 1..call'[c].anchor]
    BY <1>1 DEF Anchor, CallRecord
  <2> QED
    BY <2>2, <2>3, <2>4
<1>2. CASE Following(c) /\ call'[c].job = call[c].job /\ call'[c].anchor = call[c].anchor
  <2>1. call[c].job \in Jobs
    BY <1>2 DEF JobsBegin, Following
  <2> QED
    BY <1>2, <2>1, CoveredGrows DEF Anchored
<1> QED
  BY <1>1, <1>2, FollowingSteps

LEMMA PassedOverStep ==
    Types /\ JobsBegin /\ JobsEnd /\ Anchored /\ NothingIsPassedOver /\ [Next]_vars
       => NothingIsPassedOver'
<1> SUFFICES ASSUME Types, JobsBegin, JobsEnd, Anchored, NothingIsPassedOver, [Next]_vars
             PROVE  NothingIsPassedOver'
  OBVIOUS
<1> USE DEF Types
<1>1. ASSUME NEW j \in Jobs PROVE 1..cursor'[j] \subseteq covered'[j]
  <2>1. CASE cursor'[j] = cursor[j]
    BY <2>1, CoveredGrows DEF NothingIsPassedOver
  <2>2. ASSUME NEW c \in Calls, MoveCursor(c), cursor'[j] # cursor[j]
        PROVE  1..cursor'[j] \subseteq covered'[j]
    <3>1. j = call[c].job /\ call[c].page > call[c].anchor
      BY <2>2 DEF MoveCursor
    <3>2. /\ cursor[j] \in Int /\ call[c].page \in Int /\ call[c].anchor \in Int
      BY <3>1, Constants DEF CallRecord
    <3>3. cursor'[j] \in {cursor[j], call[c].page}
      <4>1. Max({cursor[j], call[c].page}) \in {cursor[j], call[c].page}
        BY <3>2, MaxOfTwo
      <4> QED
        BY <2>2, <3>1, <4>1 DEF MoveCursor
    <3>4. 1..call[c].anchor \subseteq covered[j]
      BY <2>2, <3>1 DEF Anchored, MoveCursor, At, Following
    <3>5. covered'[j] = covered[j] \cup (call[c].anchor + 1)..call[c].page
      BY <2>2, <3>1 DEF MoveCursor
    <3>6. 1..call[c].page \subseteq covered'[j]
      BY <3>2, <3>4, <3>5
    <3> QED
      BY <2>2, <3>3, <3>6
  <2>3. cursor' = cursor \/ \E c \in Calls : MoveCursor(c)
    BY ZenonT(40) DEF Next, Step, Finished, vars, session, world, Arrive, Admit, AnswerEarly,
     Claim, Probe, Forget, Work, Launch, Track, Anchor, Ask, ReadLog, Kill, Panic, Retake,
     ClaimEarly, Deliver, Quiet, AddLine, End, Evict
  <2> QED
    BY <2>1, <2>2, <2>3
<1>2. ASSUME NEW c \in Calls, call'[c].stage = "read", call'[c].ended
      PROVE  call'[c].page = printed'[call'[c].job]
  <2>1. Following(c)'
    BY <1>2 DEF Following
  <2>2. ~Anchor(c)
    BY <1>2 DEF Anchor, CallRecord
  <2>3. call[c].job \in Jobs
    BY <2>1, <2>2, FollowingSteps DEF JobsBegin, Following
  <2>4. CASE call'[c] = call[c]
    BY <1>2, <2>3, <2>4, OverStaysOver DEF NothingIsPassedOver, JobsEnd, At
  <2>5. CASE ReadLog(c) /\ call'[c].job = call[c].job
             /\ call'[c].page = printed[call[c].job] /\ printed' = printed
    BY <2>5
  <2> QED
    BY <1>2, <2>1, <2>2, <2>4, <2>5, FollowingSteps
<1> QED
  BY <1>1, <1>2 DEF NothingIsPassedOver, At

LEMMA CursorStep ==
    ASSUME Types, JobsBegin, [Next]_vars
    PROVE  \A j \in Jobs : cursor'[j] >= cursor[j]
<1> USE DEF Types
<1> SUFFICES ASSUME NEW j \in Jobs PROVE cursor'[j] >= cursor[j]
  OBVIOUS
<1>0. cursor[j] \in Int
  BY Constants
<1>1. ASSUME NEW c \in Calls, MoveCursor(c), cursor'[j] # cursor[j]
      PROVE  cursor'[j] >= cursor[j]
  <2>1. j = call[c].job
    BY <1>1 DEF MoveCursor
  <2>2. call[c].page \in Int
    BY Constants DEF CallRecord
  <2>3. Max({cursor[j], call[c].page}) >= cursor[j]
    BY <1>0, <2>2, MaxOfTwo
  <2> QED
    BY <1>1, <2>1, <2>3 DEF MoveCursor
<1>2. CASE cursor'[j] = cursor[j]
  BY <1>0, <1>2
<1>3. cursor' = cursor \/ \E c \in Calls : MoveCursor(c)
  BY ZenonT(40) DEF Next, Step, Finished, vars, session, world, Arrive, Admit, AnswerEarly,
     Claim, Probe, Forget, Work, Launch, Track, Anchor, Ask, ReadLog, Kill, Panic, Retake,
     ClaimEarly, Deliver, Quiet, AddLine, End, Evict
<1> QED
  BY <1>1, <1>2, <1>3

-----------------------------------------------------------------------------
(* The theorems *)

LEMMA InvariantInit == Init => IInv
<1>1. Init => NothingIsPassedOver
  BY DEF Init, NoCall, NothingIsPassedOver, At
<1> QED
  BY <1>1, TypesInit, BooksInit, JobsInit DEF IInv

LEMMA InvariantStep == IInv /\ [Next]_vars => IInv'
BY TypesStep, BooksStep, JobsBeginStep, JobsEndStep, AnchoredStep, ListedStep, PassedOverStep
   DEF IInv

LEMMA Invariant == Spec => []IInv
<1>1. Init => IInv
  BY InvariantInit
<1>2. IInv /\ [Next]_vars => IInv'
  BY InvariantStep
<1> QED
  BY <1>1, <1>2, PTL DEF Spec

LEMMA TypesHold == IInv => TypeOK
<1> SUFFICES ASSUME IInv PROVE TypeOK
  OBVIOUS
<1>1. Cardinality(Tickets(call)) <= Cardinality(Calls) /\ Cardinality(Calls) \in Nat
  <2>1. Tickets(call) \in SUBSET Calls
    BY DEF Tickets
  <2> QED
    BY <2>1, Constants, FS_Subset, FS_CardinalityType
<1>2. Cardinality(Tickets(call) \cup Claims(call)) <= Cardinality(Calls)
  <2>1. Tickets(call) \cup Claims(call) \in SUBSET Calls
    BY DEF Tickets, Claims
  <2> QED
    BY <2>1, Constants, FS_Subset
<1>3. /\ pool.active \in Nat /\ pool.active <= Cardinality(Calls)
      /\ pool.unclaimed \in Nat /\ pool.unclaimed <= Cardinality(Calls)
      /\ pool.spent \in Nat /\ pool.reserved \in Nat /\ pool.spent + pool.reserved <= HardLimit
  BY <1>1, <1>2 DEF IInv, Books, PoolRecord
<1>4. /\ pool.active \in 0..Cardinality(Calls) /\ pool.unclaimed \in 0..Cardinality(Calls)
      /\ pool.spent \in 0..HardLimit /\ pool.reserved \in 0..HardLimit
  BY <1>1, <1>3, Constants
<1>5. pool \in [quiet : BOOLEAN,
                active : 0..Cardinality(Calls), unclaimed : 0..Cardinality(Calls),
                spent : 0..HardLimit, reserved : 0..HardLimit]
  BY <1>4 DEF IInv, Books, PoolRecord
<1>6. \A c \in Calls :
        /\ call[c].stage \in Working \cup {"waiting", "queued", "admitted", "early",
                                          "answering", "failed", "answered"}
        /\ call[c].kind \in Kinds /\ call[c].job \in Jobs \cup {NoJob}
        /\ call[c].allowance \in 0..TokenBudget
  BY DEF IInv, Types, CallRecord, Stages, Holding, Ticketed
<1> QED
  BY <1>5, <1>6 DEF IInv, Types, TypeOK

(* Every record and every counter of the session keeps its range: the pool *)
(* never owes more calls than there are nor more tokens than its host has. *)
THEOREM Typing == Spec => []TypeOK
BY Invariant, TypesHold, PTL

(* However the calls of a burst overlap, are cancelled or panic, what it   *)
(* answered and what is reserved stay inside the host's compaction buffer, *)
(* and the counters of the pool are those of the calls that are there.     *)
THEOREM BurstBounded == Spec => []BurstStaysInside
<1>1. IInv => BurstStaysInside
  <2> SUFFICES ASSUME IInv PROVE BurstStaysInside
    OBVIOUS
  <2>1. ClaimedTokens = Tokens(call)
    BY DEF ClaimedTokens, Tokens, HoldsClaim, Holding
  <2>2. /\ {c \in Calls : HoldsTicket(c)} = Tickets(call)
        /\ {c \in Calls : HoldsTicket(c) \/ HoldsClaim(c)} = Tickets(call) \cup Claims(call)
    BY DEF HoldsTicket, HoldsClaim, Tickets, Claims, Holding, Ticketed
  <2> QED
    BY <2>1, <2>2, TypesHold DEF IInv, Books, BurstStaysInside
<1> QED
  BY <1>1, Invariant, PTL

(* A running job that the session started or asked for is in the           *)
(* background status, whatever snapshots and removals overlap.             *)
THEOREM RunningJobsListed == Spec => []RunningJobsStayListed
<1>1. IInv => RunningJobsStayListed
  BY DEF IInv
<1> QED
  BY <1>1, Invariant, PTL

(* The session's cursor is past a line only when a rendered page shows or  *)
(* names it or a caller left it out, and never goes back, in whatever      *)
(* order the calls finish.                                                 *)
THEOREM CursorFollows == Spec => CursorFollowsPages
<1>1. IInv => NothingIsPassedOver
  BY DEF IInv
<1>2. IInv /\ [Next]_vars => [\A j \in Jobs : cursor'[j] >= cursor[j]]_vars
  BY CursorStep DEF IInv
<1>3. Spec => []NothingIsPassedOver
  BY <1>1, Invariant, PTL
<1>4. Spec => CursorNeverGoesBack
  BY <1>2, Invariant, PTL DEF Spec, CursorNeverGoesBack
<1> QED
  BY <1>3, <1>4 DEF CursorFollowsPages
=============================================================================

------------------------ MODULE OrderedWindowProofs ------------------------
(***************************************************************************)
(* Proofs about OrderedWindow, for any number of requests, runners, lanes  *)
(* and candidates.                                                         *)
(***************************************************************************)
EXTENDS OrderedWindow, FiniteSetTheorems, TLAPS

USE POK, CountOK, GenLimitOK

----------------------------------------------------------------------------
(* Facts about the constants and the operators *)

LEMMA WidthType == Width \in Nat \ {0} /\ E \in Nat /\ Width = E + 1
BY DEF Width, E

LEMMA ModPosition == \A i \in Nat : i % Width \in Positions
BY WidthType DEF Positions

LEMMA VacanciesType ==
    ASSUME WindowOK, NEW q \in Requests
    PROVE  /\ Vacancies(q) \subseteq Nat
           /\ Cardinality(Vacancies(q)) \in Nat
<1>1. Vacancies(q) \subseteq next_reduce[q] + 1 .. next_reduce[q] + Width - 1
  BY DEF Vacancies, Window
<1>2. next_reduce[q] \in Nat
  BY DEF WindowOK
<1>3. IsFiniteSet(next_reduce[q] + 1 .. next_reduce[q] + Width - 1)
  BY SMTT(40), <1>2, WidthType, FS_Interval
<1>4. IsFiniteSet(Vacancies(q))
  BY <1>1, <1>3, FS_Subset
<1> QED
  BY <1>1, <1>2, <1>4, WidthType, FS_CardinalityType

LEMMA ReadySlotsFinite == IsFiniteSet(ReadySlots)
<1>1. IsFiniteSet(Positions)
  BY WidthType, FS_Interval DEF Positions
<1>2. IsFiniteSet(Requests \X Positions)
  BY <1>1, RequestsOK, FS_Product
<1> QED
  BY <1>2, FS_Subset DEF ReadySlots

----------------------------------------------------------------------------
(* Which actions change what *)

LEMMA WindowSteps ==
    ASSUME [Next]_vars
    PROVE  \/ UNCHANGED winVars
           \/ \E q \in Requests : TakeReady(q) \/ ConsumeRetire(q) \/ Advance(q) \/ RetireOnExit(q)
           \/ \E r \in Runners : TryClaim(r) \/ Publish(r) \/ LeaseDrop(r)
BY DEF Next, Coordinator, RunnerStep, vars,
   Cancel, LoopTest, FillSnapshot, TicketsTaken, SpawnEnd, TryTicket, Spawn, DropTicket,
   FrontierCheck, WaitFrontier, GoInline, IntoValue, InlineWork, ReduceCheck, Consume,
   ConsumeExact, StartCheck, TryBurst, AdmittedCheck, Work, PermitDrop,
   DisableAfterPanic, LeafExit

LEMMA RunnerSteps ==
    ASSUME [Next]_vars
    PROVE  \/ UNCHANGED runner
           \/ \E q \in Requests, r \in Runners : TryTicket(q, r) \/ Spawn(q, r) \/ DropTicket(q, r)
           \/ \E r \in Runners : RunnerStep(r)
BY DEF Next, Coordinator, vars,
   Cancel, LoopTest, FillSnapshot, TicketsTaken, SpawnEnd,
   FrontierCheck, TakeReady, WaitFrontier, GoInline, IntoValue, InlineWork, ReduceCheck,
   Consume, ConsumeRetire, ConsumeExact, Advance, RetireOnExit

LEMMA CoordinatorSteps ==
    ASSUME [Next]_vars
    PROVE  \/ UNCHANGED coordVars
           \/ \E q \in Requests : Coordinator(q)
BY DEF Next, vars, RunnerStep, Cancel,
   StartCheck, TryBurst, AdmittedCheck, TryClaim, Work, Publish, LeaseDrop, PermitDrop,
   DisableAfterPanic, LeafExit

LEMMA TicketSteps ==
    ASSUME [Next]_vars
    PROVE  \/ UNCHANGED leaf_tasks
           \/ \E q \in Requests, r \in Runners : TryTicket(q, r) \/ DropTicket(q, r)
           \/ \E r \in Runners : LeafExit(r)
BY ZenonT(40) DEF Next, Coordinator, RunnerStep, vars, execVars,
   Cancel, LoopTest, FillSnapshot, TicketsTaken, SpawnEnd, Spawn,
   FrontierCheck, TakeReady, WaitFrontier, GoInline, IntoValue, InlineWork, ReduceCheck,
   Consume, ConsumeRetire, RetireGeneration, ConsumeExact, Advance, RetireOnExit,
   StartCheck, TryBurst, AdmittedCheck, TryClaim, Work, Publish, LeaseDrop, PermitDrop,
   DisableAfterPanic

LEMMA PoolSteps ==
    ASSUME [Next]_vars
    PROVE  \/ UNCHANGED <<extra_pool, extra_disabled>>
           \/ \E q \in Requests, r \in Runners : Spawn(q, r)
           \/ \E r \in Runners : DisableAfterPanic(r)
BY ZenonT(40) DEF Next, Coordinator, RunnerStep, vars, execVars,
   Cancel, LoopTest, FillSnapshot, TicketsTaken, SpawnEnd, TryTicket, DropTicket,
   FrontierCheck, TakeReady, WaitFrontier, GoInline, IntoValue, InlineWork, ReduceCheck,
   Consume, ConsumeRetire, RetireGeneration, ConsumeExact, Advance, RetireOnExit,
   StartCheck, TryBurst, AdmittedCheck, TryClaim, Work, Publish, LeaseDrop, PermitDrop, LeafExit

----------------------------------------------------------------------------
(* Types *)

LEMMA SlotFields ==
    ASSUME NEW s \in Slots
    PROVE  s.index \in Nat /\ s.gen \in Generations /\ s.kind \in {"empty", "running", "ready"}
BY GenLimitOK DEF Slots, Empty, Generations

LEMMA SlotKinds ==
    ASSUME NEW i \in Nat, NEW g \in Generations
    PROVE  /\ Empty \in Slots
           /\ ReadySlot(i, g) \in Slots
           /\ \A r \in Runners : RunningSlot(i, g, r) \in Slots
BY DEF Slots, Empty, ReadySlot, RunningSlot

LEMMA SlotUpdate ==
    ASSUME WindowOK, NEW q \in Requests, NEW i \in Nat, NEW s \in Slots,
           slots' = [slots EXCEPT ![q][i % Width] = s]
    PROVE  slots' \in [Requests -> [Positions -> Slots]]
BY ModPosition DEF WindowOK

LEMMA AppendType ==
    ASSUME NEW S, NEW s \in Seq(S), NEW e \in S
    PROVE  Append(s, e) \in Seq(S)
OBVIOUS

LEMMA ExecutorStep == ExecutorOK /\ [Next]_vars => ExecutorOK'
<1> SUFFICES ASSUME ExecutorOK, [Next]_vars PROVE ExecutorOK'
  OBVIOUS
<1> USE DEF ExecutorOK
<1>1. CASE UNCHANGED <<extra_pool, extra_disabled>>
  BY <1>1
<1>2. ASSUME NEW q \in Requests, NEW r \in Runners, Spawn(q, r) PROVE ExecutorOK'
  BY <1>2 DEF Spawn
<1>3. ASSUME NEW r \in Runners, DisableAfterPanic(r) PROVE ExecutorOK'
  BY <1>3 DEF DisableAfterPanic
<1> QED
  BY <1>1, <1>2, <1>3, PoolSteps

LEMMA WindowStep == WindowOK /\ RunnerOK /\ [Next]_vars => WindowOK'
<1> SUFFICES ASSUME WindowOK, RunnerOK, [Next]_vars PROVE WindowOK'
  OBVIOUS
<1> USE DEF WindowOK
<1>1. CASE UNCHANGED winVars
  BY <1>1 DEF winVars
<1>2. ASSUME NEW q \in Requests, TakeReady(q) PROVE WindowOK'
  <2>1. next_reduce[q] % Width \in Positions /\ Empty \in Slots
    BY ModPosition, SlotKinds DEF Generations
  <2> QED
    BY <1>2, <2>1 DEF TakeReady, Vacate
<1>3. ASSUME NEW q \in Requests, NEW b \in BOOLEAN, RetireGeneration(q, b) PROVE WindowOK'
  <2>1. slots' \in [Requests -> [Positions -> Slots]]
    BY <1>3, SlotKinds DEF RetireGeneration, Generations
  <2>2. generation' \in [Requests -> Generations]
    <3>1. CASE generation[q] < GenLimit
      <4>1. generation[q] + 1 \in Generations
        BY <3>1 DEF Generations
      <4> QED
        BY <1>3, <3>1, <4>1 DEF RetireGeneration
    <3>2. CASE ~(generation[q] < GenLimit)
      BY <1>3, <3>2 DEF RetireGeneration
    <3> QED
      BY <3>1, <3>2
  <2>3. accepting' \in [Requests -> BOOLEAN]
    BY <1>3 DEF RetireGeneration
  <2> QED
    BY <1>3, <2>1, <2>2, <2>3 DEF RetireGeneration
<1>4. ASSUME NEW q \in Requests, Advance(q) PROVE WindowOK'
  BY <1>4 DEF Advance
<1>5. ASSUME NEW r \in Runners, TryClaim(r) PROVE WindowOK'
  <2>1. CASE UNCHANGED slots
    BY <1>5, <2>1 DEF TryClaim
  <2>2. ASSUME NEW i \in Vacancies(runner[r].req), Claim(r, i) PROVE WindowOK'
    <3>1. runner[r].req \in Requests /\ runner[r].gen \in Generations
      BY <1>5 DEF RunnerOK, TryClaim
    <3>2. i \in Nat
      BY <3>1, VacanciesType
    <3>3. i % Width \in Positions /\ RunningSlot(i, runner[r].gen, r) \in Slots
      BY <3>1, <3>2, ModPosition, SlotKinds
    <3> QED
      BY <1>5, <2>2, <3>1, <3>3 DEF TryClaim, Claim
  <2> QED
    BY <1>5, <2>1, <2>2 DEF TryClaim
<1>6. ASSUME NEW r \in Runners, Publish(r) \/ LeaseDrop(r) PROVE WindowOK'
  <2> DEFINE p == runner[r].index % Width
  <2>1. /\ runner[r].req \in Requests
        /\ runner[r].gen \in Generations
        /\ runner[r].index \in Nat
    BY <1>6 DEF RunnerOK, Publish, LeaseDrop
  <2>2. p \in Positions /\ Empty \in Slots /\ ReadySlot(runner[r].index, runner[r].gen) \in Slots
    BY <2>1, ModPosition, SlotKinds
  <2>3. slots' \in [Requests -> [Positions -> Slots]]
    <3>1. CASE Publish(r)
      BY <3>1, <2>1, <2>2, SlotUpdate DEF Publish
    <3>2. CASE LeaseDrop(r)
      BY <3>2, <2>1, <2>2, SlotUpdate DEF LeaseDrop, Vacate
    <3> QED
      BY <1>6, <3>1, <3>2
  <2> QED
    BY <1>6, <2>3 DEF Publish, LeaseDrop
<1> QED
  BY <1>1, <1>2, <1>3, <1>4, <1>5, <1>6, WindowSteps DEF ConsumeRetire, RetireOnExit

LEMMA RunnerTypeStep == RunnerOK /\ CoordinatorOK /\ WindowOK /\ [Next]_vars => RunnerOK'
<1> SUFFICES ASSUME RunnerOK, CoordinatorOK, WindowOK, [Next]_vars PROVE RunnerOK'
  OBVIOUS
<1> USE RequestsOK DEF RunnerOK, RunnerPC
<1>1. CASE UNCHANGED runner
  BY <1>1
<1>2. ASSUME NEW q \in Requests, NEW r \in Runners, TryTicket(q, r) PROVE RunnerOK'
  <2>1. plan[q].gen \in Generations
    BY DEF CoordinatorOK
  <2> QED
    BY <1>2, <2>1 DEF TryTicket
<1>3. ASSUME NEW q \in Requests, NEW r \in Runners, Spawn(q, r) PROVE RunnerOK'
  BY <1>3 DEF Spawn, RunnerGoto, TicketsOf
<1>4. ASSUME NEW r \in Runners, ReturnTicket(r) PROVE RunnerOK'
  BY <1>4 DEF ReturnTicket, IdleRunner, Generations
<1>5. ASSUME NEW r \in Runners, TryClaim(r) PROVE RunnerOK'
  <2>1. runner[r].req \in Requests
    BY <1>5 DEF TryClaim
  <2>2. ASSUME NEW i \in Vacancies(runner[r].req), Claim(r, i) PROVE RunnerOK'
    <3>1. i \in Nat
      BY <2>1, VacanciesType
    <3> QED
      BY ZenonT(40), <1>5, <2>1, <2>2, <3>1 DEF Claim, TryClaim
  <2> QED
    BY <1>5, <2>2 DEF TryClaim, RunnerGoto
<1>6. ASSUME NEW r \in Runners, LeaseDrop(r) PROVE RunnerOK'
  <2>1. AfterLease[runner[r].pc] \in {"permit", "unwindPermit", "exit"}
    BY <1>6 DEF LeaseDrop, AfterLease
  <2> QED
    BY <1>6, <2>1 DEF LeaseDrop, RunnerGoto
<1>7. ASSUME NEW r \in Runners,
             \/ StartCheck(r) \/ TryBurst(r) \/ AdmittedCheck(r)
             \/ Work(r) \/ Publish(r) \/ PermitDrop(r) \/ DisableAfterPanic(r)
      PROVE  RunnerOK'
  BY <1>7 DEF StartCheck, TryBurst, AdmittedCheck, Work, Publish, PermitDrop,
              DisableAfterPanic, RunnerGoto
<1> QED
  BY <1>1, <1>2, <1>3, <1>4, <1>5, <1>6, <1>7, RunnerSteps
     DEF RunnerStep, DropTicket, LeafExit

LEMMA CoordinatorStep == CoordinatorOK /\ WindowOK /\ [Next]_vars => CoordinatorOK'
<1> SUFFICES ASSUME CoordinatorOK, WindowOK, [Next]_vars PROVE CoordinatorOK'
  OBVIOUS
<1> USE DEF CoordinatorOK, CoordPC
<1>1. CASE UNCHANGED coordVars
  BY <1>1 DEF coordVars
<1>2. ASSUME NEW q \in Requests,
             \/ LoopTest(q) \/ SpawnEnd(q) \/ FrontierCheck(q) \/ WaitFrontier(q)
             \/ GoInline(q) \/ IntoValue(q) \/ ReduceCheck(q) \/ ConsumeExact(q)
             \/ Advance(q) \/ RetireOnExit(q)
      PROVE  CoordinatorOK'
  BY <1>2 DEF LoopTest, SpawnEnd, FrontierCheck, WaitFrontier, GoInline, IntoValue,
              ReduceCheck, ConsumeExact, Advance, RetireOnExit, Goto, Return
<1>3. ASSUME NEW q \in Requests, FillSnapshot(q) PROVE CoordinatorOK'
  <2> DEFINE n == Cardinality(Vacancies(q))
  <2>1. n \in Nat /\ (IF n < E THEN n ELSE E) \in 0 .. E
    BY VacanciesType, WidthType
  <2>2. generation[q] \in Generations
    BY DEF WindowOK
  <2>3. plan' \in [Requests -> [gen : Generations, wanted : 0 .. E]]
    <3>1. CASE UNCHANGED plan
      BY <3>1
    <3>2. CASE plan' = [plan EXCEPT ![q] = [gen |-> generation[q],
                                            wanted |-> IF n < E THEN n ELSE E]]
      <4> HIDE DEF n
      <4> QED
        BY <3>2, <2>1, <2>2
    <3> QED
      BY <1>3, <3>1, <3>2 DEF FillSnapshot
  <2> QED
    BY <1>3, <2>3 DEF FillSnapshot, Goto
<1>4. ASSUME NEW q \in Requests, TicketsTaken(q) PROVE CoordinatorOK'
  <2>1. plan' \in [Requests -> [gen : Generations, wanted : 0 .. E]]
    <3>1. [plan[q] EXCEPT !.wanted = 0] \in [gen : Generations, wanted : 0 .. E]
      <4>1. [plan[q] EXCEPT !.wanted = 0] = [gen |-> plan[q].gen, wanted |-> 0]
        OBVIOUS
      <4>2. plan[q].gen \in Generations /\ 0 \in 0 .. E
        BY WidthType
      <4> QED
        BY <4>1, <4>2
    <3>2. plan' = [plan EXCEPT ![q] = [plan[q] EXCEPT !.wanted = 0]]
      BY <1>4 DEF TicketsTaken
    <3> QED
      BY <3>1, <3>2
  <2> QED
    BY <1>4, <2>1 DEF TicketsTaken, Goto
<1>5. ASSUME NEW q \in Requests, NEW r \in Runners, TryTicket(q, r) PROVE CoordinatorOK'
  <2>1. plan[q].wanted - 1 \in 0 .. E
    BY <1>5, WidthType DEF TryTicket
  <2>2. plan' \in [Requests -> [gen : Generations, wanted : 0 .. E]]
    BY <1>5, <2>1 DEF TryTicket
  <2> QED
    BY <1>5, <2>2 DEF TryTicket
<1>6. ASSUME NEW q \in Requests, NEW r \in Runners, Spawn(q, r) \/ DropTicket(q, r)
      PROVE  CoordinatorOK'
  BY <1>6 DEF Spawn, DropTicket, Goto, coordVars
<1>7. ASSUME NEW q \in Requests, TakeReady(q) \/ InlineWork(q) PROVE CoordinatorOK'
  <2>1. /\ slots[q][next_reduce[q] % Width] \in Slots
        /\ next_reduce[q] \in Nat
        /\ generation[q] \in Generations
    BY ModPosition DEF WindowOK
  <2>2. value' \in [Requests -> [index : Nat, gen : Generations]]
    <3>1. CASE TakeReady(q)
      BY <3>1, <2>1, SlotFields DEF TakeReady, Value
    <3>2. CASE InlineWork(q)
      <4>1. CASE UNCHANGED value
        BY <4>1
      <4>2. CASE value' = [value EXCEPT ![q] = Value(next_reduce[q], generation[q])]
        BY <4>2, <2>1 DEF Value
      <4> QED
        BY <3>2, <4>1, <4>2 DEF InlineWork
    <3> QED
      BY <1>7, <3>1, <3>2
  <2> QED
    BY <1>7, <2>2 DEF TakeReady, InlineWork, Goto, Return
<1>8. ASSUME NEW q \in Requests, Consume(q) \/ ConsumeRetire(q) PROVE CoordinatorOK'
  <2>1. Append(delivered[q], value[q]) \in Seq([index : Nat, gen : Generations])
    <3>1. /\ delivered[q] \in Seq([index : Nat, gen : Generations])
          /\ value[q] \in [index : Nat, gen : Generations]
      OBVIOUS
    <3> QED
      BY <3>1, AppendType
  <2>2. delivered' \in [Requests -> Seq([index : Nat, gen : Generations])]
    BY <1>8, <2>1 DEF Consume, ConsumeRetire, Deliver
  <2> QED
    BY <1>8, <2>2 DEF Consume, ConsumeRetire, Goto, Return
<1> QED
  BY <1>1, <1>2, <1>3, <1>4, <1>5, <1>6, <1>7, <1>8, CoordinatorSteps DEF Coordinator

----------------------------------------------------------------------------
(* The slots stay in the window *)

(* Two indices of one window never share a position.                       *)
LEMMA ModUnique ==
    ASSUME NEW n \in Nat, NEW a \in n .. n + Width - 1, NEW b \in n .. n + Width - 1,
           a % Width = b % Width
    PROVE  a = b
<1> DEFINE W == Width
           x == a \div W
           y == b \div W
<1>1. W \in Nat \ {0} /\ a \in Nat /\ b \in Nat
  BY WidthType
<1> HIDE DEF W
<1>2. /\ x \in Int /\ a = x * W + (a % W)
      /\ y \in Int /\ b = y * W + (b % W)
  BY <1>1
<1>3. a - b = W * (x - y)
  <2> HIDE DEF x, y
  <2>1. a - b = x * W - y * W
    <3>1. a % W = b % W
      BY DEF W
    <3> QED
      BY <3>1, <1>1, <1>2
  <2> QED
    BY <2>1, <1>1, <1>2
<1>4. a - b < W /\ b - a < W
  BY WidthType DEF W
<1>5. x = y
  <2> HIDE DEF x, y
  <2>1. CASE x - y >= 1
    <3>1. W * (x - y) >= W
      BY <2>1, <1>1, <1>2
    <3> QED
      BY <3>1, <1>3, <1>4, <1>1
  <2>2. CASE y - x >= 1
    <3>1. W * (y - x) >= W
      BY <2>2, <1>1, <1>2
    <3>2. b - a = W * (y - x)
      BY <1>1, <1>2, <1>3
    <3> QED
      BY <3>1, <3>2, <1>4, <1>1
  <2> QED
    BY <2>1, <2>2, <1>2
<1> QED
  BY <1>1, <1>3, <1>5

(* A vacant candidate's position is empty: no claim overwrites a slot.     *)
LEMMA VacantIsEmpty ==
    ASSUME WindowOK, SlotsInWindow, NEW q \in Requests, NEW i \in Vacancies(q)
    PROVE  slots[q][i % Width] = Empty
<1> DEFINE p == i % Width
           s == slots[q][p]
<1>1. next_reduce[q] \in Nat /\ i \in Nat /\ p \in Positions
  BY VacanciesType, ModPosition DEF WindowOK
<1>2. i \in next_reduce[q] .. next_reduce[q] + Width - 1
  BY <1>1, WidthType DEF Vacancies, Window
<1>3. s \in Slots
  BY <1>1 DEF WindowOK
<1>4. s.kind = "empty"
  <2> SUFFICES ASSUME s.kind # "empty" PROVE FALSE
    OBVIOUS
  <2>1. /\ s.index % Width = p
        /\ s.index >= next_reduce[q]
        /\ s.index < next_reduce[q] + Width
    BY <1>1, <1>3, SlotFields DEF SlotsInWindow
  <2>2. s.index \in next_reduce[q] .. next_reduce[q] + Width - 1
    BY <2>1, <1>1, <1>3, SlotFields, WidthType
  <2>3. s.index = i
    BY <1>1, <1>2, <2>1, <2>2, ModUnique
  <2> QED
    BY <2>3 DEF Vacancies, SlotIsNone
<1> QED
  BY <1>3, <1>4 DEF Slots, Empty

SlotInWindow(q, p) ==
    LET s == slots[q][p] IN
    s.kind # "empty" =>
        /\ s.gen = generation[q]
        /\ s.index % Width = p
        /\ s.index < Count[q]
        /\ s.index >= next_reduce[q] + (IF pc[q] \in Reducing THEN 1 ELSE 0)
        /\ s.index < next_reduce[q] + Width

LEMMA SlotsInWindowStep ==
    ASSUME WindowOK, RunnerOK, CoordinatorOK, SlotsInWindow, [Next]_vars
    PROVE  SlotsInWindow'
<1>0. \A q \in Requests, p \in Positions : SlotInWindow(q, p)
  BY DEF SlotsInWindow, SlotInWindow
<1> SUFFICES ASSUME NEW k \in Requests, NEW p \in Positions PROVE SlotInWindow(k, p)'
  BY DEF SlotsInWindow, SlotInWindow
<1>s. /\ slots[k][p] \in Slots /\ slots[k][p].index \in Nat
      /\ next_reduce[k] \in Nat /\ generation[k] \in Generations
      /\ Count[k] \in Nat
  BY SlotFields DEF WindowOK
<1>2. ASSUME NEW q \in Requests, TakeReady(q) PROVE SlotInWindow(k, p)'
  <2> DEFINE f == next_reduce[q] % Width
  <2>1. CASE k = q /\ p = f
    BY <1>2, <2>1, ModPosition DEF TakeReady, Vacate, Empty, SlotInWindow, WindowOK
  <2>2. CASE ~(k = q /\ p = f)
    <3>1. slots'[k][p] = slots[k][p]
      BY <1>2, <2>2 DEF TakeReady, Vacate, WindowOK
    <3>2. k = q => p # next_reduce[k] % Width
      BY <2>2
    <3>3. k # q => pc'[k] = pc[k]
      BY <1>2 DEF TakeReady, Goto, CoordinatorOK
    <3>4. UNCHANGED <<generation, next_reduce>>
      BY <1>2 DEF TakeReady
    <3> QED
      BY SMTT(40), <3>1, <3>2, <3>3, <3>4, <1>0, <1>s DEF SlotInWindow
  <2> QED
    BY <2>1, <2>2
<1>1. CASE UNCHANGED winVars
  <2>1. CASE pc'[k] \in Reducing => pc[k] \in Reducing
    BY <1>1, <1>0, <2>1, <1>s DEF SlotInWindow, winVars
  <2>2. CASE GoInline(k)
    <3> SUFFICES ASSUME slots[k][p].kind # "empty"
                 PROVE  slots[k][p].index >= next_reduce[k] + 1
      BY <1>1, <1>0, <1>s DEF SlotInWindow, winVars
    <3>1. /\ slots[k][p].index % Width = p
          /\ slots[k][p].gen = generation[k]
          /\ slots[k][p].index >= next_reduce[k]
      BY <1>0, <1>s DEF SlotInWindow
    <3>2. slots[k][p].index # next_reduce[k]
      <4> SUFFICES ASSUME slots[k][p].index = next_reduce[k] PROVE FALSE
        OBVIOUS
      <4>1. next_reduce[k] % Width = p /\ IsCurrent(k, slots[k][p])
        BY <3>1 DEF IsCurrent
      <4>2. slots[k][p].kind \in {"running", "ready"}
        BY <1>s, SlotFields
      <4> QED
        BY <2>2, <4>1, <4>2 DEF GoInline, HeldByRunner
    <3> QED
      BY <3>1, <3>2, <1>s
  <2>3. GoInline(k) \/ TakeReady(k) \/ (pc'[k] \in Reducing => pc[k] \in Reducing)
    <3>1. CASE UNCHANGED coordVars
      BY <3>1 DEF coordVars
    <3>2. ASSUME NEW q \in Requests, Coordinator(q), q # k PROVE pc'[k] = pc[k]
      BY <3>2 DEF Coordinator, coordVars, CoordinatorOK, Goto, Return,
         LoopTest, FillSnapshot, TicketsTaken, SpawnEnd, TryTicket, Spawn, DropTicket,
         FrontierCheck, TakeReady, WaitFrontier, GoInline, IntoValue, InlineWork, ReduceCheck,
         Consume, ConsumeRetire, ConsumeExact, Advance, RetireOnExit
    <3>3. CASE \/ IntoValue(k) \/ InlineWork(k) \/ ReduceCheck(k) \/ Consume(k)
               \/ ConsumeRetire(k) \/ ConsumeExact(k)
      BY <3>3 DEF IntoValue, InlineWork, ReduceCheck, Consume, ConsumeRetire, ConsumeExact, Reducing
    <3>4. CASE \/ LoopTest(k) \/ FillSnapshot(k) \/ TicketsTaken(k) \/ SpawnEnd(k)
               \/ FrontierCheck(k) \/ WaitFrontier(k) \/ Advance(k) \/ RetireOnExit(k)
      BY <3>4 DEF LoopTest, FillSnapshot, TicketsTaken, SpawnEnd, FrontierCheck, WaitFrontier,
         Advance, RetireOnExit, Goto, Return, Reducing, CoordinatorOK
    <3>5. CASE \E r \in Runners : TryTicket(k, r) \/ Spawn(k, r) \/ DropTicket(k, r)
      BY <3>5 DEF TryTicket, Spawn, DropTicket, Goto, Reducing, CoordinatorOK, coordVars
    <3> QED
      BY <3>1, <3>2, <3>3, <3>4, <3>5, CoordinatorSteps DEF Coordinator
  <2> QED
    BY <2>1, <2>2, <2>3, <1>2
<1>3. ASSUME NEW q \in Requests, NEW b \in BOOLEAN, RetireGeneration(q, b),
             k # q => pc'[k] = pc[k]
      PROVE  SlotInWindow(k, p)'
  <2>1. CASE k = q
    BY <1>3, <2>1 DEF RetireGeneration, SlotInWindow, Empty, WindowOK
  <2>2. CASE k # q
    BY <1>3, <2>2, <1>0 DEF RetireGeneration, SlotInWindow, WindowOK
  <2> QED
    BY <2>1, <2>2
<1>4. ASSUME NEW q \in Requests, Advance(q) PROVE SlotInWindow(k, p)'
  <2>1. CASE k = q
    BY <1>4, <2>1, <1>0, <1>s, WidthType DEF Advance, Goto, SlotInWindow, Reducing, CoordinatorOK, WindowOK
  <2>2. CASE k # q
    BY <1>4, <2>2, <1>0, <1>s DEF Advance, Goto, SlotInWindow, CoordinatorOK, WindowOK
  <2> QED
    BY <2>1, <2>2
<1>5. ASSUME NEW r \in Runners, TryClaim(r) PROVE SlotInWindow(k, p)'
  <2>1. CASE UNCHANGED slots
    BY <1>5, <2>1, <1>0 DEF TryClaim, SlotInWindow, coordVars
  <2>2. ASSUME WindowOpen(r), NEW i \in Vacancies(runner[r].req), Claim(r, i)
        PROVE  SlotInWindow(k, p)'
    <3> DEFINE q == runner[r].req
    <3>1. q \in Requests /\ i \in Nat
      BY <1>5, VacanciesType DEF RunnerOK, TryClaim
    <3>2. UNCHANGED <<generation, next_reduce, pc>>
      BY <1>5 DEF TryClaim, coordVars
    <3>3. CASE k = q /\ p = i % Width
      <4>1. slots'[k][p] = RunningSlot(i, generation[k], r)
        BY <2>2, <3>1, <3>3, ModPosition DEF Claim, WindowOK, WindowOpen
      <4>2. i >= next_reduce[k] + 1 /\ i < next_reduce[k] + Width /\ i < Count[k]
        BY <3>3, <1>s, WidthType DEF Vacancies, Window
      <4> QED
        BY <4>1, <4>2, <3>2, <3>3, <3>1, <1>s DEF SlotInWindow, RunningSlot
    <3>4. CASE ~(k = q /\ p = i % Width)
      <4>1. slots'[k][p] = slots[k][p]
        BY <2>2, <3>4 DEF Claim, WindowOK
      <4> QED
        BY <4>1, <3>2, <1>0 DEF SlotInWindow
    <3> QED
      BY <3>3, <3>4
  <2> QED
    BY <1>5, <2>1, <2>2 DEF TryClaim
<1>6. ASSUME NEW r \in Runners, Publish(r) \/ LeaseDrop(r) PROVE SlotInWindow(k, p)'
  <2> DEFINE q == runner[r].req
             i == runner[r].index
  <2>1. UNCHANGED <<generation, next_reduce, pc>>
    BY <1>6 DEF Publish, LeaseDrop, coordVars
  <2>2. CASE slots'[k][p] = slots[k][p]
    BY <2>1, <2>2, <1>0 DEF SlotInWindow
  <2>3. CASE slots'[k][p] = Empty
    BY <2>3 DEF SlotInWindow, Empty
  <2>4. CASE slots'[k][p] = ReadySlot(i, runner[r].gen) /\ slots[k][p] = RunningSlot(i, runner[r].gen, r)
    BY <2>1, <2>4, <1>0 DEF SlotInWindow, ReadySlot, RunningSlot
  <2>5. q \in Requests /\ i % Width \in Positions
    BY <1>6, ModPosition DEF RunnerOK, Publish, LeaseDrop
  <2>6. CASE Publish(r)
    <3>1. CASE k = q /\ p = i % Width
      BY <2>6, <2>2, <2>4, <2>5, <3>1 DEF Publish, OwnsSlot, WindowOK
    <3>2. CASE ~(k = q /\ p = i % Width)
      BY <2>6, <2>2, <2>5, <3>2 DEF Publish, WindowOK
    <3> QED
      BY <3>1, <3>2
  <2>7. CASE LeaseDrop(r)
    <3>1. CASE k = q /\ p = i % Width
      BY <2>7, <2>2, <2>3, <2>5, <3>1 DEF LeaseDrop, Vacate, WindowOK
    <3>2. CASE ~(k = q /\ p = i % Width)
      BY <2>7, <2>2, <2>5, <3>2 DEF LeaseDrop, Vacate, WindowOK
    <3> QED
      BY <3>1, <3>2
  <2> QED
    BY <1>6, <2>6, <2>7
<1> QED
  <2>1. ASSUME NEW q \in Requests, ConsumeRetire(q) \/ RetireOnExit(q) PROVE SlotInWindow(k, p)'
    <3>1. k # q => pc'[k] = pc[k]
      BY <2>1 DEF ConsumeRetire, RetireOnExit, Goto, Return, CoordinatorOK
    <3> QED
      BY <2>1, <3>1, <1>3 DEF ConsumeRetire, RetireOnExit
  <2> QED
    BY <2>1, <1>1, <1>2, <1>4, <1>5, <1>6, WindowSteps

----------------------------------------------------------------------------
(* Tickets *)

TicketsOwned == leaf_tasks \in Nat /\ TicketConservation

LEMMA TicketsStep ==
    ASSUME RunnerOK, TicketsOwned, [Next]_vars
    PROVE  TicketsOwned'
<1> USE DEF TicketsOwned, TicketConservation
<1>1. IsFiniteSet(Busy) /\ Cardinality(Busy) \in Nat
  BY RunnersOK, FS_Subset, FS_CardinalityType DEF Busy
<1>2. CASE UNCHANGED leaf_tasks /\ Busy' = Busy
  BY <1>2
<1>3. ASSUME NEW q \in Requests, NEW r \in Runners, TryTicket(q, r) PROVE TicketsOwned'
  <2>1. Busy' = Busy \cup {r} /\ r \notin Busy
    BY <1>3 DEF TryTicket, Busy, RunnerOK
  <2>2. Cardinality(Busy') = Cardinality(Busy) + 1
    BY <1>1, <2>1, FS_AddElement
  <2> QED
    BY <1>1, <1>3, <2>2, WidthType DEF TryTicket
<1>4. ASSUME NEW r \in Runners, ReturnTicket(r), runner[r].pc # "idle" PROVE TicketsOwned'
  <2>1. Busy' = Busy \ {r} /\ r \in Busy
    BY <1>4 DEF ReturnTicket, IdleRunner, Busy, RunnerOK
  <2>2. Cardinality(Busy') = Cardinality(Busy) - 1
    BY <1>1, <2>1, FS_RemoveElement
  <2> QED
    BY <1>1, <1>4, <2>2, WidthType DEF ReturnTicket
<1>5. ASSUME NEW r \in Runners, RunnerStep(r), ~LeafExit(r)
      PROVE  UNCHANGED leaf_tasks /\ Busy' = Busy
  <2>1. UNCHANGED leaf_tasks
    BY <1>5 DEF RunnerStep, execVars, StartCheck, TryBurst, AdmittedCheck, TryClaim, Work,
       Publish, LeaseDrop, PermitDrop, DisableAfterPanic
  <2>2. /\ runner[r].pc # "idle" /\ runner'[r].pc # "idle"
        /\ \A x \in Runners \ {r} : runner'[x] = runner[x]
    <3>1. CASE TryClaim(r)
      BY <3>1 DEF TryClaim, Claim, RunnerGoto, RunnerOK
    <3>2. CASE LeaseDrop(r)
      BY <3>2 DEF LeaseDrop, AfterLease, RunnerGoto, RunnerOK
    <3> QED
      BY <1>5, <3>1, <3>2 DEF RunnerStep, RunnerGoto, RunnerOK, StartCheck, TryBurst,
         AdmittedCheck, Work, Publish, PermitDrop, DisableAfterPanic
  <2>3. Busy' = Busy
    BY <2>2 DEF Busy
  <2> QED
    BY <2>1, <2>3
<1>6. ASSUME NEW q \in Requests, NEW r \in Runners, Spawn(q, r)
      PROVE  UNCHANGED leaf_tasks /\ Busy' = Busy
  BY <1>6 DEF Spawn, TicketsOf, Busy, RunnerGoto, RunnerOK
<1>7. ASSUME NEW q \in Requests, NEW r \in Runners, DropTicket(q, r) PROVE TicketsOwned'
  BY <1>7, <1>4 DEF DropTicket, TicketsOf
<1>8. ASSUME NEW r \in Runners, LeafExit(r) PROVE TicketsOwned'
  BY <1>8, <1>4 DEF LeafExit
<1>9. CASE UNCHANGED leaf_tasks
  <2>1. CASE UNCHANGED runner
    BY <1>9, <2>1, <1>2 DEF Busy
  <2> QED
    BY <1>9, <2>1, <1>2, <1>3, <1>5, <1>6, <1>7, <1>8, RunnerSteps
<1> QED
  BY <1>3, <1>7, <1>8, <1>9, TicketSteps

----------------------------------------------------------------------------
(* Occupied slots *)

LEMMA LiveSlotsType ==
    ASSUME live_slots \in [Requests -> Int], [Next]_vars
    PROVE  live_slots' \in [Requests -> Int]
<1>1. CASE UNCHANGED live_slots
  BY <1>1
<1>2. ASSUME NEW q, \/ live_slots' = [live_slots EXCEPT ![q] = @ + 1]
                    \/ live_slots' = [live_slots EXCEPT ![q] = @ - 1]
                    \/ live_slots' = [live_slots EXCEPT ![q] = 0]
      PROVE  live_slots' \in [Requests -> Int]
  <2>1. \A x \in Requests : live_slots'[x] \in Int
    BY <1>2
  <2> QED
    BY <1>2, <2>1
<1>3. ASSUME NEW q \in Requests, TakeReady(q) \/ ConsumeRetire(q) \/ Advance(q) \/ RetireOnExit(q)
      PROVE  live_slots' \in [Requests -> Int]
  BY <1>1, <1>2, <1>3
     DEF TakeReady, ConsumeRetire, Advance, RetireOnExit, RetireGeneration, Vacate
<1>4. ASSUME NEW r \in Runners, TryClaim(r) \/ Publish(r) \/ LeaseDrop(r)
      PROVE  live_slots' \in [Requests -> Int]
  BY <1>1, <1>2, <1>4 DEF TryClaim, Claim, Publish, LeaseDrop, Vacate
<1> QED
  BY <1>1, <1>3, <1>4, WindowSteps DEF winVars

LEMMA LiveSlotsStep ==
    ASSUME WindowOK, RunnerOK, CoordinatorOK, SlotsInWindow, [Next]_vars,
           \A q \in Requests : live_slots[q] = Cardinality(Occupied(q)),
           live_slots \in [Requests -> Int]
    PROVE  \A q \in Requests : live_slots'[q] = Cardinality(Occupied(q)')
<1>0. \A q \in Requests : IsFiniteSet(Occupied(q)) /\ Cardinality(Occupied(q)) \in Nat
  <2>1. IsFiniteSet(Positions)
    BY WidthType, FS_Interval DEF Positions
  <2> QED
    BY <2>1, FS_Subset, FS_CardinalityType DEF Occupied
<1> SUFFICES ASSUME NEW k \in Requests
             PROVE  live_slots'[k] = Cardinality(Occupied(k)')
  OBVIOUS
<1>1. CASE UNCHANGED winVars
  BY <1>1 DEF winVars, Occupied
<1>2. ASSUME NEW q \in Requests, NEW i \in Nat, Vacate(q, i % Width),
             slots[q][i % Width].kind # "empty"
      PROVE  live_slots'[k] = Cardinality(Occupied(k)')
  <2> DEFINE p == i % Width
  <2>1. p \in Positions
    BY ModPosition
  <2>2. CASE k = q
    <3>1. Occupied(k)' = Occupied(k) \ {p} /\ p \in Occupied(k)
      BY <1>2, <2>1, <2>2 DEF Vacate, Occupied, Empty, WindowOK
    <3>2. Cardinality(Occupied(k)') = Cardinality(Occupied(k)) - 1
      <4>1. IsFiniteSet(Occupied(k)) /\ p \in Occupied(k)
        BY <1>0, <3>1
      <4>2. Cardinality(Occupied(k) \ {p}) = Cardinality(Occupied(k)) - 1
        <5> HIDE DEF p
        <5> QED
          BY <4>1, FS_RemoveElement
      <4> QED
        BY <4>2, <3>1
    <3> QED
      BY <3>2, <1>2, <2>2 DEF Vacate
  <2>3. CASE k # q
    <3>1. Occupied(k)' = Occupied(k)
      BY <1>2, <2>3 DEF Vacate, Occupied, WindowOK
    <3> QED
      BY <3>1, <1>2, <2>3 DEF Vacate
  <2> QED
    BY <2>2, <2>3
<1>3. ASSUME NEW q \in Requests, NEW b \in BOOLEAN, RetireGeneration(q, b)
      PROVE  live_slots'[k] = Cardinality(Occupied(k)')
  <2>1. CASE k = q
    <3>1. Occupied(k)' = {}
      BY <1>3, <2>1 DEF RetireGeneration, Occupied, Empty, WindowOK
    <3> QED
      BY <3>1, <1>3, <2>1, FS_EmptySet DEF RetireGeneration
  <2>2. CASE k # q
    <3>1. Occupied(k)' = Occupied(k)
      BY <1>3, <2>2 DEF RetireGeneration, Occupied, WindowOK
    <3> QED
      BY <3>1, <1>3, <2>2 DEF RetireGeneration
  <2> QED
    BY <2>1, <2>2
<1>4. ASSUME NEW q \in Requests, Advance(q)
      PROVE  live_slots'[k] = Cardinality(Occupied(k)')
  BY <1>4 DEF Advance, Occupied
<1>5. ASSUME NEW r \in Runners, TryClaim(r)
      PROVE  live_slots'[k] = Cardinality(Occupied(k)')
  <2> DEFINE q == runner[r].req
  <2>1. q \in Requests
    BY <1>5 DEF RunnerOK, TryClaim
  <2>2. CASE UNCHANGED <<slots, live_slots>>
    BY <2>2 DEF Occupied
  <2>3. ASSUME NEW i \in Vacancies(q), Claim(r, i)
        PROVE  live_slots'[k] = Cardinality(Occupied(k)')
    <3> DEFINE p == i % Width
    <3>1. p \in Positions /\ slots[q][p] = Empty
      BY <2>1, VacanciesType, ModPosition, VacantIsEmpty
    <3>2. CASE k = q
      <4>1. Occupied(k)' = Occupied(k) \cup {p} /\ p \notin Occupied(k)
        BY <2>3, <3>1, <3>2 DEF Claim, Occupied, Empty, RunningSlot, WindowOK
      <4>2. Cardinality(Occupied(k)') = Cardinality(Occupied(k)) + 1
        BY <4>1, <1>0, FS_AddElement
      <4> QED
        BY <4>2, <2>3, <3>2 DEF Claim
    <3>3. CASE k # q
      <4>1. Occupied(k)' = Occupied(k)
        BY <2>3, <3>3 DEF Claim, Occupied, WindowOK
      <4> QED
        BY <4>1, <2>3, <3>3 DEF Claim
    <3> QED
      BY <3>2, <3>3
  <2> QED
    BY <1>5, <2>2, <2>3 DEF TryClaim
<1>6. ASSUME NEW r \in Runners, Publish(r)
      PROVE  live_slots'[k] = Cardinality(Occupied(k)')
  <2>1. runner[r].req \in Requests /\ runner[r].index % Width \in Positions
    BY <1>6, ModPosition DEF RunnerOK, Publish
  <2>2. \A p \in Positions : slots'[k][p].kind = "empty" <=> slots[k][p].kind = "empty"
    BY <1>6, <2>1 DEF Publish, OwnsSlot, RunningSlot, ReadySlot, WindowOK
  <2>3. Occupied(k)' = Occupied(k)
    BY <2>2 DEF Occupied
  <2> QED
    BY <1>6, <2>3 DEF Publish
<1>7. ASSUME NEW r \in Runners, LeaseDrop(r)
      PROVE  live_slots'[k] = Cardinality(Occupied(k)')
  <2>1. runner[r].req \in Requests /\ runner[r].index \in Nat
    BY <1>7 DEF RunnerOK, LeaseDrop
  <2>2. CASE UNCHANGED <<slots, live_slots>>
    BY <2>2 DEF Occupied
  <2>3. CASE LeaseMatches(r)
    BY <1>7, <2>1, <2>3, <1>2 DEF LeaseDrop, LeaseMatches, OwnsSlot, RunningSlot
  <2> QED
    BY <1>7, <2>2, <2>3 DEF LeaseDrop
<1>8. ASSUME NEW q \in Requests, TakeReady(q)
      PROVE  live_slots'[k] = Cardinality(Occupied(k)')
  BY <1>8, <1>2 DEF TakeReady, WindowOK
<1> QED
  BY <1>1, <1>3, <1>4, <1>5, <1>6, <1>7, <1>8, WindowSteps DEF ConsumeRetire, RetireOnExit

----------------------------------------------------------------------------
(* Credits *)

CreditsOwned == burst \in Nat /\ CreditConservation

(* What a step that moves at most one owner of each kind does to the sets. *)
LEMMA SamePermits ==
    ASSUME NEW r \in Runners, \A x \in Runners \ {r} : runner'[x] = runner[x],
           runner'[r].pc \in PermitPC <=> runner[r].pc \in PermitPC
    PROVE  PermitRunners' = PermitRunners
BY DEF PermitRunners, HoldsPermit

LEMMA LosePermit ==
    ASSUME NEW r \in Runners, \A x \in Runners \ {r} : runner'[x] = runner[x],
           runner'[r].pc \notin PermitPC, runner[r].pc \in PermitPC
    PROVE  /\ r \in PermitRunners
           /\ PermitRunners' = PermitRunners \ {r}
BY DEF PermitRunners, HoldsPermit

LEMMA SameUnwrapping ==
    ASSUME NEW q \in Requests, \A x \in Requests \ {q} : pc'[x] = pc[x],
           pc'[q] # "ready", pc[q] # "ready"
    PROVE  Unwrapping' = Unwrapping
BY DEF Unwrapping

(* Every other position of the window keeps its slot.                      *)
OthersKeep(q, p) ==
    \A k \in Requests, x \in Positions : k # q \/ x # p => slots'[k][x] = slots[k][x]

LEMMA OtherReady ==
    ASSUME NEW q \in Requests, NEW p \in Positions, OthersKeep(q, p),
           NEW s \in Requests \X Positions, s # <<q, p>>
    PROVE  s \in ReadySlots' <=> s \in ReadySlots
<1>1. PICK k \in Requests, x \in Positions : s = <<k, x>>
  OBVIOUS
<1>2. slots'[k][x] = slots[k][x]
  BY <1>1 DEF OthersKeep
<1>3. s[1] = k /\ s[2] = x
  BY <1>1
<1> QED
  BY <1>2, <1>3 DEF ReadySlots

LEMMA ThisReady ==
    ASSUME NEW q \in Requests, NEW p \in Positions
    PROVE  /\ <<q, p>> \in ReadySlots <=> slots[q][p].kind = "ready"
           /\ <<q, p>> \in ReadySlots' <=> slots'[q][p].kind = "ready"
BY DEF ReadySlots

LEMMA ReadyPairs == ReadySlots \subseteq Requests \X Positions /\ ReadySlots' \subseteq Requests \X Positions
BY DEF ReadySlots

LEMMA SameReady ==
    ASSUME NEW q \in Requests, NEW p \in Positions, OthersKeep(q, p),
           slots'[q][p].kind # "ready", slots[q][p].kind # "ready"
    PROVE  ReadySlots' = ReadySlots
<1>1. \A s \in Requests \X Positions : s \in ReadySlots' <=> s \in ReadySlots
  BY ZenonT(40), OtherReady, ThisReady
<1>2. \A s : s \in ReadySlots' <=> s \in ReadySlots
  BY <1>1, ReadyPairs
<1> QED
  BY <1>2

LEMMA LoseReady ==
    ASSUME NEW q \in Requests, NEW p \in Positions, OthersKeep(q, p),
           slots'[q][p].kind # "ready", slots[q][p].kind = "ready"
    PROVE  <<q, p>> \in ReadySlots /\ ReadySlots' = ReadySlots \ {<<q, p>>}
BY OtherReady, ThisReady, ReadyPairs, Zenon

LEMMA GainReady ==
    ASSUME NEW q \in Requests, NEW p \in Positions, OthersKeep(q, p),
           slots'[q][p].kind = "ready", slots[q][p].kind # "ready"
    PROVE  <<q, p>> \notin ReadySlots /\ ReadySlots' = ReadySlots \cup {<<q, p>>}
BY OtherReady, ThisReady, ReadyPairs, Zenon

LEMMA OwnersFinite ==
    /\ IsFiniteSet(PermitRunners) /\ Cardinality(PermitRunners) \in Nat
    /\ IsFiniteSet(Unwrapping) /\ Cardinality(Unwrapping) \in Nat
    /\ IsFiniteSet(ReadySlots) /\ Cardinality(ReadySlots) \in Nat
BY RunnersOK, RequestsOK, ReadySlotsFinite, FS_Subset, FS_CardinalityType
   DEF PermitRunners, Unwrapping

LEMMA CreditsStep ==
    ASSUME WindowOK, RunnerOK, CoordinatorOK, SlotsInWindow, CreditsOwned, [Next]_vars
    PROVE  CreditsOwned'
<1> USE DEF CreditsOwned
<1>0. CASE UNCHANGED <<burst, PermitRunners, Unwrapping, ReadySlots>>
  BY <1>0 DEF CreditConservation
<1>1. CASE UNCHANGED vars
  BY <1>0, <1>1 DEF vars, execVars, winVars, coordVars, PermitRunners, HoldsPermit, Unwrapping, ReadySlots
<1>2. ASSUME NEW q \in Requests, Cancel(q) PROVE CreditsOwned'
  BY <1>0, <1>2 DEF Cancel, execVars, winVars, coordVars, PermitRunners, HoldsPermit, Unwrapping, ReadySlots
<1>3. ASSUME NEW q \in Requests,
             \/ LoopTest(q) \/ FillSnapshot(q) \/ TicketsTaken(q) \/ SpawnEnd(q)
             \/ FrontierCheck(q) \/ WaitFrontier(q) \/ GoInline(q) \/ InlineWork(q)
             \/ ReduceCheck(q) \/ Consume(q) \/ ConsumeExact(q) \/ Advance(q)
      PROVE  CreditsOwned'
  <2>1. UNCHANGED <<burst, slots, runner>>
    BY <1>3 DEF LoopTest, FillSnapshot, TicketsTaken, SpawnEnd, FrontierCheck, WaitFrontier,
       GoInline, InlineWork, ReduceCheck, Consume, ConsumeExact, Advance, execVars, winVars
  <2>2. /\ \A x \in Requests \ {q} : pc'[x] = pc[x]
        /\ pc'[q] # "ready" /\ pc[q] # "ready"
    BY <1>3 DEF LoopTest, FillSnapshot, TicketsTaken, SpawnEnd, FrontierCheck, WaitFrontier,
       GoInline, InlineWork, ReduceCheck, Consume, ConsumeExact, Advance, Goto, Return, CoordinatorOK
  <2> QED
    BY <1>0, <2>1, <2>2, SameUnwrapping DEF PermitRunners, HoldsPermit, ReadySlots
<1>4. ASSUME NEW q \in Requests, NEW r \in Runners,
             TryTicket(q, r) \/ Spawn(q, r) \/ DropTicket(q, r)
      PROVE  CreditsOwned'
  <2>1. UNCHANGED <<burst, slots>>
    BY <1>4 DEF TryTicket, Spawn, DropTicket, winVars
  <2>2. /\ \A x \in Requests \ {q} : pc'[x] = pc[x]
        /\ pc'[q] # "ready" /\ pc[q] # "ready"
    BY <1>4 DEF TryTicket, Spawn, DropTicket, Goto, CoordinatorOK, coordVars
  <2>3. /\ \A x \in Runners \ {r} : runner'[x] = runner[x]
        /\ runner'[r].pc \notin PermitPC /\ runner[r].pc \notin PermitPC
    BY <1>4 DEF TryTicket, Spawn, DropTicket, TicketsOf, RunnerGoto, ReturnTicket, IdleRunner,
       RunnerOK, PermitPC
  <2> QED
    BY <1>0, <2>1, <2>2, <2>3, SameUnwrapping, SamePermits DEF ReadySlots
<1>5. ASSUME NEW q \in Requests, TakeReady(q) PROVE CreditsOwned'
  <2> DEFINE p == next_reduce[q] % Width
  <2>1. p \in Positions /\ slots[q][p].kind = "ready" /\ UNCHANGED <<burst, PermitRunners>>
    BY <1>5, ModPosition DEF TakeReady, WindowOK, execVars, PermitRunners, HoldsPermit
  <2>2. <<q, p>> \in ReadySlots /\ ReadySlots' = ReadySlots \ {<<q, p>>}
    <3>1. slots'[q][p].kind # "ready"
      BY <1>5, <2>1 DEF TakeReady, Vacate, Empty, WindowOK
    <3>2. OthersKeep(q, p)
      BY <1>5 DEF TakeReady, Vacate, WindowOK, OthersKeep
    <3> QED
      BY <2>1, <3>1, <3>2, LoseReady
  <2>3. q \notin Unwrapping /\ Unwrapping' = Unwrapping \cup {q}
    BY <1>5 DEF TakeReady, Goto, Unwrapping, CoordinatorOK
  <2>4. /\ Cardinality(ReadySlots') = Cardinality(ReadySlots) - 1
        /\ Cardinality(Unwrapping') = Cardinality(Unwrapping) + 1
    <3>1. Cardinality(ReadySlots') = Cardinality(ReadySlots) - 1
      BY ZenonT(40), <2>2, OwnersFinite, FS_RemoveElement
    <3>2. Cardinality(Unwrapping') = Cardinality(Unwrapping) + 1
      BY <2>3, OwnersFinite, FS_AddElement
    <3> QED
      BY <3>1, <3>2
  <2> QED
    BY <2>1, <2>4, OwnersFinite, WidthType DEF CreditConservation
<1>6. ASSUME NEW q \in Requests, IntoValue(q) PROVE CreditsOwned'
  <2>1. q \in Unwrapping /\ Unwrapping' = Unwrapping \ {q}
    BY <1>6 DEF IntoValue, Goto, Unwrapping, CoordinatorOK
  <2>2. Cardinality(Unwrapping') = Cardinality(Unwrapping) - 1
    BY <2>1, OwnersFinite, FS_RemoveElement
  <2>3. burst' = burst + 1 /\ UNCHANGED <<PermitRunners, ReadySlots>>
    BY <1>6 DEF IntoValue, winVars, PermitRunners, HoldsPermit, ReadySlots
  <2> QED
    BY <2>2, <2>3, OwnersFinite, WidthType DEF CreditConservation
<1>7. ASSUME NEW q \in Requests, ConsumeRetire(q) \/ RetireOnExit(q) PROVE CreditsOwned'
  <2>1. ReadySlotsOf(q) \subseteq ReadySlots /\ ReadySlots' = ReadySlots \ ReadySlotsOf(q)
    <3>1. slots' = [slots EXCEPT ![q] = [p \in Positions |-> Empty]]
      BY <1>7 DEF ConsumeRetire, RetireOnExit, RetireGeneration
    <3>2. \A x \in Positions : slots'[q][x].kind # "ready"
      BY <3>1 DEF WindowOK, Empty
    <3>3. \A k \in Requests \ {q} : slots'[k] = slots[k]
      BY <3>1 DEF WindowOK
    <3> QED
      BY <3>2, <3>3, Zenon DEF ReadySlots, ReadySlotsOf
  <2>2. /\ Cardinality(ReadySlots') = Cardinality(ReadySlots) - Cardinality(ReadySlotsOf(q))
        /\ Cardinality(ReadySlotsOf(q)) \in Nat
    <3>1. ReadySlots \cap ReadySlotsOf(q) = ReadySlotsOf(q)
      BY <2>1
    <3> QED
      BY ZenonT(40), <2>1, <3>1, OwnersFinite, FS_Difference, FS_Subset, FS_CardinalityType
  <2>3. UNCHANGED <<PermitRunners, Unwrapping>>
    <3>1. /\ \A x \in Requests \ {q} : pc'[x] = pc[x]
          /\ pc'[q] # "ready" /\ pc[q] # "ready"
      BY <1>7 DEF ConsumeRetire, RetireOnExit, Goto, Return, CoordinatorOK
    <3> QED
      BY <1>7, <3>1, SameUnwrapping DEF ConsumeRetire, RetireOnExit, PermitRunners, HoldsPermit
  <2>4. burst' = burst + Cardinality(ReadySlotsOf(q))
    BY <1>7 DEF ConsumeRetire, RetireOnExit, RetireGeneration
  <2> QED
    BY <2>2, <2>3, <2>4, OwnersFinite, WidthType DEF CreditConservation
<1>8. ASSUME NEW r \in Runners, RunnerStep(r) PROVE CreditsOwned'
  <2>1. UNCHANGED Unwrapping
    BY <1>8 DEF RunnerStep, coordVars, Unwrapping, StartCheck, TryBurst, AdmittedCheck, TryClaim,
       Work, Publish, LeaseDrop, PermitDrop, DisableAfterPanic, LeafExit
  <2>2. \A x \in Runners \ {r} : runner'[x] = runner[x]
    BY <1>8 DEF RunnerStep, RunnerGoto, RunnerOK, StartCheck, TryBurst, AdmittedCheck, TryClaim,
       Claim, Work, Publish, LeaseDrop, PermitDrop, DisableAfterPanic, LeafExit, ReturnTicket
  <2>3. CASE \/ StartCheck(r) \/ AdmittedCheck(r) \/ Work(r)
             \/ DisableAfterPanic(r) \/ LeafExit(r)
    <3>1. runner'[r].pc \in PermitPC <=> runner[r].pc \in PermitPC
      BY <2>3 DEF StartCheck, AdmittedCheck, Work, DisableAfterPanic, LeafExit, RunnerGoto,
         ReturnTicket, IdleRunner, RunnerOK, PermitPC
    <3>2. UNCHANGED <<burst, ReadySlots>>
      BY <2>3 DEF StartCheck, AdmittedCheck, Work, DisableAfterPanic, LeafExit, execVars,
         winVars, ReadySlots
    <3> QED
      BY <1>0, <2>1, <2>2, <3>1, <3>2, SamePermits
  <2>4. CASE TryBurst(r)
    <3>1. UNCHANGED ReadySlots
      BY <2>4 DEF TryBurst, winVars, ReadySlots
    <3>2. CASE UNCHANGED burst
      <4>1. runner'[r].pc \in PermitPC <=> runner[r].pc \in PermitPC
        BY <2>4, <3>2 DEF TryBurst, RunnerGoto, RunnerOK, PermitPC
      <4> QED
        BY <1>0, <2>1, <2>2, <3>1, <3>2, <4>1, SamePermits
    <3>3. CASE burst' # burst
      <4>1. /\ burst' = burst - 1 /\ burst > 0
            /\ runner'[r].pc = "admitted" /\ runner[r].pc = "burst"
        BY <2>4, <3>3 DEF TryBurst, RunnerGoto, RunnerOK
      <4>2. r \notin PermitRunners /\ PermitRunners' = PermitRunners \cup {r}
        BY <2>2, <4>1 DEF PermitRunners, HoldsPermit, PermitPC
      <4>3. Cardinality(PermitRunners') = Cardinality(PermitRunners) + 1
        BY <4>2, OwnersFinite, FS_AddElement
      <4> QED
        BY <2>1, <3>1, <4>1, <4>3, OwnersFinite, WidthType DEF CreditConservation
    <3> QED
      BY <3>2, <3>3
  <2>5. CASE TryClaim(r)
    <3>1. UNCHANGED burst
      BY <2>5 DEF TryClaim, execVars
    <3>2. runner'[r].pc \in PermitPC /\ runner[r].pc \in PermitPC
      BY <2>5 DEF TryClaim, Claim, RunnerGoto, RunnerOK, PermitPC
    <3>3. UNCHANGED ReadySlots
      <4>1. CASE UNCHANGED slots
        BY <4>1 DEF ReadySlots
      <4>2. ASSUME NEW i \in Vacancies(runner[r].req), Claim(r, i) PROVE UNCHANGED ReadySlots
        <5> DEFINE q == runner[r].req
                   p == i % Width
        <5>1. q \in Requests
          BY <2>5 DEF RunnerOK, TryClaim
        <5>2. p \in Positions /\ slots[q][p] = Empty
          BY <5>1, VacanciesType, ModPosition, VacantIsEmpty
        <5>3. /\ OthersKeep(q, p)
              /\ slots'[q][p].kind = "running"
          BY <4>2, <5>1, <5>2 DEF Claim, RunningSlot, WindowOK, OthersKeep
        <5>4. slots'[q][p].kind # "ready" /\ slots[q][p].kind # "ready"
          BY <5>2, <5>3 DEF Empty
        <5> QED
          BY <5>1, <5>2, <5>3, <5>4, SameReady
      <4> QED
        BY <2>5, <4>1, <4>2 DEF TryClaim
    <3> QED
      BY <1>0, <2>1, <2>2, <3>1, <3>2, <3>3, SamePermits
  <2>6. CASE Publish(r)
    <3> DEFINE q == runner[r].req
               p == runner[r].index % Width
    <3>1. r \in PermitRunners /\ PermitRunners' = PermitRunners \ {r}
      <4>1. runner'[r].pc \notin PermitPC /\ runner[r].pc \in PermitPC
        BY <2>6 DEF Publish, RunnerGoto, RunnerOK, PermitPC
      <4> QED
        BY <2>2, <4>1, LosePermit
    <3>2. Cardinality(PermitRunners') = Cardinality(PermitRunners) - 1
      BY <3>1, OwnersFinite, FS_RemoveElement
    <3>3. CASE WindowOpen(r) /\ OwnsSlot(r)
      <4>1. q \in Requests /\ p \in Positions
        BY <2>6, ModPosition DEF Publish, RunnerOK
      <4>2. /\ OthersKeep(q, p)
            /\ slots'[q][p].kind = "ready"
            /\ burst' = burst
        BY <2>6, <3>3, <4>1 DEF Publish, ReadySlot, WindowOK, OthersKeep
      <4>3. slots[q][p].kind # "ready"
        BY <3>3 DEF OwnsSlot, RunningSlot
      <4>4. <<q, p>> \notin ReadySlots /\ ReadySlots' = ReadySlots \cup {<<q, p>>}
        BY <4>1, <4>2, <4>3, GainReady
      <4>5. Cardinality(ReadySlots') = Cardinality(ReadySlots) + 1
        BY <4>4, OwnersFinite, FS_AddElement
      <4> QED
        BY <2>1, <3>2, <4>2, <4>5, OwnersFinite, WidthType DEF CreditConservation
    <3>4. CASE ~(WindowOpen(r) /\ OwnsSlot(r))
      <4>1. burst' = burst + 1 /\ UNCHANGED slots
        BY <2>6, <3>4 DEF Publish
      <4>2. UNCHANGED ReadySlots
        BY <4>1 DEF ReadySlots
      <4> QED
        BY <2>1, <3>2, <4>1, <4>2, OwnersFinite, WidthType DEF CreditConservation
    <3> QED
      BY <3>3, <3>4
  <2>7. CASE LeaseDrop(r)
    <3>1. UNCHANGED burst
      BY <2>7 DEF LeaseDrop, execVars
    <3>2. runner'[r].pc \in PermitPC <=> runner[r].pc \in PermitPC
      BY <2>7 DEF LeaseDrop, AfterLease, RunnerGoto, RunnerOK, PermitPC
    <3>3. UNCHANGED ReadySlots
      <4> DEFINE q == runner[r].req
                 p == runner[r].index % Width
      <4>1. q \in Requests /\ p \in Positions
        BY <2>7, ModPosition DEF LeaseDrop, RunnerOK
      <4>2. CASE UNCHANGED slots
        BY <4>2 DEF ReadySlots
      <4>3. CASE LeaseMatches(r) /\ Vacate(q, p)
        <5>1. slots'[q][p].kind # "ready" /\ slots[q][p].kind # "ready"
          BY <4>1, <4>3 DEF LeaseMatches, OwnsSlot, RunningSlot, Vacate, Empty, WindowOK
        <5>2. OthersKeep(q, p)
          BY <4>3 DEF Vacate, WindowOK, OthersKeep
        <5> QED
          BY <4>1, <5>1, <5>2, SameReady
      <4> QED
        BY <2>7, <4>2, <4>3 DEF LeaseDrop
    <3> QED
      BY <1>0, <2>1, <2>2, <3>1, <3>2, <3>3, SamePermits
  <2>8. CASE PermitDrop(r)
    <3>1. r \in PermitRunners /\ PermitRunners' = PermitRunners \ {r}
      <4>1. runner'[r].pc \notin PermitPC /\ runner[r].pc \in PermitPC
        BY <2>8 DEF PermitDrop, RunnerGoto, RunnerOK, PermitPC
      <4> QED
        BY <2>2, <4>1, LosePermit
    <3>2. Cardinality(PermitRunners') = Cardinality(PermitRunners) - 1
      BY <3>1, OwnersFinite, FS_RemoveElement
    <3>3. burst' = burst + 1 /\ UNCHANGED ReadySlots
      BY <2>8 DEF PermitDrop, winVars, ReadySlots
    <3> QED
      BY <2>1, <3>2, <3>3, OwnersFinite, WidthType DEF CreditConservation
  <2> QED
    BY <1>8, <2>3, <2>4, <2>5, <2>6, <2>7, <2>8 DEF RunnerStep
<1> QED
  BY <1>1, <1>2, <1>3, <1>4, <1>5, <1>6, <1>7, <1>8 DEF Next, Coordinator

----------------------------------------------------------------------------
(* The inductive invariant *)

(* The shapes alone, without the ranges of the three counters: those       *)
(* follow from what the counters count.                                    *)
ShapeOK ==
    /\ ExecutorOK /\ WindowOK /\ CoordinatorOK /\ RunnerOK
    /\ cancelled \in [Requests -> BOOLEAN]
    /\ live_slots \in [Requests -> Int]

IInv ==
    /\ ShapeOK
    /\ SlotsInWindow
    /\ TicketsOwned
    /\ CreditsOwned
    /\ \A q \in Requests : live_slots[q] = Cardinality(Occupied(q))

LEMMA InitShape == Init => ShapeOK
<1> SUFFICES ASSUME Init PROVE ShapeOK
  OBVIOUS
<1> USE DEF Init
<1>1. 0 \in Generations /\ E \in Nat
  BY WidthType DEF Generations
<1>2. ExecutorOK
  BY DEF ExecutorOK
<1>3. WindowOK
  BY <1>1 DEF WindowOK, Slots
<1>4. CoordinatorOK
  <2>1. plan \in [Requests -> [gen : Generations, wanted : 0 .. E]]
    BY <1>1
  <2>2. value \in [Requests -> [index : Nat, gen : Generations]]
    BY <1>1 DEF Value
  <2>3. delivered \in [Requests -> Seq([index : Nat, gen : Generations])]
    OBVIOUS
  <2> QED
    BY <2>1, <2>2, <2>3 DEF CoordinatorOK, CoordPC
<1>5. RunnerOK
  BY <1>1 DEF RunnerOK, IdleRunner, RunnerPC
<1>6. cancelled \in [Requests -> BOOLEAN] /\ live_slots \in [Requests -> Int]
  OBVIOUS
<1> QED
  BY <1>2, <1>3, <1>4, <1>5, <1>6 DEF ShapeOK

LEMMA InitInv == Init => IInv
<1> SUFFICES ASSUME Init PROVE IInv
  OBVIOUS
<1>1. ShapeOK
  BY InitShape
<1>2. SlotsInWindow
  BY DEF Init, SlotsInWindow, Empty
<1>3. TicketsOwned
  <2>1. Busy = {}
    BY DEF Init, Busy, IdleRunner
  <2> QED
    BY <2>1, FS_EmptySet, WidthType DEF Init, TicketsOwned, TicketConservation
<1>4. CreditsOwned
  <2>1. PermitRunners = {}
    BY DEF Init, PermitRunners, HoldsPermit, IdleRunner, PermitPC
  <2>2. Unwrapping = {}
    BY DEF Init, Unwrapping
  <2>3. ReadySlots = {}
    <3>1. \A s \in Requests \X Positions : slots[s[1]][s[2]] = Empty
      BY DEF Init
    <3> QED
      BY <3>1 DEF ReadySlots, Empty
  <2> QED
    BY <2>1, <2>2, <2>3, FS_EmptySet, WidthType DEF Init, CreditsOwned, CreditConservation
<1>5. ASSUME NEW q \in Requests PROVE live_slots[q] = Cardinality(Occupied(q))
  <2>1. Occupied(q) = {}
    BY DEF Init, Occupied, Empty
  <2> QED
    BY <2>1, FS_EmptySet DEF Init
<1> QED
  BY <1>1, <1>2, <1>3, <1>4, <1>5 DEF IInv

LEMMA NextInv == IInv /\ [Next]_vars => IInv'
<1> SUFFICES ASSUME IInv, [Next]_vars PROVE IInv'
  OBVIOUS
<1>1. ShapeOK /\ WindowOK /\ RunnerOK /\ CoordinatorOK /\ ExecutorOK
  BY DEF IInv, ShapeOK
<1>2. cancelled' \in [Requests -> BOOLEAN]
  <2>1. UNCHANGED cancelled \/ \E q \in Requests : Cancel(q)
    BY ZenonT(40) DEF Next, Coordinator, RunnerStep, vars,
       LoopTest, FillSnapshot, TicketsTaken, SpawnEnd, TryTicket, Spawn, DropTicket,
       FrontierCheck, TakeReady, WaitFrontier, GoInline, IntoValue, InlineWork, ReduceCheck,
       Consume, ConsumeRetire, ConsumeExact, Advance, RetireOnExit,
       StartCheck, TryBurst, AdmittedCheck, TryClaim, Work, Publish, LeaseDrop, PermitDrop,
       DisableAfterPanic, LeafExit
  <2> QED
    BY <1>1, <2>1 DEF ShapeOK, Cancel
<1>3. ShapeOK'
  BY <1>1, <1>2, ExecutorStep, WindowStep, RunnerTypeStep, CoordinatorStep, LiveSlotsType DEF ShapeOK
<1>4. SlotsInWindow'
  BY <1>1, SlotsInWindowStep DEF IInv
<1>5. TicketsOwned'
  BY <1>1, TicketsStep DEF IInv
<1>6. CreditsOwned'
  BY <1>1, CreditsStep DEF IInv
<1>7. \A q \in Requests : live_slots'[q] = Cardinality(Occupied(q)')
  BY <1>1, LiveSlotsStep DEF IInv, ShapeOK
<1> QED
  BY <1>3, <1>4, <1>5, <1>6, <1>7 DEF IInv

LEMMA Invariance == Spec => []IInv
BY InitInv, NextInv, PTL DEF Spec

----------------------------------------------------------------------------
(* The theorems *)

(* Every variable keeps its shape, and the counters of src/file_executor.rs *)
(* and src/ordered_window.rs stay within their lanes: none underflows.     *)
THEOREM Typing == Spec => []TypeOK
<1>1. IInv => TypeOK
  <2> SUFFICES ASSUME IInv PROVE TypeOK
    OBVIOUS
  <2>1. burst \in 0 .. E
    BY OwnersFinite, WidthType DEF IInv, CreditsOwned, CreditConservation
  <2>2. leaf_tasks \in 0 .. E
    <3>1. Cardinality(Busy) \in Nat
      BY RunnersOK, FS_Subset, FS_CardinalityType DEF Busy
    <3> QED
      BY <3>1, WidthType DEF IInv, TicketsOwned, TicketConservation
  <2>3. ASSUME NEW q \in Requests PROVE live_slots[q] \in 0 .. Width
    <3>1. IsFiniteSet(Positions) /\ Cardinality(Positions) = Width
      BY WidthType, FS_Interval DEF Positions
    <3>2. Cardinality(Occupied(q)) \in Nat /\ Cardinality(Occupied(q)) <= Cardinality(Positions)
      BY <3>1, FS_Subset, FS_CardinalityType DEF Occupied
    <3> QED
      BY <3>1, <3>2, WidthType DEF IInv
  <2>4. live_slots \in [Requests -> 0 .. Width]
    BY <2>3 DEF IInv, ShapeOK
  <2> QED
    BY <2>1, <2>2, <2>4 DEF IInv, ShapeOK, TypeOK
<1> QED
  BY <1>1, Invariance, PTL

(* No order of claims, publications, retirements, cancellations, panics    *)
(* and drops loses or duplicates a CPU credit of the shared executor.      *)
THEOREM CreditsConserved == Spec => []CreditConservation
<1>1. IInv => CreditConservation
  BY DEF IInv, CreditsOwned
<1> QED
  BY <1>1, Invariance, PTL

(* Nor a runner ticket.                                                    *)
THEOREM TicketsConserved == Spec => []TicketConservation
<1>1. IInv => TicketConservation
  BY DEF IInv, TicketsOwned
<1> QED
  BY <1>1, Invariance, PTL

(* The window never holds a candidate of a retired generation, one outside *)
(* its range, or the frontier while the coordinator has it.                *)
THEOREM WindowBounded == Spec => []SlotsInWindow
<1>1. IInv => SlotsInWindow
  BY DEF IInv
<1> QED
  BY <1>1, Invariance, PTL

(* However many requests run, their searches use at most R + P - 1 lanes.  *)
THEOREM LanesBounded == Spec => []LaneBound
<1>1. IInv => LaneBound
  <2> SUFFICES ASSUME IInv PROVE LaneBound
    OBVIOUS
  <2> DEFINE searching == {r \in Runners : runner[r].pc = "claimed"}
  <2>1. searching \subseteq PermitRunners
    BY DEF PermitRunners, HoldsPermit, PermitPC
  <2>2. /\ Cardinality(searching) <= Cardinality(PermitRunners)
        /\ Cardinality(searching) \in Nat
    BY <2>1, OwnersFinite, FS_Subset, FS_CardinalityType
  <2>3. Cardinality(PermitRunners) <= E
    BY OwnersFinite, WidthType DEF IInv, CreditsOwned, CreditConservation
  <2>4. /\ Cardinality(Lanes) <= Cardinality(Requests)
        /\ Cardinality(Lanes) \in Nat /\ Cardinality(Requests) \in Nat
    BY RequestsOK, FS_Subset, FS_CardinalityType DEF Lanes
  <2>5. E = P - 1 /\ P \in Nat
    BY DEF E
  <2> HIDE DEF searching
  <2>6. Cardinality(searching) + Cardinality(Lanes) <= Cardinality(Requests) + P - 1
    BY <2>2, <2>3, <2>4, <2>5, OwnersFinite, WidthType
  <2> QED
    BY <2>6 DEF LaneBound, searching
<1> QED
  BY <1>1, Invariance, PTL

(* Together: what concurrent requests share stays whole.                   *)
THEOREM LanesShared == Spec => []LanesAreShared
BY CreditsConserved, TicketsConserved, LanesBounded, PTL DEF LanesAreShared
----------------------------------------------------------------------------
(* Slots and the leaves that search for them *)

(* A leaf and a plan are never of a generation that is still to come; a    *)
(* window that accepts nothing is empty; and one that is done does not.    *)
GenBehind ==
    /\ \A q \in Requests : plan[q].gen <= generation[q]
    /\ \A r \in Runners : runner[r].pc # "idle" => runner[r].gen <= generation[runner[r].req]
ClosedIsEmpty ==
    \A q \in Requests : ~accepting[q] => \A p \in Positions : slots[q][p].kind = "empty"
DoneIsClosed == \A q \in Requests : pc[q] = "done" => ~accepting[q]

OwnersInv == GenBehind /\ ClosedIsEmpty /\ DoneIsClosed /\ SlotHasItsRunner /\ LeaseHasItsSlot

LEMMA SlotChange ==
    ASSUME WindowOK, RunnerOK, [Next]_vars, NEW k \in Requests, NEW p \in Positions,
           slots'[k][p] # slots[k][p]
    PROVE  \/ slots[k][p].kind = "ready" /\ slots'[k][p] = Empty
           \/ \E b \in BOOLEAN : RetireGeneration(k, b) /\ slots'[k][p] = Empty
           \/ \E r \in Runners : \E i \in Vacancies(k) :
                 /\ TryClaim(r) /\ WindowOpen(r) /\ Claim(r, i)
                 /\ runner[r].req = k /\ p = i % Width
                 /\ slots'[k][p] = RunningSlot(i, runner[r].gen, r)
           \/ \E r \in Runners :
                 /\ runner[r].req = k /\ p = runner[r].index % Width /\ OwnsSlot(r)
                 /\ \/ Publish(r) /\ slots'[k][p] = ReadySlot(runner[r].index, runner[r].gen)
                    \/ LeaseDrop(r) /\ slots'[k][p] = Empty
<1> USE DEF WindowOK
<1>1. CASE UNCHANGED winVars
  BY <1>1 DEF winVars
<1>2. ASSUME NEW q \in Requests, TakeReady(q)
      PROVE  slots[k][p].kind = "ready" /\ slots'[k][p] = Empty
  BY <1>2, ModPosition DEF TakeReady, Vacate
<1>3. ASSUME NEW q \in Requests, NEW b \in BOOLEAN, RetireGeneration(q, b)
      PROVE  RetireGeneration(k, b) /\ slots'[k][p] = Empty
  BY <1>3 DEF RetireGeneration
<1>4. ASSUME NEW q \in Requests, Advance(q) PROVE FALSE
  BY <1>4 DEF Advance
<1>5. ASSUME NEW r \in Runners, TryClaim(r)
      PROVE  \E i \in Vacancies(k) :
                 /\ TryClaim(r) /\ WindowOpen(r) /\ Claim(r, i)
                 /\ runner[r].req = k /\ p = i % Width
                 /\ slots'[k][p] = RunningSlot(i, runner[r].gen, r)
  <2>1. PICK i \in Vacancies(runner[r].req) : WindowOpen(r) /\ Claim(r, i)
    BY <1>5 DEF TryClaim
  <2>2. runner[r].req \in Requests
    BY <1>5 DEF RunnerOK, TryClaim
  <2>3. i % Width \in Positions
    BY <2>2, VacanciesType, ModPosition
  <2>4. runner[r].req = k /\ p = i % Width
    BY <2>1, <2>2, <2>3 DEF Claim
  <2> QED
    BY <1>5, <2>1, <2>4 DEF Claim
<1>6. ASSUME NEW r \in Runners, Publish(r) \/ LeaseDrop(r)
      PROVE  /\ runner[r].req = k /\ p = runner[r].index % Width /\ OwnsSlot(r)
             /\ \/ Publish(r) /\ slots'[k][p] = ReadySlot(runner[r].index, runner[r].gen)
                \/ LeaseDrop(r) /\ slots'[k][p] = Empty
  <2>1. /\ runner[r].req \in Requests /\ runner[r].index \in Nat
        /\ runner[r].index % Width \in Positions
    BY <1>6, ModPosition DEF RunnerOK, Publish, LeaseDrop
  <2>2. CASE Publish(r)
    <3>1. /\ OwnsSlot(r)
          /\ slots' = [slots EXCEPT ![runner[r].req][runner[r].index % Width] =
                         ReadySlot(runner[r].index, runner[r].gen)]
      BY <2>2 DEF Publish
    <3>2. runner[r].req = k /\ p = runner[r].index % Width
      BY <2>1, <3>1
    <3>3. slots'[k][p] = ReadySlot(runner[r].index, runner[r].gen)
      BY <2>1, <3>1, <3>2
    <3> QED
      BY <2>2, <3>1, <3>2, <3>3
  <2>3. CASE LeaseDrop(r)
    BY <2>1, <2>3 DEF LeaseDrop, LeaseMatches, Vacate
  <2> QED
    BY <1>6, <2>2, <2>3
<1> QED
  BY <1>1, <1>2, <1>3, <1>4, <1>5, <1>6, WindowSteps DEF ConsumeRetire, RetireOnExit

LEMMA GenerationChange ==
    ASSUME WindowOK, [Next]_vars, NEW k \in Requests,
           generation'[k] # generation[k] \/ accepting'[k] # accepting[k]
    PROVE  \E b \in BOOLEAN : /\ RetireGeneration(k, b)
                              /\ \A p \in Positions : slots'[k][p] = Empty
                              /\ accepting'[k] => generation'[k] = generation[k] + 1
                              /\ generation'[k] >= generation[k]
                              /\ pc[k] = "consume" \/ ~accepting'[k]
<1> USE DEF WindowOK
<1>1. CASE UNCHANGED winVars
  BY <1>1 DEF winVars
<1>2. ASSUME NEW q \in Requests, TakeReady(q) \/ Advance(q) PROVE FALSE
  BY <1>2 DEF TakeReady, Advance
<1>3. ASSUME NEW q \in Requests, NEW b \in BOOLEAN, RetireGeneration(q, b)
      PROVE  /\ q = k
             /\ \A p \in Positions : slots'[k][p] = Empty
             /\ accepting'[k] => generation'[k] = generation[k] + 1 /\ b
             /\ generation'[k] >= generation[k]
  BY <1>3 DEF RetireGeneration, Generations
<1>4. ASSUME NEW r \in Runners, TryClaim(r) \/ Publish(r) \/ LeaseDrop(r) PROVE FALSE
  BY <1>4 DEF TryClaim, Publish, LeaseDrop
<1>5. ASSUME NEW q \in Requests, ConsumeRetire(q) \/ RetireOnExit(q)
      PROVE  \E b \in BOOLEAN : RetireGeneration(q, b) /\ (pc[q] = "consume" \/ ~b)
  BY <1>5 DEF ConsumeRetire, RetireOnExit
<1> QED
  BY <1>1, <1>2, <1>3, <1>4, <1>5, WindowSteps

LEMMA GenerationGrows ==
    ASSUME WindowOK, [Next]_vars, NEW k \in Requests
    PROVE  generation[k] \in Nat /\ generation'[k] >= generation[k]
<1>1. generation[k] \in Nat
  BY DEF WindowOK, Generations
<1>2. CASE generation'[k] = generation[k]
  BY <1>1, <1>2
<1>3. CASE generation'[k] # generation[k]
  BY <1>1, <1>3, GenerationChange
<1> QED
  BY <1>1, <1>2, <1>3

(* A lease moves by three steps of its own leaf alone.                     *)
LEMMA LeaseSteps ==
    ASSUME RunnerOK, [Next]_vars, NEW r \in Runners, runner'[r] # runner[r],
           runner[r].pc \in LeasePC
    PROVE  /\ Work(r) \/ Publish(r) \/ LeaseDrop(r)
           /\ runner'[r].req = runner[r].req /\ runner'[r].gen = runner[r].gen
           /\ runner'[r].index = runner[r].index
<1> USE DEF RunnerOK, LeasePC
<1>1. ASSUME NEW q \in Requests, NEW s \in Runners, TryTicket(q, s) \/ Spawn(q, s) \/ DropTicket(q, s)
      PROVE  FALSE
  BY <1>1 DEF TryTicket, Spawn, DropTicket, TicketsOf, RunnerGoto, ReturnTicket
<1>2. ASSUME NEW s \in Runners, s # r, RunnerStep(s) PROVE FALSE
  BY <1>2 DEF RunnerStep, StartCheck, TryBurst, AdmittedCheck, TryClaim, Claim, Work, Publish,
     LeaseDrop, PermitDrop, DisableAfterPanic, LeafExit, RunnerGoto, ReturnTicket
<1>3. CASE RunnerStep(r)
  BY <1>3 DEF RunnerStep, StartCheck, TryBurst, AdmittedCheck, TryClaim, Work, Publish,
     LeaseDrop, PermitDrop, DisableAfterPanic, LeafExit, RunnerGoto
<1> QED
  BY <1>1, <1>2, <1>3, RunnerSteps

(* And a leaf takes one only by claiming.                                  *)
LEMMA LeaseBegins ==
    ASSUME RunnerOK, [Next]_vars, NEW r \in Runners,
           runner[r].pc \notin LeasePC, runner'[r].pc \in LeasePC
    PROVE  TryClaim(r)
<1> USE DEF RunnerOK, LeasePC
<1>1. ASSUME NEW q \in Requests, NEW s \in Runners, TryTicket(q, s) \/ Spawn(q, s) \/ DropTicket(q, s)
      PROVE  FALSE
  BY <1>1 DEF TryTicket, Spawn, DropTicket, TicketsOf, RunnerGoto, ReturnTicket, IdleRunner
<1>2. ASSUME NEW s \in Runners, s # r, RunnerStep(s) PROVE FALSE
  BY <1>2 DEF RunnerStep, StartCheck, TryBurst, AdmittedCheck, TryClaim, Claim, Work, Publish,
     LeaseDrop, PermitDrop, DisableAfterPanic, LeafExit, RunnerGoto, ReturnTicket
<1>3. CASE RunnerStep(r)
  BY <1>3 DEF RunnerStep, StartCheck, TryBurst, AdmittedCheck, Work, Publish,
     LeaseDrop, PermitDrop, DisableAfterPanic, LeafExit, RunnerGoto, ReturnTicket, IdleRunner
<1> QED
  BY <1>1, <1>2, <1>3, RunnerSteps

LEMMA GenBehindStep ==
    ASSUME WindowOK, RunnerOK, CoordinatorOK, GenBehind, [Next]_vars
    PROVE  GenBehind'
<1> USE DEF CoordinatorOK, RunnerOK
<1>0. \A q \in Requests : generation[q] \in Nat /\ generation'[q] >= generation[q]
                          /\ generation'[q] \in Nat
  <2>1. WindowOK'
    BY WindowStep
  <2> QED
    BY <2>1, GenerationGrows DEF WindowOK, Generations
<1>1. ASSUME NEW q \in Requests PROVE plan'[q].gen <= generation'[q]
  <2>0. plan[q].gen \in Nat /\ plan[q].gen <= generation[q]
    BY DEF GenBehind, Generations
  <2>2. ASSUME NEW s \in Requests, FillSnapshot(s), plan'[q].gen # plan[q].gen
        PROVE  plan'[q].gen = generation[q]
    <3> DEFINE n == Cardinality(Vacancies(s))
    <3>1. PICK w : w = (IF n < E THEN n ELSE E)
      OBVIOUS
    <3>2. \/ plan' = plan
          \/ plan' = [plan EXCEPT ![s] = [gen |-> generation[s], wanted |-> w]]
      BY <2>2, <3>1 DEF FillSnapshot
    <3> HIDE DEF n
    <3>3. plan' = [plan EXCEPT ![s] = [gen |-> generation[s], wanted |-> w]]
      BY <2>2, <3>2
    <3>4. plan' = [plan EXCEPT ![q] = [gen |-> generation[q], wanted |-> w]] /\ q \in DOMAIN plan
      <4>1. plan \in [Requests -> [gen : Generations, wanted : 0 .. E]]
        BY DEF CoordinatorOK
      <4> QED
        BY <2>2, <3>3, <4>1
    <3> QED
      BY <3>4
  <2>3. ASSUME NEW s \in Requests, NEW r \in Runners, TryTicket(s, r) PROVE plan'[q].gen = plan[q].gen
    BY <2>3 DEF TryTicket
  <2>4. ASSUME NEW s \in Requests, TicketsTaken(s) PROVE plan'[q].gen = plan[q].gen
    BY <2>4 DEF TicketsTaken
  <2>5. ASSUME plan' = plan PROVE plan'[q].gen = plan[q].gen
    BY <2>5
  <2>6. \/ plan' = plan
        \/ \E s \in Requests : FillSnapshot(s) \/ TicketsTaken(s) \/ \E r \in Runners : TryTicket(s, r)
    BY CoordinatorSteps DEF coordVars, Coordinator, LoopTest, SpawnEnd, Spawn, DropTicket,
       FrontierCheck, TakeReady, WaitFrontier, GoInline, IntoValue, InlineWork, ReduceCheck,
       Consume, ConsumeRetire, ConsumeExact, Advance, RetireOnExit
  <2>7. plan'[q].gen = plan[q].gen \/ plan'[q].gen = generation[q]
    BY <2>2, <2>3, <2>4, <2>5, <2>6
  <2> QED
    BY <1>0, <2>0, <2>7
<1>2. ASSUME NEW r \in Runners, runner'[r].pc # "idle"
      PROVE  runner'[r].gen <= generation'[runner'[r].req]
  <2>1. CASE /\ runner[r].pc # "idle"
             /\ runner'[r].gen = runner[r].gen /\ runner'[r].req = runner[r].req
    <3>1. runner[r].req \in Requests /\ runner[r].gen \in Nat
      BY <2>1 DEF Generations
    <3>2. runner[r].gen <= generation[runner[r].req]
      BY <2>1 DEF GenBehind
    <3>3. /\ generation[runner[r].req] \in Nat /\ generation'[runner[r].req] \in Nat
          /\ generation'[runner[r].req] >= generation[runner[r].req]
      BY <1>0, <3>1
    <3>4. runner[r].gen <= generation'[runner[r].req]
      BY <3>1, <3>2, <3>3
    <3> QED
      BY <2>1, <3>4
  <2>2. ASSUME NEW q \in Requests, TryTicket(q, r) PROVE runner'[r].gen <= generation'[runner'[r].req]
    <3>1. runner'[r].gen = plan[q].gen /\ runner'[r].req = q /\ generation' = generation
      BY <2>2 DEF TryTicket, winVars
    <3> QED
      BY <3>1 DEF GenBehind
  <2>3. ASSUME NEW q \in Requests, NEW s \in Runners,
               Spawn(q, s) \/ DropTicket(q, s) \/ (TryTicket(q, s) /\ s # r)
        PROVE  /\ runner[r].pc # "idle"
               /\ runner'[r].gen = runner[r].gen /\ runner'[r].req = runner[r].req
    <3>1. CASE s # r
      BY <1>2, <2>3, <3>1 DEF TryTicket, Spawn, DropTicket, TicketsOf, RunnerGoto, ReturnTicket
    <3>2. CASE Spawn(q, s) /\ s = r
      <4>1. runner[r].pc = "ticketed"
        BY <3>2 DEF Spawn, TicketsOf
      <4>2. runner' = runner \/ runner' = [runner EXCEPT ![r].pc = "queued"]
        BY <3>2 DEF Spawn, RunnerGoto
      <4> QED
        BY <4>1, <4>2
    <3>3. CASE DropTicket(q, s) /\ s = r
      BY <1>2, <3>3 DEF DropTicket, ReturnTicket, IdleRunner
    <3> QED
      BY <2>3, <3>1, <3>2, <3>3
  <2>4. ASSUME NEW s \in Runners, RunnerStep(s)
        PROVE  /\ runner[r].pc # "idle"
               /\ runner'[r].gen = runner[r].gen /\ runner'[r].req = runner[r].req
    <3>1. CASE s # r
      BY <1>2, <2>4, <3>1 DEF RunnerStep, StartCheck, TryBurst, AdmittedCheck, TryClaim, Claim, Work,
         Publish, LeaseDrop, PermitDrop, DisableAfterPanic, LeafExit, RunnerGoto, ReturnTicket
    <3>2. CASE s = r
      <4>1. ASSUME NEW l, runner[r].pc # "idle", RunnerGoto(r, l)
            PROVE  runner'[r].gen = runner[r].gen /\ runner'[r].req = runner[r].req
        BY <4>1 DEF RunnerGoto
      <4>2. CASE StartCheck(r) \/ TryBurst(r) \/ AdmittedCheck(r) \/ Work(r) \/ Publish(r)
                 \/ LeaseDrop(r) \/ PermitDrop(r) \/ DisableAfterPanic(r)
        BY <4>1, <4>2 DEF StartCheck, TryBurst, AdmittedCheck, Work,
           Publish, LeaseDrop, PermitDrop, DisableAfterPanic
      <4>3. CASE TryClaim(r)
        <5>1. runner[r].pc # "idle"
          BY <4>3 DEF TryClaim
        <5>2. RunnerGoto(r, "permit") \/ \E i : Claim(r, i)
          BY <4>3 DEF TryClaim
        <5>3. ASSUME NEW i, Claim(r, i)
              PROVE  runner'[r].gen = runner[r].gen /\ runner'[r].req = runner[r].req
          BY <5>3 DEF Claim
        <5> QED
          BY <4>1, <5>1, <5>2, <5>3
      <4>4. CASE LeafExit(r)
        BY <1>2, <4>4 DEF LeafExit, ReturnTicket, IdleRunner
      <4> QED
        BY <2>4, <3>2, <4>2, <4>3, <4>4 DEF RunnerStep
    <3> QED
      BY <3>1, <3>2
  <2> QED
    BY <1>2, <2>1, <2>2, <2>3, <2>4, RunnerSteps
<1> QED
  BY <1>1, <1>2 DEF GenBehind

LEMMA ClosedStep ==
    ASSUME WindowOK, RunnerOK, ClosedIsEmpty, [Next]_vars
    PROVE  ClosedIsEmpty'
<1> SUFFICES ASSUME NEW k \in Requests, ~accepting'[k], NEW p \in Positions
             PROVE  slots'[k][p].kind = "empty"
  BY DEF ClosedIsEmpty
<1>1. CASE accepting[k]
  <2>1. slots'[k][p] = Empty
    BY <1>1, GenerationChange
  <2> QED
    BY <2>1 DEF Empty
<1>2. CASE ~accepting[k]
  <2>1. slots[k][p].kind = "empty"
    BY <1>2 DEF ClosedIsEmpty
  <2>2. ASSUME NEW r \in Runners, runner[r].req = k, OwnsSlot(r), p = runner[r].index % Width
        PROVE  FALSE
    BY <2>1, <2>2 DEF OwnsSlot, RunningSlot
  <2>3. CASE slots'[k][p] # slots[k][p]
    BY <1>2, <2>1, <2>2, <2>3, SlotChange DEF Empty, WindowOpen
  <2> QED
    BY <2>1, <2>3
<1> QED
  BY <1>1, <1>2

LEMMA DoneStep ==
    ASSUME WindowOK, CoordinatorOK, DoneIsClosed, [Next]_vars
    PROVE  DoneIsClosed'
<1> SUFFICES ASSUME NEW k \in Requests, pc'[k] = "done" PROVE ~accepting'[k]
  BY DEF DoneIsClosed
<1>1. CASE pc[k] = "done"
  BY <1>1, GenerationChange DEF DoneIsClosed
<1>2. CASE pc[k] # "done"
  <2>1. RetireOnExit(k)
    <3>1. ASSUME NEW q \in Requests, Coordinator(q) PROVE RetireOnExit(k)
      <4>1. ASSUME NEW l, l # "done", Goto(q, l) PROVE FALSE
        BY <1>2, <4>1 DEF Goto, CoordinatorOK
      <4>2. ASSUME NEW o, Return(q, o) PROVE FALSE
        BY <4>1, <4>2 DEF Return
      <4>3. ASSUME UNCHANGED pc PROVE FALSE
        BY <1>2, <4>3
      <4>4. CASE LoopTest(q) \/ FillSnapshot(q) \/ TicketsTaken(q) \/ SpawnEnd(q)
        BY <4>1, <4>2, <4>4 DEF LoopTest, FillSnapshot, TicketsTaken, SpawnEnd
      <4>5. ASSUME NEW r \in Runners, TryTicket(q, r) \/ Spawn(q, r) \/ DropTicket(q, r) PROVE FALSE
        <5>1. CASE TryTicket(q, r)
          BY <4>3, <5>1 DEF TryTicket
        <5>2. CASE Spawn(q, r)
          BY <4>1, <4>3, <5>2 DEF Spawn
        <5>3. CASE DropTicket(q, r)
          BY <4>3, <5>3 DEF DropTicket, coordVars
        <5> QED
          BY <4>5, <5>1, <5>2, <5>3
      <4>6. CASE FrontierCheck(q) \/ TakeReady(q) \/ WaitFrontier(q) \/ GoInline(q)
        BY <4>1, <4>2, <4>6 DEF FrontierCheck, TakeReady, WaitFrontier, GoInline
      <4>7. CASE IntoValue(q) \/ InlineWork(q) \/ ReduceCheck(q)
        BY <4>1, <4>2, <4>7 DEF IntoValue, InlineWork, ReduceCheck
      <4>8. CASE Consume(q) \/ ConsumeRetire(q) \/ ConsumeExact(q) \/ Advance(q)
        BY <4>1, <4>2, <4>8 DEF Consume, ConsumeRetire, ConsumeExact, Advance
      <4>9. CASE RetireOnExit(q)
        <5>1. q = k
          BY <1>2, <4>9 DEF RetireOnExit, Goto, CoordinatorOK
        <5> QED
          BY <4>9, <5>1
      <4> QED
        BY <3>1, <4>4, <4>5, <4>6, <4>7, <4>8, <4>9 DEF Coordinator
    <3> QED
      BY <1>2, <3>1, CoordinatorSteps DEF coordVars
  <2> QED
    BY <2>1 DEF RetireOnExit, RetireGeneration, WindowOK
<1> QED
  BY <1>1, <1>2

LEMMA SlotOwnerStep ==
    ASSUME WindowOK, RunnerOK, SlotsInWindow, ClosedIsEmpty, SlotHasItsRunner, [Next]_vars
    PROVE  SlotHasItsRunner'
<1> SUFFICES ASSUME NEW k \in Requests, NEW p \in Positions, slots'[k][p].kind = "running"
             PROVE  \E r \in Runners : /\ runner'[r].pc \in LeasePC \ {"refused"}
                              /\ runner'[r].req = k
                              /\ slots'[k][p] = RunningSlot(runner'[r].index, runner'[r].gen, r)
                              /\ runner'[r].index % Width = p
                              /\ runner'[r].gen = generation'[k]
  BY DEF SlotHasItsRunner
<1>1. CASE slots'[k][p] # slots[k][p]
  <2>1. PICK r \in Runners : \E i \in Vacancies(k) :
                 /\ TryClaim(r) /\ WindowOpen(r) /\ Claim(r, i)
                 /\ runner[r].req = k /\ p = i % Width
                 /\ slots'[k][p] = RunningSlot(i, runner[r].gen, r)
    <3>1. slots'[k][p] # Empty
      BY DEF Empty
    <3>2. ASSUME NEW i, NEW g PROVE slots'[k][p] # ReadySlot(i, g)
      BY DEF ReadySlot
    <3> QED
      BY <1>1, <3>1, <3>2, SlotChange
  <2>2. PICK i \in Vacancies(k) : /\ TryClaim(r) /\ WindowOpen(r) /\ Claim(r, i)
                                  /\ runner[r].req = k /\ p = i % Width
                                  /\ slots'[k][p] = RunningSlot(i, runner[r].gen, r)
    BY <2>1
  <2>3. runner' = [runner EXCEPT ![r] = [[runner[r] EXCEPT !.pc = "claimed"] EXCEPT !.index = i]]
    BY <2>2 DEF Claim, RunnerOK
  <2>4. /\ runner'[r].pc = "claimed" /\ runner'[r].req = k /\ runner'[r].index = i
        /\ runner'[r].gen = runner[r].gen
    BY <2>2, <2>3 DEF RunnerOK
  <2>5. runner[r].gen = generation'[k]
    BY <2>2 DEF WindowOpen, TryClaim
  <2> QED
    BY <2>2, <2>4, <2>5 DEF LeasePC
<1>2. CASE slots'[k][p] = slots[k][p]
  <2>1. PICK r \in Runners : /\ runner[r].pc \in LeasePC \ {"refused"}
                              /\ runner[r].req = k
                              /\ slots[k][p] = RunningSlot(runner[r].index, runner[r].gen, r)
                              /\ runner[r].index % Width = p
                              /\ runner[r].gen = generation[k]
    BY <1>2 DEF SlotHasItsRunner
  <2>2. generation'[k] = generation[k]
    BY GenerationChange DEF Empty
  <2>3. OwnsSlot(r) /\ WindowOpen(r)
    BY <1>2, <2>1 DEF OwnsSlot, WindowOpen, ClosedIsEmpty
  <2>4. CASE runner'[r] = runner[r]
    BY <1>2, <2>1, <2>2, <2>4
  <2>5. CASE runner'[r] # runner[r]
    <3>1. /\ Work(r) \/ Publish(r) \/ LeaseDrop(r)
          /\ runner'[r].req = runner[r].req /\ runner'[r].gen = runner[r].gen
          /\ runner'[r].index = runner[r].index
      BY <2>1, <2>5, LeaseSteps
    <3>2. CASE Publish(r)
      <4>1. slots'[k][p] = ReadySlot(runner[r].index, runner[r].gen)
        BY <2>1, <2>3, <3>2 DEF Publish, WindowOK
      <4> QED
        BY <4>1 DEF ReadySlot
    <3>3. CASE LeaseDrop(r)
      <4>1. slots'[k][p] = Empty
        BY <2>1, <2>3, <3>3 DEF LeaseDrop, LeaseMatches, Vacate, WindowOK
      <4> QED
        BY <4>1 DEF Empty
    <3>4. CASE Work(r)
      <4>1. runner'[r].pc \in LeasePC \ {"refused"}
        BY <3>4 DEF Work, RunnerGoto, RunnerOK, LeasePC
      <4> QED
        BY <1>2, <2>1, <2>2, <3>1, <4>1
    <3> QED
      BY <3>1, <3>2, <3>3, <3>4
  <2> QED
    BY <2>4, <2>5
<1> QED
  BY <1>1, <1>2

LEMMA LeaseStep ==
    ASSUME WindowOK, RunnerOK, SlotsInWindow, GenBehind, LeaseHasItsSlot, [Next]_vars
    PROVE  LeaseHasItsSlot'
<1> DEFINE Armed == {"claimed", "publish", "drop", "unwind"}
<1> SUFFICES ASSUME NEW r \in Runners, runner'[r].pc \in Armed, accepting'[runner'[r].req],
                    runner'[r].gen = generation'[runner'[r].req]
             PROVE  OwnsSlot(r)'
  BY DEF LeaseHasItsSlot
<1>1. CASE runner[r].pc \notin LeasePC
  <2>1. TryClaim(r) /\ runner'[r].pc # "permit"
    BY <1>1, LeaseBegins DEF LeasePC
  <2>2. PICK i \in Vacancies(runner[r].req) : Claim(r, i)
    BY <2>1 DEF TryClaim, RunnerGoto, RunnerOK
  <2>3. runner[r].req \in Requests
    BY <2>1 DEF RunnerOK, TryClaim
  <2>4. i \in Nat /\ i % Width \in Positions
    BY <2>3, VacanciesType, ModPosition
  <2>5. /\ slots'[runner[r].req][i % Width] = RunningSlot(i, runner[r].gen, r)
        /\ runner'[r].req = runner[r].req /\ runner'[r].gen = runner[r].gen /\ runner'[r].index = i
    BY <2>2, <2>3, <2>4 DEF Claim, WindowOK, RunnerOK
  <2> QED
    BY <2>5 DEF OwnsSlot
<1>2. CASE runner[r].pc \in LeasePC
  <2> DEFINE q == runner[r].req
             p == runner[r].index % Width
  <2>1. /\ runner'[r].req = q /\ runner'[r].gen = runner[r].gen
        /\ runner'[r].index = runner[r].index /\ runner[r].pc \in Armed
        /\ q \in Requests /\ p \in Positions /\ runner[r].gen \in Nat
        /\ ~Publish(r) /\ ~LeaseDrop(r)
    <3>1. q \in Requests /\ p \in Positions /\ runner[r].gen \in Nat
      BY <1>2, ModPosition DEF RunnerOK, LeasePC, Generations
    <3>2. CASE runner'[r] = runner[r]
      BY <3>1, <3>2 DEF Publish, LeaseDrop, RunnerGoto, RunnerOK, AfterLease
    <3>3. CASE runner'[r] # runner[r]
      <4>1. /\ Work(r) \/ Publish(r) \/ LeaseDrop(r)
            /\ runner'[r].req = q /\ runner'[r].gen = runner[r].gen
            /\ runner'[r].index = runner[r].index
        BY <1>2, <3>3, LeaseSteps
      <4>2. ~Publish(r) /\ ~LeaseDrop(r)
        BY DEF Publish, LeaseDrop, RunnerGoto, RunnerOK, AfterLease
      <4> QED
        BY <3>1, <4>1, <4>2 DEF Work
    <3> QED
      BY <3>2, <3>3
  <2>2. accepting'[q] = accepting[q] /\ generation'[q] = generation[q]
    <3>1. generation[q] \in Nat /\ runner[r].gen <= generation[q]
      BY <1>2, <2>1 DEF GenBehind, WindowOK, Generations, LeasePC
    <3> QED
      BY <2>1, <3>1, GenerationChange
  <2>3. OwnsSlot(r)
    BY <2>1, <2>2 DEF LeaseHasItsSlot
  <2>4. slots[q][p] = RunningSlot(runner[r].index, runner[r].gen, r)
    BY <2>3 DEF OwnsSlot
  <2>5. slots'[q][p] = slots[q][p]
    <3> SUFFICES ASSUME slots'[q][p] # slots[q][p] PROVE FALSE
      OBVIOUS
    <3>1. slots[q][p].kind = "running" /\ slots[q][p].runner = {r}
      BY <2>4 DEF RunningSlot
    <3>2. ASSUME NEW b \in BOOLEAN, RetireGeneration(q, b) PROVE FALSE
      BY <2>1, <2>2, <3>2 DEF RetireGeneration, WindowOK, Generations
    <3>3. ASSUME NEW i \in Vacancies(q), p = i % Width PROVE FALSE
      <4>1. slots[q][p] = Empty
        BY <2>1, <3>3, VacantIsEmpty
      <4> QED
        BY <3>1, <4>1 DEF Empty
    <3>4. ASSUME NEW s \in Runners, runner[s].req = q, p = runner[s].index % Width, OwnsSlot(s),
                 Publish(s) \/ LeaseDrop(s)
          PROVE  FALSE
      <4>1. slots[q][p].runner = {s}
        BY SMTT(40), <3>4 DEF OwnsSlot, RunningSlot
      <4>2. s = r
        BY <3>1, <4>1
      <4> QED
        BY <2>1, <3>4, <4>2
    <3> HIDE DEF q, p
    <3> QED
      BY <2>1, <3>1, <3>2, <3>3, <3>4, SlotChange
  <2> QED
    BY <2>1, <2>4, <2>5 DEF OwnsSlot
<1> QED
  BY <1>1, <1>2

LEMMA OwnersInit == Init => OwnersInv
<1> SUFFICES ASSUME Init PROVE OwnersInv
  OBVIOUS
<1> USE DEF Init
<1>1. GenBehind
  BY DEF GenBehind, IdleRunner
<1>2. ClosedIsEmpty /\ DoneIsClosed
  BY DEF ClosedIsEmpty, DoneIsClosed
<1>3. SlotHasItsRunner
  BY DEF SlotHasItsRunner, Empty
<1>4. LeaseHasItsSlot
  BY DEF LeaseHasItsSlot, IdleRunner
<1> QED
  BY <1>1, <1>2, <1>3, <1>4 DEF OwnersInv

LEMMA OwnersStep == ShapeOK /\ SlotsInWindow /\ OwnersInv /\ [Next]_vars => OwnersInv'
BY GenBehindStep, ClosedStep, DoneStep, SlotOwnerStep, LeaseStep DEF OwnersInv, ShapeOK

(* The lane that stays with the coordinator: the occupied slots are backed *)
(* by as many credits, and there is one credit less than there are slots.  *)
RunningIn(q) == {p \in Positions : slots[q][p].kind = "running"}
ReadyIn(q) == {p \in Positions : slots[q][p].kind = "ready"}

LEMMA RunningBacked ==
    ASSUME SlotHasItsRunner, RunnerOK, NEW q \in Requests
    PROVE  Cardinality(RunningIn(q)) <= Cardinality(PermitRunners)
<1> DEFINE owner == [p \in RunningIn(q) |-> CHOOSE r \in Runners :
                        /\ runner[r].pc \in LeasePC \ {"refused"}
                        /\ runner[r].index % Width = p]
<1>0. IsFiniteSet(Positions)
  BY WidthType, FS_Interval DEF Positions
<1>1. IsFiniteSet(RunningIn(q))
  BY <1>0, FS_Subset DEF RunningIn
<1>2. ASSUME NEW p \in RunningIn(q)
      PROVE  owner[p] \in PermitRunners /\ runner[owner[p]].index % Width = p
  <2>1. \E r \in Runners : /\ runner[r].pc \in LeasePC \ {"refused"}
                           /\ runner[r].index % Width = p
    BY DEF RunningIn, SlotHasItsRunner
  <2>2. /\ owner[p] \in Runners
        /\ runner[owner[p]].pc \in LeasePC \ {"refused"} /\ runner[owner[p]].index % Width = p
    BY <2>1
  <2> HIDE DEF owner
  <2> QED
    BY <2>2 DEF PermitRunners, HoldsPermit, PermitPC, LeasePC
<1>3. owner \in [RunningIn(q) -> PermitRunners]
  <2>1. DOMAIN owner = RunningIn(q) /\ owner = [p \in RunningIn(q) |-> owner[p]]
    OBVIOUS
  <2> HIDE DEF owner
  <2> QED
    BY <1>2, <2>1
<1>4. ASSUME NEW a \in RunningIn(q), NEW b \in RunningIn(q), owner[a] = owner[b] PROVE a = b
  <2> HIDE DEF owner
  <2> QED
    BY <1>2, <1>4
<1> HIDE DEF owner
<1>5. /\ IsFiniteSet(PermitRunners) /\ Cardinality(PermitRunners) \in Nat
      /\ Cardinality(RunningIn(q)) \in Nat
  BY <1>1, OwnersFinite, FS_CardinalityType
<1>6. ~(Cardinality(PermitRunners) < Cardinality(RunningIn(q)))
  BY <1>1, <1>3, <1>4, <1>5, FS_PigeonHole
<1> QED
  BY <1>5, <1>6

LEMMA ReadyBacked ==
    ASSUME NEW q \in Requests
    PROVE  Cardinality(ReadyIn(q)) <= Cardinality(ReadySlots)
<1> DEFINE slotAt == [p \in ReadyIn(q) |-> <<q, p>>]
<1>0. IsFiniteSet(Positions)
  BY WidthType, FS_Interval DEF Positions
<1>1. IsFiniteSet(ReadyIn(q))
  BY <1>0, FS_Subset DEF ReadyIn
<1>2. slotAt \in [ReadyIn(q) -> ReadySlots]
  BY DEF ReadyIn, ReadySlots
<1>3. \A a, b \in ReadyIn(q) : slotAt[a] = slotAt[b] => a = b
  OBVIOUS
<1> HIDE DEF slotAt
<1>4. Cardinality(ReadySlots) \in Nat /\ Cardinality(ReadyIn(q)) \in Nat
  BY <1>1, ReadySlotsFinite, FS_CardinalityType
<1>5. ~(Cardinality(ReadySlots) < Cardinality(ReadyIn(q)))
  BY <1>1, <1>2, <1>3, ReadySlotsFinite, FS_PigeonHole
<1> QED
  BY <1>4, <1>5

LEMMA OneLaneStays ==
    ASSUME ShapeOK, SlotHasItsRunner, CreditsOwned, NEW q \in Requests
    PROVE  Cardinality(Occupied(q)) < Width
<1>0. IsFiniteSet(Positions)
  BY WidthType, FS_Interval DEF Positions
<1>1. IsFiniteSet(RunningIn(q)) /\ IsFiniteSet(ReadyIn(q))
  BY <1>0, FS_Subset DEF RunningIn, ReadyIn
<1>2. Occupied(q) = RunningIn(q) \cup ReadyIn(q)
  <2>1. \A p \in Positions : slots[q][p].kind \in {"empty", "running", "ready"}
    BY SlotFields DEF ShapeOK, WindowOK
  <2> QED
    BY <2>1 DEF Occupied, RunningIn, ReadyIn
<1>3. /\ Cardinality(RunningIn(q)) \in Nat /\ Cardinality(ReadyIn(q)) \in Nat
      /\ Cardinality(RunningIn(q) \cap ReadyIn(q)) \in Nat
  BY <1>1, FS_CardinalityType, FS_Intersection
<1>4. Cardinality(Occupied(q)) = Cardinality(RunningIn(q)) + Cardinality(ReadyIn(q))
                                 - Cardinality(RunningIn(q) \cap ReadyIn(q))
  BY <1>1, <1>2, FS_Union
<1>5. /\ Cardinality(RunningIn(q)) <= Cardinality(PermitRunners)
      /\ Cardinality(ReadyIn(q)) <= Cardinality(ReadySlots)
  BY RunningBacked, ReadyBacked DEF ShapeOK
<1>6. Cardinality(PermitRunners) + Cardinality(ReadySlots) <= E
  BY OwnersFinite, WidthType DEF CreditsOwned, CreditConservation
<1>7. Cardinality(PermitRunners) \in Nat /\ Cardinality(ReadySlots) \in Nat
  BY OwnersFinite, ReadySlotsFinite, FS_CardinalityType
<1> QED
  BY <1>3, <1>4, <1>5, <1>6, <1>7, WidthType

LEMMA SearchedOnce ==
    ASSUME ShapeOK, SlotsInWindow, LeaseHasItsSlot
    PROVE  NoDoubleSearch
<1> SUFFICES ASSUME NEW r \in Runners, runner[r].pc = "claimed",
                    runner[r].gen = generation[runner[r].req], accepting[runner[r].req]
             PROVE  /\ pc[runner[r].req] \in {"inline", "exact"} =>
                            runner[r].index > next_reduce[runner[r].req]
                    /\ \A s \in Runners \ {r} :
                          (/\ runner[s].pc = "claimed" /\ runner[s].req = runner[r].req
                           /\ runner[s].gen = generation[runner[r].req])
                          => runner[s].index # runner[r].index
  BY DEF NoDoubleSearch
<1> DEFINE q == runner[r].req
           p == runner[r].index % Width
<1>1. q \in Requests /\ p \in Positions /\ runner[r].index \in Nat /\ next_reduce[q] \in Nat
  BY ModPosition DEF ShapeOK, RunnerOK, WindowOK
<1>2. slots[q][p] = RunningSlot(runner[r].index, runner[r].gen, r)
  BY DEF LeaseHasItsSlot, OwnsSlot
<1>3. /\ slots[q][p].kind # "empty" /\ slots[q][p].index = runner[r].index
      /\ slots[q][p].runner = {r}
  BY <1>2 DEF RunningSlot
<1>4. ASSUME pc[q] \in {"inline", "exact"} PROVE runner[r].index > next_reduce[q]
  <2>1. runner[r].index >= next_reduce[q] + 1
    BY SMTT(40), <1>1, <1>3, <1>4 DEF SlotsInWindow, Reducing
  <2> QED
    BY <1>1, <2>1
<1>5. ASSUME NEW s \in Runners, s # r, runner[s].pc = "claimed", runner[s].req = q,
             runner[s].gen = generation[q], runner[s].index = runner[r].index
      PROVE  FALSE
  <2>1. slots[q][p] = RunningSlot(runner[s].index, runner[s].gen, s)
    BY <1>5 DEF LeaseHasItsSlot, OwnsSlot
  <2>2. slots[q][p].runner = {s}
    BY <2>1 DEF RunningSlot
  <2> QED
    BY <1>3, <1>5, <2>2
<1> QED
  BY <1>4, <1>5

(* The slots of the window and the leaves that search for it agree, in     *)
(* every interleaving: the coordinator never waits for a leaf that is      *)
(* gone, no leaf loses its slot, no candidate is searched twice, a lane    *)
(* stays with the coordinator, and a finished window stays empty.          *)
THEOREM SlotsOwned == Spec => []SlotsAreOwned
<1>1. Init => OwnersInv
  BY OwnersInit
<1>2. IInv /\ OwnersInv /\ [Next]_vars => OwnersInv'
  BY OwnersStep DEF IInv
<1>3. IInv /\ OwnersInv /\ TypeOK => SlotsAreOwned
  <2> SUFFICES ASSUME IInv, OwnersInv, TypeOK PROVE SlotsAreOwned
    OBVIOUS
  <2>1. LiveSlotsCount
    BY OneLaneStays DEF LiveSlotsCount, IInv, OwnersInv
  <2>2. NoDoubleSearch
    BY SearchedOnce DEF IInv, OwnersInv
  <2>3. DoneIsClean
    BY DEF DoneIsClean, OwnersInv, DoneIsClosed, ClosedIsEmpty, Occupied
  <2> QED
    BY <2>1, <2>2, <2>3 DEF SlotsAreOwned, OwnersInv
<1> QED
  BY <1>1, <1>2, <1>3, Invariance, Typing, PTL DEF Spec

----------------------------------------------------------------------------
(* In-order delivery *)

(* What the coordinator holds at each point: the candidates it delivered   *)
(* are those before the frontier, the value it carries to the reducer is   *)
(* the frontier's, of the current generation, and its result is set as it  *)
(* leaves.                                                                 *)
Left(q) == pc[q] \in {"exit", "done"}
Carrying(q) == pc[q] \in {"ready", "reduce", "consume"}
Handed(q) == IF pc[q] \in {"exact", "advance"} THEN next_reduce[q] + 1 ELSE next_reduce[q]
Delivering(q) ==
    /\ result[q] = "none" <=> ~Left(q)
    /\ next_reduce[q] <= Count[q]
    /\ pc[q] \notin {"loop", "exit", "done"} => next_reduce[q] < Count[q]
    /\ Carrying(q) => value[q] = Value(next_reduce[q], generation[q])
    /\ ~Left(q) => Len(delivered[q]) = Handed(q)
DeliveryInv == \A q \in Requests : Delivering(q)

DeliveryView(q) == <<pc[q], next_reduce[q], generation[q], value[q], result[q], delivered[q]>>

LEMMA SameView ==
    ASSUME NEW q \in Requests, Delivering(q), UNCHANGED DeliveryView(q)
    PROVE  Delivering(q)'
BY DEF Delivering, DeliveryView, Left, Carrying, Handed

(* The steps that move the coordinator of q without a value, a delivery or *)
(* a result.                                                               *)
Quiet(q) == UNCHANGED <<next_reduce[q], generation[q], value[q], result[q], delivered[q]>>

LEMMA OtherView ==
    ASSUME CoordinatorOK, WindowOK, NEW q \in Requests, Coordinator(q), NEW k \in Requests, k # q
    PROVE  UNCHANGED DeliveryView(k)
<1> USE DEF CoordinatorOK, WindowOK, DeliveryView
<1>1. ASSUME NEW l, Goto(q, l) PROVE pc'[k] = pc[k]
  BY <1>1 DEF Goto
<1>2. ASSUME NEW o, Return(q, o) PROVE pc'[k] = pc[k] /\ result'[k] = result[k]
  BY <1>1, <1>2 DEF Return
<1>3. ASSUME NEW b, RetireGeneration(q, b)
      PROVE  generation'[k] = generation[k] /\ next_reduce' = next_reduce
  BY <1>3 DEF RetireGeneration
<1>4. ASSUME Deliver(q) PROVE delivered'[k] = delivered[k]
  BY <1>4 DEF Deliver
<1>5. CASE LoopTest(q) \/ FrontierCheck(q) \/ ReduceCheck(q) \/ ConsumeExact(q)
  BY <1>1, <1>2, <1>5 DEF LoopTest, FrontierCheck, ReduceCheck, ConsumeExact, winVars
<1>6. CASE FillSnapshot(q) \/ TicketsTaken(q) \/ SpawnEnd(q) \/ WaitFrontier(q) \/ GoInline(q) \/ IntoValue(q)
  BY <1>1, <1>6 DEF FillSnapshot, TicketsTaken, SpawnEnd, WaitFrontier, GoInline, IntoValue, winVars
<1>7. ASSUME NEW r \in Runners, TryTicket(q, r) \/ Spawn(q, r) \/ DropTicket(q, r)
      PROVE  UNCHANGED DeliveryView(k)
  BY <1>1, <1>7 DEF TryTicket, Spawn, DropTicket, winVars, coordVars
<1>8. CASE TakeReady(q) \/ InlineWork(q) \/ Advance(q)
  BY <1>1, <1>2, <1>8 DEF TakeReady, InlineWork, Advance, winVars
<1>9. CASE Consume(q) \/ ConsumeRetire(q)
  BY <1>1, <1>2, <1>3, <1>4, <1>9 DEF Consume, ConsumeRetire, winVars
<1>10. CASE RetireOnExit(q)
  BY <1>1, <1>3, <1>10 DEF RetireOnExit
<1> QED
  BY <1>5, <1>6, <1>7, <1>8, <1>9, <1>10 DEF Coordinator

LEMMA OwnView ==
    ASSUME CoordinatorOK, WindowOK, NEW q \in Requests, Coordinator(q), Delivering(q)
    PROVE  Delivering(q)'
<1> USE DEF CoordinatorOK, WindowOK, CoordPC
<1>0. /\ next_reduce[q] \in Nat /\ Count[q] \in Nat /\ Len(delivered[q]) \in Nat
      /\ pc[q] \in CoordPC /\ DOMAIN pc = Requests /\ DOMAIN result = Requests
  OBVIOUS
<1>1. ASSUME NEW l, Goto(q, l), NEW from, pc[q] = from, Quiet(q),
             \/ /\ from \in {"loop", "fill", "tickets", "spawn", "dropTickets", "frontier", "peek"}
                /\ l \in {"fill", "tickets", "spawn", "dropTickets", "frontier", "peek", "inline"}
                /\ next_reduce[q] < Count[q]
             \/ from = "ready" /\ l = "reduce"
             \/ from = "reduce" /\ l = "consume"
             \/ from = "exact" /\ l = "advance"
             \/ from = "exit" /\ l = "done"
      PROVE  Delivering(q)'
  <2>1. pc'[q] = l
    BY <1>1 DEF Goto
  <2> QED
    BY <1>0, <1>1, <2>1 DEF Delivering, Quiet, Left, Carrying, Handed
<1>2. ASSUME NEW o, Return(q, o), ~Left(q), o # "none", UNCHANGED next_reduce
      PROVE  Delivering(q)'
  <2>1. pc'[q] = "exit" /\ result'[q] = o
    BY <1>2 DEF Return, Goto
  <2> QED
    BY <1>2, <2>1 DEF Delivering, Left, Carrying, Handed
<1>3. CASE LoopTest(q)
  <2>2. CASE AllReduced(q)
    BY <1>2, <1>3, <2>2 DEF LoopTest, Left, winVars
  <2>3. CASE ~AllReduced(q) /\ OperationOK(q)
    BY <1>0, <1>1, <1>3, <2>3 DEF LoopTest, AllReduced, Quiet, winVars
  <2>4. CASE ~AllReduced(q) /\ ~OperationOK(q)
    BY <1>2, <1>3, <2>4 DEF LoopTest, Left, winVars
  <2> QED
    BY <2>2, <2>3, <2>4
<1>4. CASE FillSnapshot(q) \/ TicketsTaken(q) \/ SpawnEnd(q) \/ WaitFrontier(q) \/ GoInline(q)
  <2>1. Quiet(q) /\ next_reduce[q] < Count[q]
    BY <1>4 DEF FillSnapshot, TicketsTaken, SpawnEnd, WaitFrontier, GoInline, Quiet, winVars, Delivering
  <2> QED
    BY <1>1, <1>4, <2>1 DEF FillSnapshot, TicketsTaken, SpawnEnd, WaitFrontier, GoInline
<1>5. ASSUME NEW r \in Runners, TryTicket(q, r) \/ Spawn(q, r) \/ DropTicket(q, r)
      PROVE  Delivering(q)'
  <2>1. Quiet(q)
    BY <1>5 DEF TryTicket, Spawn, DropTicket, Quiet, winVars, coordVars
  <2>2. CASE UNCHANGED pc
    BY <2>1, <2>2, SameView DEF Quiet, DeliveryView
  <2>3. CASE pc[q] = "spawn" /\ Goto(q, "dropTickets")
    <3>1. next_reduce[q] < Count[q]
      BY <2>3 DEF Delivering
    <3> QED
      BY <1>1, <2>1, <2>3, <3>1
  <2> QED
    BY <1>5, <2>2, <2>3 DEF TryTicket, Spawn, DropTicket, coordVars
<1>6. CASE FrontierCheck(q)
  <2>1. CASE OperationOK(q)
    <3>1. Quiet(q) /\ next_reduce[q] < Count[q]
      BY <1>6, <2>1 DEF FrontierCheck, Quiet, winVars, Delivering
    <3> QED
      BY <1>1, <1>6, <2>1, <3>1 DEF FrontierCheck
  <2>2. CASE ~OperationOK(q)
    BY <1>2, <1>6, <2>2 DEF FrontierCheck, Left, winVars
  <2> QED
    BY <2>1, <2>2
<1>7. CASE TakeReady(q)
  <2>1. /\ pc[q] = "peek" /\ pc'[q] = "ready"
        /\ value'[q] = Value(next_reduce[q], generation[q])
        /\ UNCHANGED <<next_reduce, generation, result, delivered>>
    BY <1>7 DEF TakeReady, Goto, IsCurrent
  <2> QED
    BY <2>1 DEF Delivering, Left, Carrying, Handed
<1>8. CASE IntoValue(q)
  <2>1. Quiet(q)
    BY <1>8 DEF IntoValue, Quiet, winVars
  <2> QED
    BY <1>1, <1>8, <2>1 DEF IntoValue
<1>9. CASE InlineWork(q)
  <2>1. CASE Return(q, "cancelled")
    BY <1>2, <1>9, <2>1 DEF InlineWork, Left, winVars
  <2>2. CASE value' = [value EXCEPT ![q] = Value(next_reduce[q], generation[q])] /\ Goto(q, "reduce")
             /\ UNCHANGED result
    <3>1. /\ pc[q] = "inline" /\ pc'[q] = "reduce"
          /\ value'[q] = Value(next_reduce[q], generation[q])
          /\ UNCHANGED <<next_reduce, generation, result, delivered>>
      BY <1>9, <2>2 DEF InlineWork, Goto, winVars
    <3> QED
      BY <3>1 DEF Delivering, Left, Carrying, Handed
  <2> QED
    BY <1>9, <2>1, <2>2 DEF InlineWork
<1>10. CASE ReduceCheck(q)
  <2>1. CASE OperationOK(q)
    <3>1. Quiet(q)
      BY <1>10, <2>1 DEF ReduceCheck, Quiet, winVars
    <3> QED
      BY <1>1, <1>10, <2>1, <3>1 DEF ReduceCheck
  <2>2. CASE ~OperationOK(q)
    BY <1>2, <1>10, <2>2 DEF ReduceCheck, Left, winVars
  <2> QED
    BY <2>1, <2>2
<1>11. CASE Consume(q) \/ ConsumeRetire(q)
  <2>1. CASE Return(q, "break")
    BY <1>2, <1>11, <2>1 DEF Consume, ConsumeRetire, RetireGeneration, Left, winVars
  <2>2. ASSUME NEW l \in {"advance", "exact"}, Goto(q, l), UNCHANGED result
        PROVE  Delivering(q)'
    <3>1. /\ pc[q] = "consume" /\ pc'[q] \in {"advance", "exact"}
          /\ UNCHANGED <<next_reduce, result>>
      BY <1>11, <2>2 DEF Consume, ConsumeRetire, RetireGeneration, winVars, Goto
    <3>2. delivered'[q] = Append(delivered[q], value[q])
      BY <1>11 DEF Consume, ConsumeRetire, Deliver
    <3>3. Len(delivered'[q]) = Len(delivered[q]) + 1
      BY <3>2
    <3> QED
      BY <1>0, <3>1, <3>3 DEF Delivering, Left, Carrying, Handed
  <2> QED
    BY <1>11, <2>1, <2>2 DEF Consume, ConsumeRetire
<1>12. CASE ConsumeExact(q)
  <2>1. CASE Return(q, "break")
    BY <1>2, <1>12, <2>1 DEF ConsumeExact, Left, winVars
  <2>2. CASE Goto(q, "advance") /\ UNCHANGED result
    <3>1. Quiet(q)
      BY <1>12, <2>2 DEF ConsumeExact, Quiet, winVars
    <3> QED
      BY <1>1, <1>12, <2>2, <3>1 DEF ConsumeExact
  <2> QED
    BY <1>12, <2>1, <2>2 DEF ConsumeExact
<1>13. CASE Advance(q)
  <2>1. /\ pc[q] = "advance" /\ pc'[q] = "loop" /\ next_reduce'[q] = next_reduce[q] + 1
        /\ UNCHANGED <<generation, value, result, delivered>>
    BY <1>13 DEF Advance, Goto
  <2> QED
    BY <1>0, <2>1 DEF Delivering, Left, Carrying, Handed
<1>14. CASE RetireOnExit(q)
  <2>1. /\ pc[q] = "exit" /\ pc'[q] = "done" /\ UNCHANGED <<next_reduce, result>>
    BY <1>14 DEF RetireOnExit, Goto, RetireGeneration
  <2> QED
    BY <2>1 DEF Delivering, Left, Carrying, Handed
<1> QED
  BY <1>3, <1>4, <1>5, <1>6, <1>7, <1>8, <1>9, <1>10, <1>11, <1>12, <1>13, <1>14 DEF Coordinator

LEMMA DeliveryInit == CoordinatorOK /\ Init => DeliveryInv
<1> SUFFICES ASSUME Init, NEW q \in Requests PROVE Delivering(q)
  BY DEF DeliveryInv
<1>1. /\ pc[q] = "loop" /\ result[q] = "none" /\ next_reduce[q] = 0 /\ delivered[q] = <<>>
      /\ Count[q] \in Nat
  BY DEF Init
<1> QED
  BY <1>1 DEF Delivering, Left, Carrying, Handed

LEMMA DeliveryStep ==
    ASSUME CoordinatorOK, WindowOK, DeliveryInv, [Next]_vars
    PROVE  DeliveryInv'
<1> SUFFICES ASSUME NEW k \in Requests PROVE Delivering(k)'
  BY DEF DeliveryInv
<1>1. ASSUME NEW q \in Requests, Coordinator(q) PROVE Delivering(k)'
  BY <1>1, OtherView, OwnView, SameView DEF DeliveryInv
<1>2. CASE UNCHANGED coordVars /\ UNCHANGED <<next_reduce, generation>>
  BY <1>2, SameView DEF DeliveryInv, DeliveryView, coordVars
<1>3. \/ \E q \in Requests : Coordinator(q)
      \/ UNCHANGED coordVars /\ UNCHANGED <<next_reduce, generation>>
  BY DEF Next, vars, winVars, RunnerStep, Cancel,
     StartCheck, TryBurst, AdmittedCheck, TryClaim, Work, Publish, LeaseDrop, PermitDrop,
     DisableAfterPanic, LeafExit
<1> QED
  BY <1>1, <1>2, <1>3

(* Every step of the window is a step of OrderedDelivery, or one it does   *)
(* not see.                                                                *)
Seen == <<cancelled, generation, delivered, result>>

LEMMA FinishMaps ==
    ASSUME CoordinatorOK, NEW q \in Requests, Delivering(q), ~Left(q),
           \/ Return(q, "cancelled") /\ cancelled[q]
           \/ Return(q, "ok") /\ Len(delivered[q]) = Count[q],
           UNCHANGED <<cancelled, generation, delivered>>
    PROVE  Abstract!Finish(q)
BY DEF Abstract!Finish, Return, Delivering

LEMMA DeliverMaps ==
    ASSUME CoordinatorOK, WindowOK, NEW q \in Requests, Delivering(q),
           Consume(q) \/ ConsumeRetire(q)
    PROVE  Abstract!Deliver(q)
<1> USE DEF CoordinatorOK, WindowOK
<1>1. /\ pc[q] = "consume" /\ Deliver(q) /\ UNCHANGED cancelled
      /\ UNCHANGED result \/ Return(q, "break")
      /\ UNCHANGED generation \/ RetireGeneration(q, TRUE)
  BY DEF Consume, ConsumeRetire, winVars
<1>2. /\ result[q] = "none" /\ next_reduce[q] < Count[q] /\ Len(delivered[q]) = next_reduce[q]
      /\ value[q] = Value(next_reduce[q], generation[q])
  BY <1>1 DEF Delivering, Left, Carrying, Handed
<1>3. delivered' = [delivered EXCEPT ![q] =
                       Append(delivered[q], [index |-> Len(delivered[q]), gen |-> generation[q]])]
  BY <1>1, <1>2 DEF Deliver, Value
<1>4. \/ UNCHANGED generation
      \/ generation[q] < GenLimit /\ generation' = [generation EXCEPT ![q] = @ + 1]
  BY <1>1 DEF RetireGeneration
<1>5. UNCHANGED result \/ result' = [result EXCEPT ![q] = "break"]
  BY <1>1 DEF Return
<1> QED
  BY <1>1, <1>2, <1>3, <1>4, <1>5 DEF Abstract!Deliver

LEMMA StepMaps ==
    ASSUME CoordinatorOK, WindowOK, NEW q \in Requests, Coordinator(q), Delivering(q)
    PROVE  Abstract!Next \/ UNCHANGED Seen
<1> USE DEF Seen
<1>0. next_reduce[q] \in Nat /\ Count[q] \in Nat
  BY DEF WindowOK
<1>1. ASSUME Abstract!Finish(q) \/ Abstract!Deliver(q) \/ Abstract!Break(q) \/ Abstract!Close(q)
      PROVE  Abstract!Next
  BY <1>1 DEF Abstract!Next
<1>2. CASE LoopTest(q)
  <2>1. /\ ~Left(q) /\ UNCHANGED <<cancelled, generation, delivered>>
        /\ UNCHANGED result \/ (Return(q, "ok") /\ AllReduced(q))
                            \/ (Return(q, "cancelled") /\ cancelled[q])
    BY <1>2 DEF LoopTest, Left, winVars, OperationOK
  <2>2. AllReduced(q) => Len(delivered[q]) = Count[q]
    BY <1>0, <1>2 DEF AllReduced, Delivering, Left, Handed, LoopTest
  <2> QED
    BY <1>1, <2>1, <2>2, FinishMaps
<1>3. CASE FrontierCheck(q) \/ ReduceCheck(q) \/ InlineWork(q)
  <2>1. /\ ~Left(q) /\ UNCHANGED <<cancelled, generation, delivered>>
        /\ UNCHANGED result \/ (Return(q, "cancelled") /\ cancelled[q])
    BY <1>3 DEF FrontierCheck, ReduceCheck, InlineWork, Left, winVars, OperationOK
  <2> QED
    BY <1>1, <2>1, FinishMaps
<1>4. CASE Consume(q) \/ ConsumeRetire(q)
  BY <1>1, <1>4, DeliverMaps
<1>5. CASE ConsumeExact(q)
  <2>1. CASE UNCHANGED result
    BY <1>5, <2>1 DEF ConsumeExact, winVars
  <2>2. CASE Return(q, "break")
    <3>1. /\ result[q] = "none" /\ Len(delivered[q]) = next_reduce[q] + 1
          /\ UNCHANGED <<cancelled, generation, delivered>>
      BY <1>5 DEF ConsumeExact, winVars, Delivering, Left, Handed
    <3>2. delivered[q] # <<>>
      BY <1>0, <3>1
    <3> QED
      BY <1>1, <2>2, <3>1, <3>2 DEF Abstract!Break, Return
  <2> QED
    BY <1>5, <2>1, <2>2 DEF ConsumeExact
<1>6. CASE RetireOnExit(q)
  <2>1. result[q] # "none" /\ UNCHANGED <<cancelled, delivered, result>>
    BY <1>6 DEF RetireOnExit, Delivering, Left
  <2>2. \/ UNCHANGED generation
        \/ generation[q] < GenLimit /\ generation' = [generation EXCEPT ![q] = @ + 1]
    BY <1>6 DEF RetireOnExit, RetireGeneration
  <2> QED
    BY <1>1, <2>1, <2>2 DEF Abstract!Close
<1>7. CASE \/ FillSnapshot(q) \/ TicketsTaken(q) \/ SpawnEnd(q) \/ TakeReady(q) \/ WaitFrontier(q)
           \/ GoInline(q) \/ IntoValue(q) \/ Advance(q)
           \/ \E r \in Runners : TryTicket(q, r) \/ Spawn(q, r) \/ DropTicket(q, r)
  BY <1>7 DEF FillSnapshot, TicketsTaken, SpawnEnd, TakeReady, WaitFrontier, GoInline, IntoValue,
     Advance, TryTicket, Spawn, DropTicket, winVars, coordVars
<1> QED
  BY <1>2, <1>3, <1>4, <1>5, <1>6, <1>7 DEF Coordinator

(* The window implements OrderedDelivery: whichever lanes compute, retry   *)
(* or drop results, the reducer of every request is handed candidates 0,   *)
(* 1, 2, ... in order, each once, of the generation current at that        *)
(* moment, and nothing after the call returned.                            *)
THEOREM InOrder == Spec => InOrderDelivery
<1>1. Init => Abstract!Init
  BY DEF Init, Abstract!Init
<1>2. Init => DeliveryInv
  BY DeliveryInit, InitShape DEF ShapeOK
<1>3. IInv /\ DeliveryInv /\ [Next]_vars => DeliveryInv'
  BY DeliveryStep DEF IInv, ShapeOK
<1>4. IInv /\ DeliveryInv /\ [Next]_vars => [Abstract!Next]_(Abstract!vars)
  <2> SUFFICES ASSUME IInv, DeliveryInv, [Next]_vars PROVE Abstract!Next \/ UNCHANGED Seen
    BY DEF Abstract!vars, Seen
  <2>1. ASSUME NEW q \in Requests, Coordinator(q) PROVE Abstract!Next \/ UNCHANGED Seen
    BY <2>1, StepMaps DEF IInv, ShapeOK, DeliveryInv
  <2>2. ASSUME NEW q \in Requests, Cancel(q) PROVE Abstract!Next
    BY <2>2 DEF Cancel, Abstract!Next, Abstract!Cancel, winVars, coordVars
  <2>3. ASSUME NEW r \in Runners, RunnerStep(r) PROVE UNCHANGED Seen
    BY <2>3 DEF RunnerStep, StartCheck, TryBurst, AdmittedCheck, TryClaim, Work, Publish,
       LeaseDrop, PermitDrop, DisableAfterPanic, LeafExit, winVars, coordVars, Seen
  <2>4. CASE UNCHANGED vars
    BY <2>4 DEF vars, winVars, coordVars, Seen
  <2> QED
    BY <2>1, <2>2, <2>3, <2>4 DEF Next
<1> QED
  BY <1>1, <1>2, <1>3, <1>4, Invariance, PTL DEF Spec, InOrderDelivery, Abstract!Spec
=============================================================================

------------------------- MODULE TokenBucketProofs -------------------------
(* The pool is never overdrawn, a workflow is charged once, and a working    *)
(* workflow has its tokens: for every number of workflows, executions and    *)
(* workers, every weight, capacity and batch size.                           *)
EXTENDS TokenBucket, FiniteSetTheorems, TLAPS

-----------------------------------------------------------------------------
(* Tokens are counted by cardinalities.                                     *)

\* There are n tokens from 1 to n.
LEMMA UpTo == ASSUME NEW n \in Nat PROVE IsFiniteSet(1..n) /\ Cardinality(1..n) = n
<1>1. 1 \in Int /\ n \in Int
  OBVIOUS
<1>2. /\ IsFiniteSet(1..n)
      /\ Cardinality(1..n) = IF 1 > n THEN 0 ELSE n - 1 + 1
  BY ONLY <1>1, FS_Interval, Zenon
<1> QED BY <1>2

\* A finite union of intervals, one copy per element, is finite: what makes
\* the sums over holds and over workers numbers.
LEMMA CopiesFinite ==
  ASSUME NEW S, IsFiniteSet(S), NEW size, \A x \in S : size[x] \in Nat
  PROVE  IsFiniteSet(UNION {{x} \X (1..size[x]) : x \in S})
<1> DEFINE T == {{x} \X (1..size[x]) : x \in S}
           f == [x \in S |-> {x} \X (1..size[x])]
<1>1. f \in Surjection(S, T)
  BY DEF Surjection
<1>2. IsFiniteSet(T)
  <2> HIDE DEF f, T
  <2> QED BY <1>1, FS_Surjection
<1>3. ASSUME NEW t \in T PROVE IsFiniteSet(t)
  <2>1. PICK x \in S : t = {x} \X (1..size[x])
    OBVIOUS
  <2>2. IsFiniteSet({x}) /\ IsFiniteSet(1..size[x])
    BY FS_Singleton, UpTo
  <2> QED BY <2>1, <2>2, FS_Product
<1> HIDE DEF T
<1>4. IsFiniteSet(UNION T)
  BY <1>2, <1>3, FS_UNION
<1> QED BY <1>4 DEF T

\* The tokens of a finite set of holds are finitely many.
LEMMA TokensFinite ==
  ASSUME NEW holds, IsFiniteSet(holds), holds \subseteq Workflows \X (Nat \ {0})
  PROVE  IsFiniteSet(TokensOf(holds)) /\ Cardinality(TokensOf(holds)) \in Nat
<1> DEFINE size == [r \in holds |-> Weight[r[1]]]
<1>1. \A r \in holds : size[r] \in Nat
  BY TokenBucketAssumption
<1>2. TokensOf(holds) = UNION {{r} \X (1..size[r]) : r \in holds}
  BY DEF TokensOf
<1>3. IsFiniteSet(TokensOf(holds))
  <2> HIDE DEF size
  <2> QED BY <1>1, <1>2, CopiesFinite
<1> QED BY <1>3, FS_CardinalityType

\* Fewer holds are no more tokens.
LEMMA FewerTokens ==
  ASSUME NEW few, NEW many, few \subseteq many, IsFiniteSet(many),
         many \subseteq Workflows \X (Nat \ {0})
  PROVE  Cardinality(TokensOf(few)) <= Cardinality(TokensOf(many))
<1>1. IsFiniteSet(TokensOf(many))
  BY TokensFinite
<1>2. TokensOf(few) \subseteq TokensOf(many)
  BY DEF TokensOf
<1> QED BY <1>1, <1>2, FS_Subset

\* One more hold is at most its weight more.
LEMMA OneMoreHold ==
  ASSUME NEW holds, IsFiniteSet(holds), holds \subseteq Workflows \X (Nat \ {0}),
         NEW r \in Workflows \X (Nat \ {0})
  PROVE  Cardinality(TokensOf(holds \union {r})) <= Cardinality(TokensOf(holds)) + Weight[r[1]]
<1> DEFINE tokens == {r} \X (1..Weight[r[1]])
<1>1. TokensOf(holds \union {r}) = TokensOf(holds) \union tokens
  BY DEF TokensOf
<1>2. Weight[r[1]] \in Nat \ {0}
  BY TokenBucketAssumption
<1>3. IsFiniteSet({r}) /\ Cardinality({r}) = 1
  BY FS_Singleton
<1>4. /\ IsFiniteSet(1..Weight[r[1]])
      /\ Cardinality(1..Weight[r[1]]) = Weight[r[1]]
  BY <1>2, UpTo
<1>5. IsFiniteSet(tokens) /\ Cardinality(tokens) = Weight[r[1]]
  <2>1. /\ Cardinality(tokens) = Cardinality({r}) * Cardinality(1..Weight[r[1]])
        /\ IsFiniteSet(tokens)
    BY <1>3, <1>4, FS_Product
  <2>2. Cardinality(tokens) = 1 * Weight[r[1]]
    <3> HIDE DEF tokens
    <3> QED BY ONLY <2>1, <1>3, <1>4, Zenon
  <2> QED BY <2>1, <2>2, <1>2
<1>6. IsFiniteSet(TokensOf(holds)) /\ Cardinality(TokensOf(holds)) \in Nat
  BY TokensFinite
<1> HIDE DEF tokens
<1>7. /\ Cardinality(TokensOf(holds) \union tokens)
         = Cardinality(TokensOf(holds)) + Cardinality(tokens)
           - Cardinality(TokensOf(holds) \intersect tokens)
  BY <1>5, <1>6, FS_Union
<1>8. Cardinality(TokensOf(holds) \intersect tokens) \in Nat
  BY <1>6, FS_Intersection, FS_CardinalityType
<1> DEFINE a == Cardinality(TokensOf(holds))
           c == Cardinality(TokensOf(holds) \intersect tokens)
           u == Cardinality(TokensOf(holds) \union tokens)
<1>9. u = a + Weight[r[1]] - c /\ a \in Nat /\ c \in Nat
  BY <1>5, <1>6, <1>7, <1>8
<1> HIDE DEF a, c, u
<1>10. u <= a + Weight[r[1]]
  BY <1>2, <1>9
<1> QED BY <1>1, <1>10 DEF a, u

\* What any set of workers contributes is a number, at most what all do.
LEMMA ContributionBound ==
  ASSUME NEW some \in SUBSET Workers
  PROVE  /\ Contributed(some) \in Nat
         /\ Contributed(some) <= Contributed(Workers)
<1> DEFINE unitsOf(S) == UNION {{p} \X (1..Contribution[p]) : p \in S}
<1>1. IsFiniteSet(Workers) /\ \A p \in Workers : Contribution[p] \in Nat
  BY TokenBucketAssumption
<1>2. IsFiniteSet(unitsOf(Workers))
  BY <1>1, CopiesFinite
<1>3. unitsOf(some) \subseteq unitsOf(Workers)
  OBVIOUS
<1> HIDE DEF unitsOf
<1>4. /\ IsFiniteSet(unitsOf(some))
      /\ Cardinality(unitsOf(some)) <= Cardinality(unitsOf(Workers))
  BY <1>2, <1>3, FS_Subset
<1>5. Cardinality(unitsOf(some)) \in Nat
  BY <1>4, FS_CardinalityType
<1> QED BY <1>4, <1>5 DEF unitsOf, Contributed

\* The capacity an acquisition reads is a number, at most the peak.
LEMMA CapacityBound ==
  ASSUME live \subseteq Workers
  PROVE  /\ EffectiveCapacity \in Nat /\ PeakCapacity \in Nat
         /\ EffectiveCapacity <= PeakCapacity
<1>1. Contributed(live) \in Nat /\ Contributed(live) <= Contributed(Workers)
  BY ContributionBound
<1>2. Contributed(Workers) \in Nat
  BY ContributionBound
<1> QED BY <1>1, <1>2, TokenBucketAssumption DEF EffectiveCapacity, PeakCapacity

-----------------------------------------------------------------------------
(* Types.                                                                    *)

\* Replaying the recorded steps leaves an execution at one of its labels.
LEMMA ResumeLabel ==
  ASSUME TypeOK, NEW w \in Workflows
  PROVE  Resume(w) \in {"check", "work", "release", "finish"}
  BY DEF TypeOK, Resume, Stages

\* The row InsertHold would add is a row, and not one of the table.
LEMMA NewRowType ==
  ASSUME TypeOK, NEW w \in Workflows
  PROVE  /\ NewRow(w) \in Workflows \X (Nat \ {0})
         /\ NewRow(w)[1] = w
         /\ IsFiniteSet(RowsOf(w)) /\ Cardinality(RowsOf(w)) \in Nat
<1>1. IsFiniteSet(rows) /\ RowsOf(w) \subseteq rows
  BY DEF TypeOK, RowsOf
<1>2. IsFiniteSet(RowsOf(w)) /\ Cardinality(RowsOf(w)) \in Nat
  BY <1>1, FS_Subset, FS_CardinalityType
<1> QED BY <1>2 DEF NewRow

\* The initial state has the types.
LEMMA TypeInit == Init => TypeOK
<1> SUFFICES ASSUME Init PROVE TypeOK
  OBVIOUS
<1>1. IsFiniteSet(rows)
  BY FS_EmptySet DEF Init
<1> QED BY <1>1, TokenBucketAssumption DEF Init, TypeOK, Locals, Idle, Stages, Labels

\* An execution that moves to a label with locals of the right type, and a
\* workflow unless it stops, keeps the types of the executions.
LEMMA MoveType ==
  ASSUME TypeOK, NEW e \in Executions, NEW label \in Labels, NEW v \in Locals(rows'),
         rows \subseteq rows', label # "off" => v.workflow \in Workflows,
         pc' = [pc EXCEPT ![e] = label], local' = [local EXCEPT ![e] = v]
  PROVE  /\ pc' \in [Executions -> Labels]
         /\ local' \in [Executions -> Locals(rows')]
         /\ \A f \in Executions : pc'[f] # "off" => local'[f].workflow \in Workflows
<1>1. pc' \in [Executions -> Labels]
  BY DEF TypeOK
<1>2. \A f \in Executions : local'[f] = IF f = e THEN v ELSE local[f]
  BY DEF TypeOK
<1>3. \A f \in Executions : local[f] \in Locals(rows')
  BY DEF TypeOK, Locals
<1>4. local' \in [Executions -> Locals(rows')]
  BY <1>2, <1>3 DEF TypeOK
<1>5. \A f \in Executions : pc'[f] = IF f = e THEN label ELSE pc[f]
  BY DEF TypeOK
<1> QED BY <1>1, <1>2, <1>4, <1>5 DEF TypeOK

\* The locals an execution has after each kind of step are of their type.
LEMMA LocalsType ==
  ASSUME TypeOK, NEW e \in Executions, pc[e] # "off"
  PROVE  /\ local[e] \in Locals(rows) /\ local[e].workflow \in Workflows
         /\ log[local[e].workflow] \in [misses : Nat, stage : Stages]
         /\ Idle \in Locals(rows)
         /\ [Idle EXCEPT !.workflow = local[e].workflow] \in Locals(rows)
         /\ \A n \in Nat, b \in BOOLEAN :
              [local[e] EXCEPT !.attempt = n, !.acquired = b] \in Locals(rows)
         /\ \A n \in Nat : [local[e] EXCEPT !.attempt = n] \in Locals(rows)
         /\ \A n \in Nat : [local[e] EXCEPT !.capacity = n] \in Locals(rows)
         /\ \A batch \in SUBSET rows : [local[e] EXCEPT !.batch = batch] \in Locals(rows)
         /\ \A b \in BOOLEAN :
              [local[e] EXCEPT !.capacity = 0, !.batch = {}, !.acquired = b] \in Locals(rows)
<1> USE DEF TypeOK
<1>1. local[e] \in Locals(rows) /\ local[e].workflow \in Workflows
  OBVIOUS
<1>2. log[local[e].workflow] \in [misses : Nat, stage : Stages]
  BY <1>1
<1> QED BY <1>1, <1>2 DEF Locals, Idle

\* Each step of an acquisition keeps the types.
LEMMA TypeAcquire ==
  ASSUME TypeOK, NEW e \in Executions, Acquire(e)
  PROVE  TypeOK'
<1> DEFINE w == local[e].workflow
           Moved == /\ pc' \in [Executions -> Labels]
                    /\ local' \in [Executions -> Locals(rows')]
                    /\ \A f \in Executions : pc'[f] # "off" => local'[f].workflow \in Workflows
<1>1. CASE Check(e)
  <2>1. pc[e] # "off" /\ rows' = rows
    BY <1>1 DEF Check, tables
  <2>2. log[w].misses \in Nat
    BY <2>1, LocalsType
  <2>3. ASSUME HoldsOf(w) # {} PROVE TypeOK'
    <3> DEFINE v == [local[e] EXCEPT !.attempt = log[w].misses, !.acquired = TRUE]
    <3>1. v \in Locals(rows') /\ v.workflow \in Workflows
      BY <2>1, <2>2, LocalsType DEF Locals
    <3>2. pc' = [pc EXCEPT ![e] = "answer"] /\ local' = [local EXCEPT ![e] = v]
      BY <1>1, <2>3 DEF Check, Goto
    <3> HIDE DEF v
    <3>3. Moved
      BY <2>1, <3>1, <3>2, MoveType DEF Labels
    <3> QED BY <1>1, <2>1, <3>3 DEF TypeOK, Check, tables
  <2>4. ASSUME HoldsOf(w) = {} PROVE TypeOK'
    <3> DEFINE v == [local[e] EXCEPT !.attempt = log[w].misses]
    <3>1. v \in Locals(rows') /\ v.workflow \in Workflows
      BY <2>1, <2>2, LocalsType DEF Locals
    <3>2. pc' = [pc EXCEPT ![e] = "lock"] /\ local' = [local EXCEPT ![e] = v]
      BY <1>1, <2>4 DEF Check, Goto
    <3> HIDE DEF v
    <3>3. Moved
      BY <2>1, <3>1, <3>2, MoveType DEF Labels
    <3> QED BY <1>1, <2>1, <3>3 DEF TypeOK, Check, tables
  <2> QED BY <2>3, <2>4
<1>2. CASE LockPool(e)
  <2>1. pc[e] # "off" /\ rows' = rows /\ w \in Workflows
    BY <1>2, LocalsType DEF LockPool, tables
  <2>2. EffectiveCapacity \in Nat
    BY CapacityBound DEF TypeOK
  <2> DEFINE v == IF pool THEN [local[e] EXCEPT !.capacity = EffectiveCapacity]
                  ELSE [local[e] EXCEPT !.capacity = 0, !.batch = {}, !.acquired = FALSE]
  <2>3. v \in Locals(rows') /\ v.workflow \in Workflows
    BY <2>1, <2>2, LocalsType DEF Locals
  <2>4. PICK label \in {"count", "answer"} : pc' = [pc EXCEPT ![e] = label]
    BY <1>2 DEF LockPool, Answer, Goto
  <2>5. local' = [local EXCEPT ![e] = v]
    BY <1>2 DEF LockPool, Answer
  <2> HIDE DEF v
  <2>6. Moved
    BY <2>1, <2>3, <2>4, <2>5, MoveType DEF Labels
  <2> QED BY <1>2, <2>1, <2>6 DEF TypeOK, LockPool, tables
<1>3. CASE CountHolds(e)
  <2>1. pc[e] # "off" /\ rows' = rows
    BY <1>3 DEF CountHolds, tables
  <2> DEFINE v == [local[e] EXCEPT !.capacity = 0]
  <2>2. v \in Locals(rows') /\ v.workflow \in Workflows
    BY <2>1, LocalsType DEF Locals
  <2>3. PICK label \in {"insert", "scavenge"} : pc' = [pc EXCEPT ![e] = label]
    BY <1>3 DEF CountHolds, Goto
  <2>4. local' = [local EXCEPT ![e] = v]
    BY <1>3 DEF CountHolds
  <2> HIDE DEF v
  <2>5. Moved
    BY <2>1, <2>2, <2>3, <2>4, MoveType DEF Labels
  <2> QED BY <1>3, <2>1, <2>5 DEF TypeOK, CountHolds, tables
<1>4. CASE InsertHold(e)
  <2>1. pc[e] # "off" /\ w \in Workflows
    BY <1>4, LocalsType DEF InsertHold
  <2>2. rows' = rows \/ rows' = rows \union {NewRow(w)}
    BY <1>4 DEF InsertHold
  <2>3. NewRow(w) \in Workflows \X (Nat \ {0}) /\ IsFiniteSet(rows)
    BY <2>1, NewRowType DEF TypeOK
  <2>4. IsFiniteSet(rows \union {NewRow(w)})
    BY <2>3, FS_AddElement
  <2>5. /\ rows' \subseteq Workflows \X (Nat \ {0})
        /\ IsFiniteSet(rows') /\ rows \subseteq rows'
    BY <2>2, <2>3, <2>4 DEF TypeOK
  <2>6. PICK b \in BOOLEAN : Answer(e, b)
    BY <1>4 DEF InsertHold
  <2> DEFINE v == [local[e] EXCEPT !.capacity = 0, !.batch = {}, !.acquired = b]
  <2>7. v \in Locals(rows') /\ v.workflow \in Workflows
    BY <2>1, <2>5, LocalsType DEF Locals
  <2>8. pc' = [pc EXCEPT ![e] = "answer"] /\ local' = [local EXCEPT ![e] = v]
    BY <2>6 DEF Answer, Goto
  <2> HIDE DEF v
  <2>9. Moved
    BY <2>5, <2>7, <2>8, MoveType DEF Labels
  <2> QED BY <1>4, <2>5, <2>9 DEF TypeOK, InsertHold
<1>5. CASE ScavengeRead(e)
  <2>1. pc[e] # "off" /\ rows' = rows
    BY <1>5 DEF ScavengeRead, tables
  <2>2. PICK batch \in SUBSET Active : local' = [local EXCEPT ![e].batch = batch]
    BY <1>5 DEF ScavengeRead
  <2> DEFINE v == [local[e] EXCEPT !.batch = batch]
  <2>3. v \in Locals(rows') /\ v.workflow \in Workflows
    BY <2>1, LocalsType DEF Locals, Active
  <2>4. pc' = [pc EXCEPT ![e] = "scavenging"] /\ local' = [local EXCEPT ![e] = v]
    BY <1>5, <2>2 DEF ScavengeRead, Goto
  <2> HIDE DEF v
  <2>5. Moved
    BY <2>1, <2>3, <2>4, MoveType DEF Labels
  <2> QED BY <1>5, <2>1, <2>5 DEF TypeOK, ScavengeRead, tables
<1>6. CASE ScavengeCommit(e)
  <2>1. pc[e] # "off" /\ rows' = rows
    BY <1>6 DEF ScavengeCommit
  <2> DEFINE v == [local[e] EXCEPT !.capacity = 0, !.batch = {}, !.acquired = FALSE]
  <2>2. v \in Locals(rows') /\ v.workflow \in Workflows
    BY <2>1, LocalsType DEF Locals
  <2>3. pc' = [pc EXCEPT ![e] = "answer"] /\ local' = [local EXCEPT ![e] = v]
    BY <1>6 DEF ScavengeCommit, Answer, Goto
  <2> HIDE DEF v
  <2>4. Moved
    BY <2>1, <2>2, <2>3, MoveType DEF Labels
  <2>5. local[e].batch \subseteq rows
    BY <2>1, LocalsType DEF Locals
  <2>6. released' \subseteq rows'
    BY <1>6, <2>5 DEF ScavengeCommit, Scavengeable, TypeOK
  <2> QED BY <1>6, <2>1, <2>4, <2>6 DEF TypeOK, ScavengeCommit
<1>7. CASE RecordAnswer(e)
  <2>1. pc[e] # "off" /\ rows' = rows
    BY <1>7 DEF RecordAnswer, tables
  <2>2. /\ Idle \in Locals(rows') /\ w \in Workflows
        /\ [Idle EXCEPT !.workflow = w] \in Locals(rows')
        /\ [Idle EXCEPT !.workflow = w].workflow = w
    BY <2>1, LocalsType DEF Idle
  <2>3. \/ \E label \in {"work", "check"} :
             /\ pc' = [pc EXCEPT ![e] = label]
             /\ local' = [local EXCEPT ![e] = [Idle EXCEPT !.workflow = w]]
        \/ /\ pc' = [pc EXCEPT ![e] = "off"]
           /\ local' = [local EXCEPT ![e] = Idle]
    BY <1>7 DEF RecordAnswer, Goto, Leave
  <2>4. PICK label \in {"work", "check", "off"}, v \in Locals(rows') :
          /\ pc' = [pc EXCEPT ![e] = label]
          /\ local' = [local EXCEPT ![e] = v]
          /\ label # "off" => v.workflow \in Workflows
    BY <2>2, <2>3
  <2>5. Moved
    BY <2>1, <2>4, MoveType DEF Labels
  <2>6. log[w] \in [misses : Nat, stage : Stages]
    BY <2>1, LocalsType
  <2>7. log' \in [Workflows -> [misses : Nat, stage : Stages]]
    BY <1>7, <2>6 DEF RecordAnswer, TypeOK, Stages
  <2> QED BY <1>7, <2>1, <2>5, <2>7 DEF TypeOK, RecordAnswer, tables
<1>8. CASE TimeOut(e)
  <2>1. pc[e] # "off" /\ rows' = rows
    BY <1>8 DEF TimeOut, tables
  <2>2. w \in Workflows /\ Idle \in Locals(rows')
    BY <2>1, LocalsType
  <2>3. pc' = [pc EXCEPT ![e] = "off"] /\ local' = [local EXCEPT ![e] = Idle]
    BY <1>8 DEF TimeOut, Goto, Leave
  <2>4. Moved
    BY <2>1, <2>2, <2>3, MoveType DEF Labels
  <2> QED BY <1>8, <2>1, <2>2, <2>4 DEF TypeOK, TimeOut, tables
<1> QED BY <1>1, <1>2, <1>3, <1>4, <1>5, <1>6, <1>7, <1>8 DEF Acquire

\* So do the body, its release, and whatever becomes of an execution.
LEMMA TypeExecution ==
  ASSUME TypeOK, NEW e \in Executions, Body(e) \/ Recovery(e)
  PROVE  TypeOK'
<1> DEFINE w == local[e].workflow
           Moved == /\ pc' \in [Executions -> Labels]
                    /\ local' \in [Executions -> Locals(rows')]
                    /\ \A f \in Executions : pc'[f] # "off" => local'[f].workflow \in Workflows
<1>0. /\ pc[e] # "off" /\ rows' = rows
      /\ w \in Workflows /\ local[e] \in Locals(rows) /\ Idle \in Locals(rows)
      /\ log[w] \in [misses : Nat, stage : Stages]
  <2>1. pc[e] # "off" /\ rows' = rows
    BY DEF Body, Recovery, WorkDone, ReleaseTokens, RecordRelease, Finish, CatchUp,
           Abandon, Crash, CheckRaises, AttemptRaises, tables
  <2> QED BY <2>1, LocalsType
<1>1. ASSUME NEW label \in Labels, Goto(e, label), UNCHANGED local PROVE Moved
  <2>1. local' = [local EXCEPT ![e] = local[e]]
    BY <1>1 DEF TypeOK
  <2> QED BY <1>0, <1>1, <2>1, MoveType DEF Goto
<1>2. ASSUME Leave(e) PROVE Moved
  BY <1>0, <1>2, MoveType DEF Leave, Goto, Labels
<1>3. CASE WorkDone(e)
  <2>1. Moved
    BY <1>1, <1>3 DEF WorkDone, Labels
  <2>2. log' \in [Workflows -> [misses : Nat, stage : Stages]]
    BY <1>0, <1>3 DEF WorkDone, TypeOK, Stages
  <2> HIDE DEF w
  <2> QED BY <1>3, <2>1, <2>2 DEF TypeOK, WorkDone, tables
<1>4. CASE ReleaseTokens(e)
  <2>1. Moved
    BY <1>1, <1>4 DEF ReleaseTokens, Labels
  <2> QED BY <1>4, <2>1 DEF TypeOK, ReleaseTokens, HoldsOf, Active
<1>5. CASE RecordRelease(e)
  <2>1. Moved
    BY <1>1, <1>2, <1>5 DEF RecordRelease, Labels
  <2>2. log' \in [Workflows -> [misses : Nat, stage : Stages]]
    BY <1>0, <1>5 DEF RecordRelease, TypeOK, Stages
  <2> QED BY <1>5, <2>1, <2>2 DEF TypeOK, RecordRelease, tables
<1>6. CASE Finish(e)
  <2>1. Moved
    BY <1>2, <1>6 DEF Finish
  <2> QED BY <1>0, <1>6, <2>1 DEF TypeOK, Finish, tables
<1>7. CASE CatchUp(e)
  <2>1. Resume(w) \in Labels
    BY <1>0, ResumeLabel DEF Labels
  <2>2. Moved
    BY <1>1, <1>7, <2>1 DEF CatchUp
  <2> QED BY <1>7, <2>2 DEF TypeOK, CatchUp, tables
<1>8. CASE Abandon(e)
  <2>1. Moved
    BY <1>2, <1>8 DEF Abandon
  <2> QED BY <1>8, <2>1 DEF TypeOK, Abandon, tables
<1>9. CASE Crash(e)
  <2>1. Moved
    BY <1>2, <1>9 DEF Crash
  <2> QED BY <1>9, <2>1 DEF TypeOK, Crash, tables
<1>10. CASE CheckRaises(e)
  <2> DEFINE v == [local[e] EXCEPT !.attempt = log[w].misses, !.acquired = FALSE]
  <2>1. v \in Locals(rows') /\ v.workflow \in Workflows
    BY <1>0 DEF Locals
  <2>2. pc' = [pc EXCEPT ![e] = "answer"] /\ local' = [local EXCEPT ![e] = v]
    BY <1>10 DEF CheckRaises, Goto
  <2> HIDE DEF v
  <2>3. Moved
    BY <1>0, <2>1, <2>2, MoveType DEF Labels
  <2> QED BY <1>10, <2>3 DEF TypeOK, CheckRaises, tables
<1>11. CASE AttemptRaises(e)
  <2> DEFINE v == [local[e] EXCEPT !.capacity = 0, !.batch = {}, !.acquired = FALSE]
  <2>1. v \in Locals(rows') /\ v.workflow \in Workflows
    BY <1>0 DEF Locals
  <2>2. pc' = [pc EXCEPT ![e] = "answer"] /\ local' = [local EXCEPT ![e] = v]
    BY <1>11 DEF AttemptRaises, Answer, Goto
  <2> HIDE DEF v
  <2>3. Moved
    BY <1>0, <2>1, <2>2, MoveType DEF Labels
  <2> QED BY <1>11, <2>3 DEF TypeOK, AttemptRaises, tables
<1> QED BY <1>3, <1>4, <1>5, <1>6, <1>7, <1>8, <1>9, <1>10, <1>11 DEF Body, Recovery

\* So do workers, the clean-up, cancellation and the start of executions.
LEMMA TypeRest ==
  ASSUME TypeOK,
         \/ \E e \in Executions, w \in Workflows : Start(e, w)
         \/ \E w \in Workflows : Cancel(w)
         \/ EnsurePool
         \/ \E p \in Workers : WorkerStep(p)
         \/ Cleanup
         \/ UNCHANGED vars
  PROVE  TypeOK'
<1> USE DEF TypeOK, Locals, Labels, tables, control, Goto
<1>1. ASSUME NEW e \in Executions, NEW w \in Workflows, Start(e, w) PROVE TypeOK'
  <2>1. Resume(w) \in {"check", "work", "release", "finish"}
    BY ResumeLabel
  <2> QED BY <1>1, <2>1 DEF Start
<1>2. ASSUME NEW w \in Workflows, Cancel(w) PROVE TypeOK'
  BY <1>2 DEF Cancel
<1>3. CASE EnsurePool
  BY <1>3 DEF EnsurePool
<1>4. ASSUME NEW p \in Workers, WorkerStep(p) PROVE TypeOK'
  BY <1>4 DEF WorkerStep, RegisterWorker, Heartbeat, HeartbeatLapses, DeregisterWorker
<1>5. CASE Cleanup
  <2>1. CASE FindStaleHolds
    BY <2>1 DEF FindStaleHolds, Active
  <2>2. CASE CleanupRaises
    BY <2>2 DEF CleanupRaises
  <2>3. CASE CleanupStaleWorkers
    BY <2>3 DEF CleanupStaleWorkers
  <2>4. ASSUME NEW r \in rows, ReleaseStaleHold(r) PROVE TypeOK'
    BY <2>4 DEF ReleaseStaleHold, HoldsOf, Active
  <2>5. ASSUME NEW r \in rows, HoldAges(r) PROVE TypeOK'
    BY <2>5 DEF HoldAges
  <2> QED BY <1>5, <2>1, <2>2, <2>3, <2>4, <2>5 DEF Cleanup
<1>6. CASE UNCHANGED vars
  BY <1>6 DEF vars
<1> QED BY <1>1, <1>2, <1>3, <1>4, <1>5, <1>6

\* Every step keeps the types.
LEMMA TypeStep == TypeOK /\ [Next]_vars => TypeOK'
  BY TypeAcquire, TypeExecution, TypeRest DEF Next

\* TypeOK is an invariant.
THEOREM TokenTypeCorrect == Spec => []TypeOK
  BY TypeInit, TypeStep, PTL DEF Spec

-----------------------------------------------------------------------------
(* The pool is never overdrawn.                                              *)

\* Why the two reads and the insert of an acquisition are one: who is between
\* them has the row lock, and what it has checked still holds.
LockInv ==
  /\ \A e \in Executions : pc[e] \in {"count", "insert"} => lock = e
  /\ \A e \in Executions : pc[e] = "count" => local[e].capacity <= PeakCapacity
  /\ \A e \in Executions :
       pc[e] = "insert" => Held + Weight[local[e].workflow] <= PeakCapacity
  /\ CapacityRespected

\* With fewer active holds, fewer tokens are held.
LEMMA HeldShrinks ==
  ASSUME TypeOK, TypeOK', Active' \subseteq Active
  PROVE  Held \in Nat /\ Held' \in Nat /\ Held' <= Held
<1>1. /\ IsFiniteSet(Active) /\ IsFiniteSet(Active')
      /\ Active \subseteq Workflows \X (Nat \ {0})
      /\ Active' \subseteq Workflows \X (Nat \ {0})
  BY FS_Subset DEF TypeOK, Active
<1>2. /\ Cardinality(TokensOf(Active)) \in Nat
      /\ Cardinality(TokensOf(Active')) \in Nat
      /\ Cardinality(TokensOf(Active')) <= Cardinality(TokensOf(Active))
  BY <1>1, TokensFinite, FewerTokens
<1> QED BY <1>2 DEF Held, TokensOf

\* A step of one execution keeps LockInv, if it adds no hold, takes the lock
\* only when free or its own, and arrives at its next label with what LockInv
\* says of that label.
LEMMA LockKept ==
  ASSUME TypeOK, TypeOK', LockInv, Active' \subseteq Active, NEW e \in Executions,
         \A f \in Executions \ {e} : pc'[f] = pc[f] /\ local'[f] = local[f],
         lock' = lock \/ lock \in {e, None},
         pc'[e] \in {"count", "insert"} => lock' = e,
         pc'[e] = "count" => local'[e].capacity <= PeakCapacity,
         pc'[e] = "insert" => Held + Weight[local'[e].workflow] <= PeakCapacity
  PROVE  LockInv'
<1>1. Held \in Nat /\ Held' \in Nat /\ Held' <= Held /\ PeakCapacity \in Nat
  <2>1. live \subseteq Workers
    BY DEF TypeOK
  <2> QED BY <2>1, HeldShrinks, CapacityBound
<1>2. PeakCapacity' = PeakCapacity
  BY DEF PeakCapacity, Contributed
<1>3. \A f \in Executions : pc'[f] \in {"count", "insert"} => lock' = f
  BY TokenBucketAssumption DEF LockInv
<1>4. \A f \in Executions : pc'[f] = "count" => local'[f].capacity <= PeakCapacity
  BY DEF LockInv
<1>5. \A f \in Executions :
        pc'[f] = "insert" => Held' + Weight[local'[f].workflow] <= PeakCapacity
  <2> SUFFICES ASSUME NEW f \in Executions, pc'[f] = "insert"
               PROVE  Held' + Weight[local'[f].workflow] <= PeakCapacity
    OBVIOUS
  <2>1. local'[f].workflow \in Workflows
    BY DEF TypeOK
  <2>2. Weight[local'[f].workflow] \in Nat
    BY <2>1, TokenBucketAssumption
  <2>3. Held + Weight[local'[f].workflow] <= PeakCapacity
    BY DEF LockInv
  <2> QED BY <1>1, <2>2, <2>3
<1>6. Held' <= PeakCapacity
  BY <1>1 DEF LockInv, CapacityRespected
<1> QED BY <1>2, <1>3, <1>4, <1>5, <1>6 DEF LockInv, CapacityRespected

\* The insert adds at most what the lock holder found room for.
LEMMA LockInsert ==
  ASSUME TypeOK, TypeOK', LockInv, NEW e \in Executions, InsertHold(e)
  PROVE  LockInv'
<1> DEFINE w == local[e].workflow
<1>1. /\ w \in Workflows /\ pc[e] = "insert" /\ lock = e
      /\ Held + Weight[w] <= PeakCapacity
  BY DEF TypeOK, InsertHold, LockInv
<1>2. /\ IsFiniteSet(Active) /\ Active \subseteq Workflows \X (Nat \ {0})
      /\ NewRow(w) \in Workflows \X (Nat \ {0}) /\ NewRow(w)[1] = w
  BY <1>1, NewRowType, FS_Subset DEF TypeOK, Active
<1>3. Active' \subseteq Active \union {NewRow(w)}
  BY DEF InsertHold, Active
<1>4. IsFiniteSet(Active \union {NewRow(w)})
  BY <1>2, FS_AddElement
<1>5. Cardinality(TokensOf(Active')) <= Cardinality(TokensOf(Active \union {NewRow(w)}))
  BY <1>2, <1>3, <1>4, FewerTokens
<1>6. Cardinality(TokensOf(Active \union {NewRow(w)})) <= Held + Weight[w]
  BY <1>2, OneMoreHold DEF Held
<1>7. /\ Cardinality(TokensOf(Active')) \in Nat /\ Held \in Nat
      /\ Cardinality(TokensOf(Active \union {NewRow(w)})) \in Nat
  <2>1. IsFiniteSet(Active') /\ Active' \subseteq Workflows \X (Nat \ {0})
    BY <1>2, <1>3, <1>4, FS_Subset
  <2> QED BY <1>2, <1>4, <2>1, TokensFinite DEF Held
<1>8. Held' = Cardinality(TokensOf(Active'))
  BY DEF Held, TokensOf
<1>9. Weight[w] \in Nat /\ PeakCapacity \in Nat
  <2>1. live \subseteq Workers
    BY DEF TypeOK
  <2> QED BY <1>1, <2>1, CapacityBound, TokenBucketAssumption
<1>10. Held' <= PeakCapacity
  <2> HIDE DEF w
  <2> QED BY <1>1, <1>5, <1>6, <1>7, <1>8, <1>9
<1>11. PeakCapacity' = PeakCapacity
  BY DEF PeakCapacity, Contributed
<1>12. pc' = [pc EXCEPT ![e] = "answer"]
  BY DEF InsertHold, Answer, Goto
<1>13. \A f \in Executions : pc'[f] \notin {"count", "insert"}
  BY <1>1, <1>12 DEF TypeOK, LockInv
<1> QED BY <1>10, <1>11, <1>13 DEF LockInv, CapacityRespected

\* Every step keeps LockInv.
LEMMA LockStep == TypeOK /\ TypeOK' /\ LockInv /\ [Next]_vars => LockInv'
<1> SUFFICES ASSUME TypeOK, TypeOK', LockInv, [Next]_vars PROVE LockInv'
  OBVIOUS
<1>1. ASSUME NEW e \in Executions, Acquire(e) PROVE LockInv'
  <2>1. CASE Check(e) \/ ScavengeRead(e) \/ ScavengeCommit(e) \/ RecordAnswer(e) \/ TimeOut(e)
    <3>1. Active' \subseteq Active /\ lock' = lock
      BY <2>1 DEF Active, Check, ScavengeRead, ScavengeCommit, RecordAnswer, TimeOut, tables
    <3>2. \A f \in Executions \ {e} : pc'[f] = pc[f] /\ local'[f] = local[f]
      BY <2>1 DEF TypeOK, Check, ScavengeRead, ScavengeCommit, RecordAnswer, TimeOut,
                  Goto, Leave, Answer
    <3>3. pc'[e] \notin {"count", "insert"}
      BY <2>1 DEF TypeOK, Check, ScavengeRead, ScavengeCommit, RecordAnswer, TimeOut,
                  Goto, Leave, Answer
    <3> QED BY <3>1, <3>2, <3>3, LockKept
  <2>2. CASE LockPool(e)
    <3>1. Active' \subseteq Active /\ lock = None
      BY <2>2 DEF Active, LockPool, tables
    <3>2. \A f \in Executions \ {e} : pc'[f] = pc[f] /\ local'[f] = local[f]
      BY <2>2 DEF TypeOK, LockPool, Answer, Goto
    <3>3. EffectiveCapacity <= PeakCapacity
      BY CapacityBound DEF TypeOK
    <3>4. \/ pc'[e] = "count" /\ local'[e].capacity = EffectiveCapacity /\ lock' = e
          \/ pc'[e] = "answer"
      BY <2>2 DEF TypeOK, LockPool, Answer, Goto, Locals
    <3> QED BY <3>1, <3>2, <3>3, <3>4, LockKept
  <2>3. CASE CountHolds(e)
    <3>1. Active' \subseteq Active /\ lock = e /\ local[e].capacity <= PeakCapacity
      BY <2>3 DEF Active, CountHolds, LockInv, tables
    <3>2. \A f \in Executions \ {e} : pc'[f] = pc[f] /\ local'[f] = local[f]
      BY <2>3 DEF TypeOK, CountHolds, Goto
    <3>3. \/ pc'[e] = "insert" /\ lock' = lock /\ Fits(e)
          \/ pc'[e] = "scavenge"
      BY <2>3 DEF TypeOK, CountHolds, Goto
    <3>4. local'[e].workflow = local[e].workflow
      BY <2>3 DEF TypeOK, CountHolds
    <3>5. /\ local[e].capacity \in Nat /\ Held \in Nat /\ PeakCapacity \in Nat
          /\ Weight[local[e].workflow] \in Nat
      <4>1. pc[e] # "off" /\ live \subseteq Workers
        BY <2>3 DEF CountHolds, TypeOK
      <4>2. local[e].capacity \in Nat /\ local[e].workflow \in Workflows
        BY <4>1, LocalsType DEF Locals
      <4> QED BY <3>1, <4>1, <4>2, HeldShrinks, CapacityBound, TokenBucketAssumption
    <3>6. Fits(e) => Held + Weight[local[e].workflow] <= PeakCapacity
      BY <3>1, <3>5 DEF Fits
    <3> QED BY <3>1, <3>2, <3>3, <3>4, <3>6, LockKept
  <2>4. CASE InsertHold(e)
    BY <2>4, LockInsert
  <2> QED BY <1>1, <2>1, <2>2, <2>3, <2>4 DEF Acquire
<1>2. ASSUME NEW e \in Executions, Body(e) \/ Recovery(e) PROVE LockInv'
  <2>1. Active' \subseteq Active
    BY <1>2 DEF Active, Body, Recovery, WorkDone, ReleaseTokens, RecordRelease, Finish,
                CatchUp, Abandon, Crash, CheckRaises, AttemptRaises, tables
  <2>2. \A f \in Executions \ {e} : pc'[f] = pc[f] /\ local'[f] = local[f]
    BY <1>2 DEF TypeOK, Body, Recovery, WorkDone, ReleaseTokens, RecordRelease, Finish,
                CatchUp, Abandon, Crash, CheckRaises, AttemptRaises, Goto, Leave, Answer
  <2>3. lock' = lock \/ lock = e
    BY <1>2 DEF Body, Recovery, WorkDone, ReleaseTokens, RecordRelease, Finish,
                CatchUp, Abandon, Crash, CheckRaises, AttemptRaises
  <2>4. CatchUp(e) => Resume(local[e].workflow) \in {"check", "work", "release", "finish"}
    <3> SUFFICES ASSUME CatchUp(e) PROVE local[e].workflow \in Workflows
      BY ResumeLabel
    <3> QED BY DEF CatchUp, TypeOK
  <2>5. pc'[e] \notin {"count", "insert"}
    BY <1>2, <2>4 DEF TypeOK, Body, Recovery, WorkDone, ReleaseTokens, RecordRelease, Finish,
                CatchUp, Abandon, Crash, CheckRaises, AttemptRaises, Goto, Leave, Answer
  <2> QED BY <2>1, <2>2, <2>3, <2>5, LockKept
<1>3. ASSUME NEW e \in Executions, NEW w \in Workflows, Start(e, w) PROVE LockInv'
  <2>1. Active' \subseteq Active /\ lock' = lock
    BY <1>3 DEF Active, Start, tables
  <2>2. Resume(w) \in {"check", "work", "release", "finish"}
    BY ResumeLabel
  <2>3. \A f \in Executions \ {e} : pc'[f] = pc[f] /\ local'[f] = local[f]
    BY <1>3 DEF TypeOK, Start, Goto
  <2>4. pc'[e] \notin {"count", "insert"}
    BY <1>3, <2>2 DEF TypeOK, Start, Goto
  <2> QED BY <2>1, <2>3, <2>4, LockKept
<1>4. CASE \/ \E w \in Workflows : Cancel(w)
           \/ EnsurePool
           \/ \E p \in Workers : WorkerStep(p)
           \/ Cleanup
           \/ UNCHANGED vars
  <2>1. UNCHANGED <<lock, pc, local>> /\ Active' \subseteq Active
    BY <1>4 DEF Active, Cancel, EnsurePool, WorkerStep, RegisterWorker, Heartbeat,
                HeartbeatLapses, DeregisterWorker, Cleanup, FindStaleHolds, CleanupRaises,
                CleanupStaleWorkers, ReleaseStaleHold, HoldAges, tables, control, vars
  <2>2. CASE Executions = {}
    <3>1. Held' <= Held /\ Held \in Nat /\ Held' \in Nat
      BY <2>1, HeldShrinks
    <3>2. PeakCapacity' = PeakCapacity /\ PeakCapacity \in Nat
      <4>1. live \subseteq Workers
        BY DEF TypeOK
      <4> QED BY <4>1, CapacityBound DEF PeakCapacity, Contributed
    <3> QED BY <2>2, <3>1, <3>2 DEF LockInv, CapacityRespected
  <2>3. CASE Executions # {}
    <3>1. PICK e \in Executions : TRUE
      BY <2>3
    <3>2. /\ pc'[e] = pc[e] /\ local'[e] = local[e] /\ lock' = lock
          /\ \A f \in Executions \ {e} : pc'[f] = pc[f] /\ local'[f] = local[f]
      BY <2>1
    <3>3. /\ pc[e] \in {"count", "insert"} => lock = e
          /\ pc[e] = "count" => local[e].capacity <= PeakCapacity
          /\ pc[e] = "insert" => Held + Weight[local[e].workflow] <= PeakCapacity
      BY DEF LockInv
    <3> QED BY <2>1, <3>1, <3>2, <3>3, LockKept
  <2> QED BY <2>2, <2>3
<1> QED BY <1>1, <1>2, <1>3, <1>4 DEF Next

\* The tokens held never exceed what the pool is worth at its best.
THEOREM TokenCapacityRespected == Spec => []CapacityRespected
<1>1. Init => TypeOK /\ LockInv
  <2> SUFFICES ASSUME Init PROVE LockInv
    BY TypeInit
  <2>1. Active = {} /\ live = {} /\ TypeOK
    BY TypeInit DEF Init, Active
  <2>2. TokensOf({}) = {}
    BY DEF TokensOf
  <2>3. Held = 0
    BY <2>1, <2>2, FS_EmptySet DEF Held
  <2>4. PeakCapacity \in Nat
    BY <2>1, CapacityBound
  <2> QED BY <2>3, <2>4 DEF Init, LockInv, CapacityRespected
<1>2. (TypeOK /\ LockInv) /\ [Next]_vars => (TypeOK /\ LockInv)'
  BY TypeStep, LockStep
<1>3. LockInv => CapacityRespected
  BY DEF LockInv
<1> QED BY <1>1, <1>2, <1>3, PTL DEF Spec

-----------------------------------------------------------------------------
(* A workflow is charged once.                                               *)

\* Every step keeps OneActiveHold: only InsertHold adds an active hold, and
\* the index lets it in only where there is none.
LEMMA OneHoldStep == TypeOK /\ OneActiveHold /\ [Next]_vars => OneActiveHold'
<1> SUFFICES ASSUME TypeOK, OneActiveHold, [Next]_vars PROVE OneActiveHold'
  OBVIOUS
<1>1. ASSUME NEW e \in Executions, InsertHold(e) PROVE OneActiveHold'
  <2> DEFINE w == local[e].workflow
  <2>1. w \in Workflows
    BY <1>1 DEF TypeOK, InsertHold
  <2>2. NewRow(w)[1] = w
    BY <2>1, NewRowType
  <2>3. CASE IndexRejects(w)
    BY <1>1, <2>3 DEF InsertHold, OneActiveHold, Active
  <2>4. CASE ~IndexRejects(w)
    <3>1. Active' \subseteq Active \union {NewRow(w)}
      BY <1>1 DEF InsertHold, Active
    <3>2. \A r \in Active : r[1] # w
      BY <2>4 DEF IndexRejects, HoldsOf
    <3> QED BY <2>2, <3>1, <3>2 DEF OneActiveHold
  <2> QED BY <2>3, <2>4
<1>2. CASE Active' \subseteq Active
  BY <1>2 DEF OneActiveHold
<1>3. ASSUME NEW e \in Executions, Acquire(e) PROVE OneActiveHold'
  BY <1>1, <1>2, <1>3 DEF Active, Acquire, Check, LockPool, CountHolds, ScavengeRead,
                ScavengeCommit, RecordAnswer, TimeOut, tables
<1>4. ASSUME NEW e \in Executions, Body(e) \/ Recovery(e) PROVE OneActiveHold'
  BY <1>2, <1>4 DEF Active, Body, Recovery, WorkDone, ReleaseTokens, RecordRelease, Finish,
                CatchUp, Abandon, Crash, CheckRaises, AttemptRaises, tables
<1>5. CASE \/ \E e \in Executions, w \in Workflows : Start(e, w)
           \/ \E w \in Workflows : Cancel(w)
           \/ EnsurePool
           \/ \E p \in Workers : WorkerStep(p)
           \/ Cleanup
           \/ UNCHANGED vars
  BY <1>2, <1>5 DEF Active, Start, Cancel, EnsurePool, WorkerStep, RegisterWorker, Heartbeat,
                HeartbeatLapses, DeregisterWorker, Cleanup, FindStaleHolds, CleanupRaises,
                CleanupStaleWorkers, ReleaseStaleHold, HoldAges, tables, vars
<1> QED BY <1>3, <1>4, <1>5 DEF Next

\* A workflow has at most one active hold.
THEOREM TokenOneActiveHold == Spec => []OneActiveHold
<1>1. Init => OneActiveHold
  BY DEF Init, OneActiveHold, Active
<1>2. TypeOK /\ OneActiveHold /\ TypeOK' /\ [Next]_vars => OneActiveHold'
  BY OneHoldStep
<1> QED BY <1>1, <1>2, TokenTypeCorrect, PTL DEF Spec

-----------------------------------------------------------------------------
(* A working workflow has its tokens.                                        *)

\* The workflow has a hold, or had one until the hold was too old.
Backed(w) == \E r \in rows : r[1] = w /\ (r \notin released \/ r \in old)

\* An answer that is on its way to the log is as good as a recorded one; the
\* clean-up has only found holds that were old; serials leave no number out, so
\* that a new row is not a released one.
BackedInv ==
  /\ WorkIsBacked
  /\ \A e \in Executions, w \in Workflows \ ended :
       pc[e] = "answer" /\ local[e].acquired /\ local[e].workflow = w
         /\ log[w].stage = "waiting" => Backed(w)
  /\ found \subseteq old
  /\ \A r \in rows : r[2] <= Cardinality(RowsOf(r[1]))

\* A step keeps BackedInv, if it unbacks only workflows that are past their
\* work, and answers or records "acquired" only for backed ones.
LEMMA BackedKept ==
  ASSUME TypeOK, TypeOK', BackedInv, rows' = rows, ended \subseteq ended', found' \subseteq old',
         \A w \in Workflows \ ended :
           log'[w].stage \in {"waiting", "working"} /\ Backed(w) => Backed(w)',
         \A w \in Workflows \ ended :
           log'[w].stage = "working" => log[w].stage = "working" \/ Backed(w),
         \A w \in Workflows : log'[w].stage = "waiting" => log[w].stage = "waiting",
         \A f \in Executions, w \in Workflows \ ended :
           pc'[f] = "answer" /\ local'[f].acquired /\ local'[f].workflow = w
             => \/ pc[f] = "answer" /\ local[f].acquired /\ local[f].workflow = w
                \/ Backed(w)
  PROVE  BackedInv'
<1>1. WorkIsBacked'
  <2> SUFFICES ASSUME NEW w \in Workflows \ ended', log'[w].stage = "working"
               PROVE  Backed(w)'
    BY DEF WorkIsBacked, Backed
  <2>1. Backed(w)
    BY DEF BackedInv, WorkIsBacked, Backed
  <2> QED BY <2>1
<1>2. ASSUME NEW e \in Executions, NEW w \in Workflows \ ended',
             pc'[e] = "answer", local'[e].acquired, local'[e].workflow = w,
             log'[w].stage = "waiting"
      PROVE  Backed(w)'
  <2>1. Backed(w)
    BY <1>2 DEF BackedInv
  <2> QED BY <1>2, <2>1
<1>3. \A r \in rows' : r[2] <= Cardinality(RowsOf(r[1]))'
  BY DEF BackedInv, RowsOf
<1> QED BY <1>1, <1>2, <1>3 DEF BackedInv

\* What InsertHold leaves behind is a hold of its workflow.
LEMMA InsertBacks ==
  ASSUME TypeOK, TypeOK', BackedInv, NEW e \in Executions, InsertHold(e)
  PROVE  BackedInv'
<1> DEFINE w == local[e].workflow
<1>1. w \in Workflows
  BY DEF TypeOK, InsertHold
<1>2. /\ NewRow(w) \in Workflows \X (Nat \ {0}) /\ NewRow(w)[1] = w
      /\ IsFiniteSet(RowsOf(w)) /\ Cardinality(RowsOf(w)) \in Nat
      /\ NewRow(w)[2] = Cardinality(RowsOf(w)) + 1
  BY <1>1, NewRowType DEF NewRow
<1>3. NewRow(w) \notin rows
  <2> SUFFICES ASSUME NewRow(w) \in rows PROVE FALSE
    OBVIOUS
  <2>1. NewRow(w)[2] <= Cardinality(RowsOf(w))
    BY <1>2 DEF BackedInv
  <2> HIDE DEF w
  <2> QED BY <1>2, <2>1
<1>4. /\ rows \subseteq rows' /\ UNCHANGED <<released, old, ended, log, found>>
      /\ rows' = IF IndexRejects(w) THEN rows ELSE rows \union {NewRow(w)}
  BY DEF InsertHold
<1>5. \E r \in rows' : r[1] = w /\ r \notin released'
  <2>1. CASE IndexRejects(w)
    BY <1>4, <2>1 DEF IndexRejects, HoldsOf, Active
  <2>2. CASE ~IndexRejects(w)
    BY <1>2, <1>3, <1>4, <2>2 DEF TypeOK
  <2> QED BY <2>1, <2>2
<1>6. \A x \in Workflows : Backed(x) \/ x = w => Backed(x)'
  BY <1>4, <1>5 DEF Backed
<1>7. WorkIsBacked'
  <2> SUFFICES ASSUME NEW x \in Workflows \ ended', log'[x].stage = "working"
               PROVE  Backed(x)'
    BY DEF WorkIsBacked, Backed
  <2>1. Backed(x)
    BY <1>4 DEF BackedInv, WorkIsBacked, Backed
  <2> QED BY <1>6, <2>1
<1>8. ASSUME NEW f \in Executions, NEW x \in Workflows \ ended',
             pc'[f] = "answer", local'[f].acquired, local'[f].workflow = x,
             log'[x].stage = "waiting"
      PROVE  Backed(x)'
  <2>1. CASE f = e
    <3>1. PICK b \in BOOLEAN : Answer(e, b)
      BY DEF InsertHold
    <3>2. local'[e].workflow = local[e].workflow
      BY <3>1 DEF Answer, TypeOK, Locals
    <3> QED BY <1>6, <1>8, <2>1, <3>2
  <2>2. CASE f # e
    <3>1. pc'[f] = pc[f] /\ local'[f] = local[f]
      BY <2>2 DEF InsertHold, Answer, Goto, TypeOK
    <3>2. Backed(x)
      BY <1>4, <1>8, <3>1 DEF BackedInv
    <3> QED BY <1>6, <3>2
  <2> QED BY <2>1, <2>2
<1>9. \A r \in rows' : r[2] <= Cardinality(RowsOf(r[1]))'
  <2> SUFFICES ASSUME NEW r \in rows' PROVE r[2] <= Cardinality(RowsOf(r[1])')
    OBVIOUS
  <2>1. CASE rows' = rows
    BY <2>1 DEF BackedInv, RowsOf
  <2>2. CASE rows' = rows \union {NewRow(w)}
    <3>1. CASE r[1] = w
      <4>1. RowsOf(r[1])' = RowsOf(w) \union {NewRow(w)}
        BY <1>2, <2>2, <3>1 DEF RowsOf
      <4>2. Cardinality(RowsOf(r[1])') = Cardinality(RowsOf(w)) + 1
        BY <1>2, <1>3, <4>1, FS_AddElement DEF RowsOf
      <4>3. r = NewRow(w) \/ r[2] <= Cardinality(RowsOf(w))
        BY <2>2, <3>1 DEF BackedInv
      <4>4. r[2] \in Nat
        BY DEF TypeOK
      <4> HIDE DEF w
      <4> QED BY <1>2, <4>2, <4>3, <4>4
    <3>2. CASE r[1] # w
      <4>1. r \in rows /\ RowsOf(r[1])' = RowsOf(r[1])
        BY <1>2, <2>2, <3>2 DEF RowsOf
      <4> QED BY <4>1 DEF BackedInv
    <3> QED BY <3>1, <3>2
  <2> QED BY <1>4, <2>1, <2>2
<1>10. found' \subseteq old'
  BY <1>4 DEF BackedInv
<1> QED BY <1>7, <1>8, <1>9, <1>10 DEF BackedInv

\* Every other step of an acquisition keeps BackedInv.
LEMMA AcquireBacks ==
  ASSUME TypeOK, TypeOK', BackedInv, NEW e \in Executions, Acquire(e)
  PROVE  BackedInv'
<1> DEFINE w == local[e].workflow
<1>1. CASE InsertHold(e)
  BY <1>1, InsertBacks
<1>2. CASE Check(e)
  <2>1. UNCHANGED <<rows, released, old, ended, log, found>>
    BY <1>2 DEF Check, tables
  <2>2. \A x \in Workflows : Backed(x) => Backed(x)'
    BY <2>1 DEF Backed
  <2>3. ASSUME NEW f \in Executions, NEW x \in Workflows \ ended,
               pc'[f] = "answer", local'[f].acquired, local'[f].workflow = x
        PROVE  \/ pc[f] = "answer" /\ local[f].acquired /\ local[f].workflow = x
               \/ Backed(x)
    <3>1. CASE f = e
      <4>1. HoldsOf(w) # {}
        BY <1>2, <2>3, <3>1 DEF Check, Goto, TypeOK
      <4>2. local'[e].workflow = w
        BY <1>2, <4>1 DEF Check, TypeOK, Locals
      <4> QED BY <2>3, <3>1, <4>1, <4>2 DEF HoldsOf, Active, Backed
    <3>2. CASE f # e
      BY <1>2, <2>3, <3>2 DEF Check, Goto, TypeOK
    <3> QED BY <3>1, <3>2
  <2> QED BY <2>1, <2>2, <2>3, BackedKept DEF BackedInv
<1>3. CASE LockPool(e) \/ CountHolds(e) \/ ScavengeRead(e) \/ TimeOut(e)
  <2>1. UNCHANGED <<rows, released, old, log, found>> /\ ended \subseteq ended'
    BY <1>3 DEF LockPool, CountHolds, ScavengeRead, TimeOut, tables
  <2>2. \A x \in Workflows : Backed(x) => Backed(x)'
    BY <2>1 DEF Backed
  <2>3. \A f \in Executions : pc'[f] = "answer" /\ local'[f].acquired
          => pc[f] = "answer" /\ local[f] = local'[f]
    <3>1. \A f \in Executions \ {e} : pc'[f] = pc[f] /\ local'[f] = local[f]
      BY <1>3 DEF TypeOK, LockPool, CountHolds, ScavengeRead, TimeOut, Answer, Goto, Leave
    <3>2. pc'[e] # "answer" \/ Answer(e, FALSE)
      BY <1>3 DEF TypeOK, LockPool, CountHolds, ScavengeRead, TimeOut, Goto, Leave
    <3>3. Answer(e, FALSE) => ~local'[e].acquired
      BY DEF Answer, TypeOK, Locals
    <3> QED BY <3>1, <3>2, <3>3
  <2> QED BY <2>1, <2>2, <2>3, BackedKept DEF BackedInv
<1>4. CASE ScavengeCommit(e)
  <2>1. UNCHANGED <<rows, old, ended, log, found>>
    BY <1>4 DEF ScavengeCommit
  <2>2. \A x \in Workflows \ ended : Backed(x) => Backed(x)'
    BY <1>4, <2>1 DEF ScavengeCommit, Scavengeable, Backed
  <2>3. \A f \in Executions : pc'[f] = "answer" /\ local'[f].acquired
          => pc[f] = "answer" /\ local[f] = local'[f]
    BY <1>4 DEF TypeOK, ScavengeCommit, Answer, Goto, Locals
  <2> QED BY <2>1, <2>2, <2>3, BackedKept DEF BackedInv
<1>5. CASE RecordAnswer(e)
  <2>1. UNCHANGED <<rows, released, old, ended, found>>
    BY <1>5 DEF RecordAnswer, tables
  <2>2. \A x \in Workflows : Backed(x) => Backed(x)'
    BY <2>1 DEF Backed
  <2>3. \A f \in Executions : pc'[f] = "answer" /\ local'[f].acquired
          => pc[f] = "answer" /\ local[f] = local'[f]
    BY <1>5 DEF TypeOK, RecordAnswer, Goto, Leave, Locals, Idle
  <2>4. w \in Workflows /\ pc[e] = "answer"
    BY <1>5 DEF TypeOK, RecordAnswer
  <2>5. \/ log' = log
        \/ /\ log[w].stage = "waiting" /\ local[e].acquired
           /\ log' = [log EXCEPT ![w].stage = "working"]
        \/ log' = [log EXCEPT ![w].misses = @ + 1]
    BY <1>5 DEF RecordAnswer
  <2>6. \A x \in Workflows \ ended :
          log'[x].stage = "working" => log[x].stage = "working" \/ Backed(x)
    BY <2>4, <2>5 DEF TypeOK, BackedInv
  <2>7. \A x \in Workflows : log'[x].stage = "waiting" => log[x].stage = "waiting"
    BY <2>4, <2>5 DEF TypeOK
  <2> QED BY <2>1, <2>2, <2>3, <2>6, <2>7, BackedKept DEF BackedInv
<1> QED BY <1>1, <1>2, <1>3, <1>4, <1>5 DEF Acquire

\* The body, its release and the ways an execution ends keep BackedInv.
LEMMA ExecutionBacks ==
  ASSUME TypeOK, TypeOK', BackedInv, NEW e \in Executions, Body(e) \/ Recovery(e)
  PROVE  BackedInv'
<1> DEFINE w == local[e].workflow
<1>1. UNCHANGED <<rows, old, found>> /\ ended \subseteq ended'
  BY DEF Body, Recovery, WorkDone, ReleaseTokens, RecordRelease, Finish, CatchUp,
         Abandon, Crash, CheckRaises, AttemptRaises, tables
<1>2. w \in Workflows
  BY DEF TypeOK, Body, Recovery, WorkDone, ReleaseTokens, RecordRelease, Finish, CatchUp,
         Abandon, Crash, CheckRaises, AttemptRaises
<1>3. Resume(w) # "answer"
  BY <1>2, ResumeLabel
<1>4. \A f \in Executions : pc'[f] = "answer" /\ local'[f].acquired
        => pc[f] = "answer" /\ local[f] = local'[f]
  <2>1. \A f \in Executions \ {e} : pc'[f] = pc[f] /\ local'[f] = local[f]
    BY DEF TypeOK, Body, Recovery, WorkDone, ReleaseTokens, RecordRelease, Finish, CatchUp,
           Abandon, Crash, CheckRaises, AttemptRaises, Goto, Leave, Answer
  <2>2. CASE CheckRaises(e)
    <3>1. ~local'[e].acquired
      BY <2>2 DEF CheckRaises, TypeOK, Locals
    <3> QED BY <2>1, <3>1
  <2>3. CASE AttemptRaises(e)
    <3>1. ~local'[e].acquired
      BY <2>3 DEF AttemptRaises, Answer, TypeOK, Locals
    <3> QED BY <2>1, <3>1
  <2>4. CASE Body(e) \/ CatchUp(e) \/ Abandon(e) \/ Crash(e)
    <3>1. pc'[e] # "answer"
      BY <1>3, <2>4 DEF TypeOK, Body, WorkDone, ReleaseTokens, RecordRelease, Finish, CatchUp,
                        Abandon, Crash, Goto, Leave
    <3> QED BY <2>1, <3>1
  <2> QED BY <2>2, <2>3, <2>4 DEF Recovery
<1>5. \A x \in Workflows : \/ log'[x] = log[x]
                           \/ log'[x].stage \in {"releasing", "done"}
  <2>1. \/ log' = log
        \/ \E stage \in {"releasing", "done"} : log' = [log EXCEPT ![w].stage = stage]
    BY DEF Body, Recovery, WorkDone, ReleaseTokens, RecordRelease, Finish, CatchUp,
           Abandon, Crash, CheckRaises, AttemptRaises
  <2> QED BY <1>2, <2>1 DEF TypeOK
<1>6. \/ released' = released
      \/ /\ released' = released \union HoldsOf(w)
         /\ log' = log /\ log[w].stage = "releasing"
  BY DEF Body, Recovery, WorkDone, ReleaseTokens, RecordRelease, Finish, CatchUp,
         Abandon, Crash, CheckRaises, AttemptRaises, tables
<1>7. \A x \in Workflows :
        log'[x].stage \in {"waiting", "working"} /\ Backed(x) => Backed(x)'
  BY <1>1, <1>6 DEF Backed, HoldsOf
<1> QED BY <1>1, <1>4, <1>5, <1>7, BackedKept DEF BackedInv

\* Every step keeps BackedInv.
LEMMA BackedStep == TypeOK /\ TypeOK' /\ BackedInv /\ [Next]_vars => BackedInv'
<1> SUFFICES ASSUME TypeOK, TypeOK', BackedInv, [Next]_vars PROVE BackedInv'
  OBVIOUS
<1>1. ASSUME NEW e \in Executions, NEW w \in Workflows, Start(e, w) PROVE BackedInv'
  <2>1. UNCHANGED <<rows, released, old, ended, log, found>>
    BY <1>1 DEF Start, tables
  <2>2. \A x \in Workflows : Backed(x) => Backed(x)'
    BY <2>1 DEF Backed
  <2>3. Resume(w) # "answer"
    BY ResumeLabel
  <2>4. \A f \in Executions : pc'[f] = "answer" => pc[f] = "answer" /\ local[f] = local'[f]
    BY <1>1, <2>3 DEF TypeOK, Start, Goto
  <2> QED BY <2>1, <2>2, <2>4, BackedKept DEF BackedInv
<1>2. CASE \/ \E w \in Workflows : Cancel(w)
           \/ EnsurePool
           \/ \E p \in Workers : WorkerStep(p)
           \/ UNCHANGED vars
  <2>1. UNCHANGED <<rows, released, old, log, found, pc, local>> /\ ended \subseteq ended'
    BY <1>2 DEF Cancel, EnsurePool, WorkerStep, RegisterWorker, Heartbeat, HeartbeatLapses,
                DeregisterWorker, tables, control, vars
  <2>2. \A x \in Workflows : Backed(x) => Backed(x)'
    BY <2>1 DEF Backed
  <2> QED BY <2>1, <2>2, BackedKept DEF BackedInv
<1>3. CASE Cleanup
  <2>1. UNCHANGED <<rows, ended, log, pc, local>>
    BY <1>3 DEF Cleanup, FindStaleHolds, CleanupRaises, CleanupStaleWorkers,
                ReleaseStaleHold, HoldAges, tables, control
  <2>2. found' \subseteq old' /\ old \subseteq old'
    BY <1>3 DEF Cleanup, FindStaleHolds, CleanupRaises, CleanupStaleWorkers,
                ReleaseStaleHold, HoldAges, tables, control, BackedInv
  <2>3. \/ released' = released
        \/ \E r \in found : released' = released \union HoldsOf(r[1])
    BY <1>3 DEF Cleanup, FindStaleHolds, CleanupRaises, CleanupStaleWorkers,
                ReleaseStaleHold, HoldAges, tables
  <2>4. \A x \in Workflows : Backed(x) => Backed(x)'
    BY <2>1, <2>2, <2>3 DEF Backed, BackedInv, HoldsOf, TypeOK
  <2> QED BY <2>1, <2>2, <2>4, BackedKept DEF BackedInv
<1> QED BY <1>1, <1>2, <1>3, AcquireBacks, ExecutionBacks DEF Next

\* A workflow recorded as working has its tokens, or had them until they were
\* too old: no scavenger, no other execution's release takes them.
THEOREM TokenWorkIsBacked == Spec => []WorkIsBacked
<1>1. Init => TypeOK /\ BackedInv
  <2> SUFFICES ASSUME Init PROVE BackedInv
    BY TypeInit
  <2> QED BY DEF Init, BackedInv, WorkIsBacked
<1>2. (TypeOK /\ BackedInv) /\ [Next]_vars => (TypeOK /\ BackedInv)'
  BY TypeStep, BackedStep
<1>3. BackedInv => WorkIsBacked
  BY DEF BackedInv
<1> QED BY <1>1, <1>2, <1>3, PTL DEF Spec
=============================================================================

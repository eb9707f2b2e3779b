-------------------------- MODULE SchedulerProofs --------------------------
(***************************************************************************)
(* Theorems about Scheduler, for any finite set of schedules, any          *)
(* processes and cancelling turns, any cron period, grace and batch size,  *)
(* and any number of crashes.                                              *)
(***************************************************************************)
EXTENDS Scheduler, FiniteSetTheorems, TLAPS

Parameters ==
    /\ IsFiniteSet(Jobs)
    /\ None \notin Loops
    /\ Period \in Nat \ {0}

-----------------------------------------------------------------------------
(* The invariant.                                                          *)

Ticks == [pc : {"asleep", "claim", "fire"}, at : Nat, batch : SUBSET Jobs,
          fires : SUBSET (Jobs \X Nat), events : BOOLEAN]
Claims == [job : Jobs, for : Nat, at : Nat]

Types ==
    /\ rows \in [Jobs -> Rows]
    /\ lock \in [Jobs -> Loops \cup {None}]
    /\ loop \in [Loops -> Ticks]
    /\ cancel \in [Callers ->
                       [pc : {"idle", "write"}, job : Jobs \cup {None}]]
    /\ \A c \in Callers : cancel[c].pc = "write" => cancel[c].job \in Jobs
    /\ claims \in Seq(Claims)
    /\ now \in Nat

\* A row between select and commit is locked, and as it was selected.
BatchIsHeld ==
    \A l \in Loops : loop[l].pc = "claim" =>
        \A j \in loop[l].batch :
            /\ lock[j] = l
            /\ rows[j].status = "active"
            /\ rows[j].next <= loop[l].at

\* A claim leaves its row finished, or due only after the claim.
RowIsPast(c) ==
    /\ c.for <= c.at
    /\ rows[c.job].status # "absent"
    /\ rows[c.job].kind = "one_shot" => rows[c.job].status # "active"
    /\ rows[c.job].kind = "recurring" => c.at < rows[c.job].next

ClaimsArePast == \A i \in DOMAIN claims : RowIsPast(claims[i])

\* What a process has still to enqueue was claimed, by no other process.
FiresAreOwn ==
    /\ \A l \in Loops :
          /\ loop[l].pc # "fire" => loop[l].fires = {}
          /\ \A f \in loop[l].fires :
                \E i \in DOMAIN claims : f = Occurrence(claims[i])
    /\ \A l, k \in Loops :
          l # k => loop[l].fires \cap loop[k].fires = {}

IInv ==
    /\ Types /\ BatchIsHeld /\ ClaimsArePast /\ FiresAreOwn
    /\ BacklogCoalesces

LEMMA InitIInv == Init => IInv
<1> SUFFICES ASSUME Init PROVE IInv
    OBVIOUS
<1>1. claims = <<>> /\ DOMAIN claims = {}
    BY DEF Init
<1>2. Types
    BY <1>1 DEF Init, Types, Row, Rows, Statuses, Asleep, Tick, Ticks, NoCall,
                Claims
<1>3. BatchIsHeld /\ FiresAreOwn
    BY DEF Init, BatchIsHeld, FiresAreOwn, Asleep, Tick
<1> QED BY <1>1, <1>2, <1>3 DEF IInv, ClaimsArePast, BacklogCoalesces

-----------------------------------------------------------------------------
(* The batch of claims a commit appends.                                   *)

\* The next occurrence is later.
LEMMA CronAdvances ==
    ASSUME Parameters, NEW t \in Nat
    PROVE  NextCron(t) \in Nat /\ t < NextCron(t)
<1>1. Period \in Nat \ {0}
    BY DEF Parameters
<1>2. t < (t \div Period + 1) * Period
    BY <1>1, SMTT(20)
<1>3. t \div Period \in Nat
    BY <1>1, SMTT(20)
<1>4. (t \div Period + 1) * Period \in Nat
    BY <1>1, <1>3, SMTT(20)
<1> QED BY <1>2, <1>4 DEF NextCron

\* Ordered lists each element of a finite set once.
LEMMA OrderedLists ==
    ASSUME NEW S, IsFiniteSet(S)
    PROVE  /\ Ordered(S) \in Seq(S)
           /\ \A c \in S : \E i \in DOMAIN Ordered(S) : Ordered(S)[i] = c
           /\ \A i, k \in DOMAIN Ordered(S) :
                 Ordered(S)[i] = Ordered(S)[k] => i = k
<1> DEFINE n == Cardinality(S)
           s == Ordered(S)
           Lists(f) == \A c \in S : \E i \in DOMAIN f : f[i] = c
<1>1. n \in Nat /\ ExistsBijection(1..n, S)
    BY FS_CardinalityType
<1>2. PICK b : b \in Bijection(1..n, S)
    BY <1>1 DEF ExistsBijection
<1>3. b \in [1..n -> S] /\ Lists(b)
    BY <1>2 DEF Bijection, Surjection, Injection
<1>4. s \in [1..n -> S] /\ Lists(s)
    BY <1>3 DEF Ordered
<1>5. s \in Surjection(1..n, S)
    BY <1>4 DEF Surjection
<1>6. IsFiniteSet(1..n) /\ Cardinality(1..n) = n
    BY <1>1, FS_CountingElements, FS_Interval
<1>7. s \in Injection(1..n, S)
    BY <1>5, <1>6, FS_SurjSameCardinalityImpliesInj
<1>8. s \in Seq(S)
    BY <1>1, <1>4
<1>9. \A i, k \in 1..n : s[i] = s[k] => i = k
    BY <1>4, <1>7 DEF Injection, IsInjective
<1>10. DOMAIN s = 1..n
    BY <1>4
<1> QED BY <1>4, <1>8, <1>9, <1>10

-----------------------------------------------------------------------------
(* The steps.                                                              *)

LEMMA CreateStep ==
    ASSUME Parameters, IInv, NEW j \in Jobs,
           CreateOneShot(j) \/ CreateRecurring(j)
    PROVE  IInv'
<1> USE DEF IInv, Types, history
<1>0. \A kind \in {"one_shot", "recurring"}, t \in Nat :
         Row("active", kind, t) \in Rows
    BY DEF Row, Rows, Statuses
<1>1. PICK r \in Rows : /\ rows' = [rows EXCEPT ![j] = r]
                        /\ rows[j].status = "absent"
  <2>1. CASE CreateOneShot(j)
    <3>1. PICK t \in {0, now + 1} :
             rows' = [rows EXCEPT ![j] = Row("active", "one_shot", t)]
        BY <2>1 DEF CreateOneShot
    <3>2. Row("active", "one_shot", t) \in Rows
        BY <1>0
    <3> QED BY <2>1, <3>1, <3>2 DEF CreateOneShot
  <2>2. CASE CreateRecurring(j)
      BY <1>0, <2>2, CronAdvances DEF CreateRecurring
  <2> QED BY <2>1, <2>2
<1>2. UNCHANGED <<lock, loop, cancel, claims, now>>
    BY DEF CreateOneShot, CreateRecurring
<1>3. Types' /\ FiresAreOwn' /\ BacklogCoalesces'
    BY <1>1, <1>2 DEF FiresAreOwn, BacklogCoalesces
<1>4. BatchIsHeld'
    BY <1>1, <1>2 DEF BatchIsHeld, Ticks
<1>5. ClaimsArePast'
  <2> SUFFICES ASSUME NEW i \in DOMAIN claims PROVE RowIsPast(claims[i])'
      BY <1>2 DEF ClaimsArePast
  <2>1. claims[i] \in Claims /\ RowIsPast(claims[i])
      BY DEF ClaimsArePast
  <2> QED BY <1>1, <1>2, <2>1 DEF RowIsPast, Claims
<1> QED BY <1>3, <1>4, <1>5

LEMMA CancelStep ==
    ASSUME Parameters, IInv, NEW c \in Callers,
           (\E j \in Jobs : CancelRead(c, j)) \/ CancelWrite(c)
    PROVE  IInv'
<1> USE DEF IInv, Types
<1>1. CASE \E j \in Jobs : CancelRead(c, j)
    BY <1>1 DEF CancelRead, table, history, BatchIsHeld, ClaimsArePast,
                RowIsPast, FiresAreOwn, BacklogCoalesces
<1>2. CASE CancelWrite(c)
  <2> DEFINE j == cancel[c].job
  <2>1. /\ j \in Jobs /\ lock[j] = None
        /\ rows' = [rows EXCEPT ![j].status = "cancelled"]
        /\ UNCHANGED <<lock, loop, claims, now>>
      BY <1>2 DEF CancelWrite
  <2>2. Types'
      BY ZenonT(40), <1>2, <2>1 DEF CancelWrite, NoCall, Rows, Statuses
  <2>3. FiresAreOwn' /\ BacklogCoalesces'
      BY <2>1 DEF FiresAreOwn, BacklogCoalesces
  <2>4. BatchIsHeld'
      BY <2>1 DEF BatchIsHeld, Parameters, Ticks
  <2>5. ClaimsArePast'
    <3> SUFFICES ASSUME NEW i \in DOMAIN claims PROVE RowIsPast(claims[i])'
        BY <2>1 DEF ClaimsArePast
    <3>1. claims[i] \in Claims /\ RowIsPast(claims[i])
        BY DEF ClaimsArePast
    <3> QED BY <2>1, <3>1 DEF RowIsPast, Claims, Rows
  <2> QED BY <2>2, <2>3, <2>4, <2>5
<1> QED BY <1>1, <1>2

LEMMA SelectStep ==
    ASSUME Parameters, IInv, NEW l \in Loops, ClaimSelect(l)
    PROVE  IInv'
<1> USE DEF IInv, Types
<1>1. PICK B \in SUBSET Unlocked(now) :
         /\ loop' = [loop EXCEPT ![l] = Tick("claim", now, B, {}, FALSE)]
         /\ lock' = [j \in Jobs |-> IF j \in B THEN l ELSE lock[j]]
    BY DEF ClaimSelect, Oldest
<1>2. /\ UNCHANGED <<rows, cancel, claims, now>>
      /\ loop[l].pc = "asleep"
    BY DEF ClaimSelect, history
<1>3. \A j \in B : /\ j \in Jobs /\ lock[j] = None
                   /\ rows[j].status = "active" /\ rows[j].next <= now
    BY DEF Unlocked, Due
<1>4. Tick("claim", now, B, {}, FALSE) \in Ticks
    BY <1>3 DEF Tick, Ticks
<1>5. Types'
    BY <1>1, <1>2, <1>4
<1>6. BatchIsHeld'
  <2> SUFFICES ASSUME NEW k \in Loops, loop'[k].pc = "claim",
                      NEW j \in loop'[k].batch
               PROVE  /\ lock'[j] = k
                      /\ rows[j].status = "active"
                      /\ rows[j].next <= loop'[k].at
      BY <1>2 DEF BatchIsHeld
  <2>1. CASE k = l
      BY <1>1, <1>3, <2>1 DEF Tick
  <2>2. CASE k # l
    <3>1. loop'[k] = loop[k] /\ j \in Jobs
        BY <1>1, <2>2 DEF Ticks
    <3>2. lock[j] = k /\ rows[j].status = "active"
          /\ rows[j].next <= loop[k].at
        BY <3>1 DEF BatchIsHeld
    <3>3. j \notin B
        BY <1>3, <3>2 DEF Parameters
    <3> QED BY <1>1, <3>1, <3>2, <3>3
  <2> QED BY <2>1, <2>2
<1>7. ClaimsArePast' /\ BacklogCoalesces'
    BY <1>2 DEF ClaimsArePast, RowIsPast, BacklogCoalesces
<1>8. \A k \in Loops : loop'[k].fires = loop[k].fires
                       /\ (loop'[k].pc = "fire" <=> loop[k].pc = "fire")
    BY <1>1, <1>2 DEF Tick, FiresAreOwn
<1>9. FiresAreOwn'
    BY <1>2, <1>8 DEF FiresAreOwn
<1> QED BY <1>5, <1>6, <1>7, <1>9

\* What is left to enqueue, when one more process has something to.
LEMMA FiresGrow ==
    ASSUME NEW G, NEW H, NEW l \in Loops, NEW new,
           G[l].fires = {}, H[l].fires = new,
           \A k \in Loops : k # l => H[k] = G[k]
    PROVE  UNION {H[k].fires : k \in Loops} =
              new \cup UNION {G[k].fires : k \in Loops}
OBVIOUS

\* The ledger's view of the claims and of the fires of every loop.
Spent == {Occurrence(claims[i]) : i \in DOMAIN claims}
Open == UNION {loop[l].fires : l \in Loops}
Spends(new) ==
    /\ new \subseteq Jobs \X Nat
    /\ new \cap Spent = {}
    /\ Spent' = Spent \cup new
    /\ Open' = Open \cup new

LEMMA CommitStep ==
    ASSUME Parameters, IInv, NEW l \in Loops, ClaimCommit(l)
    PROVE  /\ IInv' /\ \E new : Spends(new)
           /\ \A i \in DOMAIN claims' \ DOMAIN claims :
                 rows[claims'[i].job].status = "active"
<1> DEFINE at == loop[l].at
           B == loop[l].batch
           firing == {j \in B : Fires(j, at)}
           C(j) == Claim(j, rows[j].next, at)
           fires == {C(j) : j \in firing}
           s == Ordered(fires)
           new == {Occurrence(c) : c \in fires}
<1> USE DEF Types
<1>1. /\ loop[l].pc = "claim"
      /\ rows' = [j \in Jobs |-> IF j \in B THEN Claimed(j, at) ELSE rows[j]]
      /\ lock' = [j \in Jobs |-> IF lock[j] = l THEN None ELSE lock[j]]
      /\ claims' = claims \o s
      /\ \E e \in BOOLEAN :
            loop' = [loop EXCEPT ![l] = Tick("fire", 0, {}, new, e)]
      /\ UNCHANGED <<cancel, now>>
    BY DEF ClaimCommit
<1>2. /\ at \in Nat /\ B \in SUBSET Jobs /\ firing \in SUBSET Jobs
      /\ loop[l].fires = {}
    BY <1>1 DEF IInv, Ticks, FiresAreOwn
<1>3. \A j \in B : /\ lock[j] = l /\ rows[j].status = "active"
                   /\ rows[j].next <= at /\ rows[j] \in Rows
    BY <1>1, <1>2 DEF IInv, BatchIsHeld
<1>4. IsFiniteSet(fires)
  <2> DEFINE f == [j \in firing |-> C(j)]
  <2>1. IsFiniteSet(firing)
      BY <1>2, FS_Subset DEF Parameters
  <2>2. f \in Surjection(firing, fires)
      BY DEF Surjection
  <2> QED BY <2>1, <2>2, FS_Surjection
<1>5. /\ s \in Seq(fires)
      /\ \A c \in fires : \E i \in DOMAIN s : s[i] = c
      /\ \A i, k \in DOMAIN s : s[i] = s[k] => i = k
    BY <1>4, OrderedLists
<1>6. \A c \in fires : /\ c \in Claims /\ c.at = at
                       /\ c.job \in firing /\ c.for = rows[c.job].next
                       /\ c = C(c.job)
    BY <1>2, <1>3 DEF Claim, Claims, Rows
<1> HIDE DEF at, B, firing, C, fires, s, new
<1>7. claims' \in Seq(Claims)
    BY <1>1, <1>5, <1>6 DEF IInv
<1>8. \A i \in DOMAIN claims : /\ i \in DOMAIN claims'
                               /\ claims'[i] = claims[i]
                               /\ claims[i] \in Claims
    BY <1>1, <1>5, <1>6 DEF IInv
<1>9. \A i \in DOMAIN claims' \ DOMAIN claims :
         /\ claims'[i] \in fires
         /\ \E k \in DOMAIN s : i = Len(claims) + k /\ claims'[i] = s[k]
    BY <1>1, <1>5, <1>6 DEF IInv
<1>10. \A k \in DOMAIN s : /\ Len(claims) + k \in DOMAIN claims'
                           /\ claims'[Len(claims) + k] = s[k]
    BY <1>1, <1>5, <1>6 DEF IInv
<1>11. \A j \in B : Claimed(j, at) \in Rows
  <2> SUFFICES ASSUME NEW j \in B PROVE Claimed(j, at) \in Rows
      OBVIOUS
  <2>1. rows[j] \in Rows /\ NextCron(at) \in Nat
      BY <1>2, <1>3, CronAdvances
  <2> QED BY <2>1 DEF Claimed, Rows, Statuses
<1>12. Types'
  <2>1. rows' \in [Jobs -> Rows] /\ lock' \in [Jobs -> Loops \cup {None}]
      BY <1>1, <1>11 DEF IInv
  <2>2. new \in SUBSET (Jobs \X Nat)
      BY <1>2, <1>6 DEF new, Occurrence, Claims, firing
  <2>3. loop' \in [Loops -> Ticks]
      BY <1>1, <2>2 DEF IInv, Tick, Ticks
  <2> QED BY <1>1, <1>7, <2>1, <2>3 DEF IInv
<1>13. BatchIsHeld'
  <2> SUFFICES ASSUME NEW k \in Loops, loop'[k].pc = "claim",
                      NEW j \in loop'[k].batch
               PROVE  /\ lock'[j] = k
                      /\ rows'[j].status = "active"
                      /\ rows'[j].next <= loop'[k].at
      BY DEF BatchIsHeld
  <2>1. k # l /\ loop'[k] = loop[k]
      BY <1>1 DEF Tick, IInv
  <2>2. /\ j \in Jobs /\ lock[j] = k /\ rows[j].status = "active"
        /\ rows[j].next <= loop[k].at
      BY <2>1 DEF IInv, BatchIsHeld, Ticks
  <2>3. j \notin B
      BY <1>3, <2>1, <2>2
  <2> QED BY <1>1, <2>1, <2>2, <2>3
<1>14. \A c \in fires : /\ c.for <= at /\ c.at = at
                        /\ c.job \in B /\ Fires(c.job, at)
    BY <1>3, <1>6 DEF firing
<1>15. \A i \in DOMAIN claims : RowIsPast(claims[i])'
  <2> SUFFICES ASSUME NEW i \in DOMAIN claims PROVE RowIsPast(claims[i])'
      OBVIOUS
  <2> DEFINE j == claims[i].job
  <2>1. /\ claims[i] \in Claims /\ RowIsPast(claims[i])
        /\ claims'[i] = claims[i] /\ j \in Jobs /\ rows[j] \in Rows
      BY <1>8 DEF IInv, ClaimsArePast, Claims
  <2>2. CASE j \notin B
      BY <1>1, <2>1, <2>2 DEF RowIsPast
  <2>3. CASE j \in B
    <3>1. rows'[j] = Claimed(j, at) /\ rows[j].status = "active"
          /\ rows[j].next <= at
        BY <1>1, <1>3, <2>1, <2>3
    <3>2. rows[j].kind = "recurring" /\ claims[i].at < rows[j].next
        BY <2>1, <3>1 DEF RowIsPast, Rows
    <3>3. NextCron(at) \in Nat /\ at < NextCron(at)
        BY <1>2, CronAdvances
    <3>4. /\ Claimed(j, at).kind = "recurring"
          /\ Claimed(j, at).status # "absent"
          /\ Claimed(j, at).next \in {rows[j].next, NextCron(at)}
        BY <2>1, <3>1, <3>2 DEF Claimed, Rows
    <3>5. claims[i].at < NextCron(at)
        BY <1>2, <2>1, <3>1, <3>2, <3>3 DEF Claims, Rows
    <3> QED BY <2>1, <3>1, <3>2, <3>4, <3>5 DEF RowIsPast
  <2> QED BY <2>2, <2>3
<1>16. \A c \in fires : RowIsPast(c)'
  <2> SUFFICES ASSUME NEW c \in fires PROVE RowIsPast(c)'
      OBVIOUS
  <2> DEFINE j == c.job
  <2>1. /\ j \in B /\ j \in Jobs /\ rows[j] \in Rows
        /\ rows[j].status = "active"
        /\ c.for <= at /\ c.at = at /\ Fires(j, at)
        /\ rows'[j] = Claimed(j, at)
      BY <1>1, <1>2, <1>3, <1>14
  <2>2. NextCron(at) \in Nat /\ at < NextCron(at)
      BY <1>2, CronAdvances
  <2> QED BY <2>1, <2>2 DEF RowIsPast, Claimed, Fires, Rows
<1>17. ClaimsArePast'
  <2> SUFFICES ASSUME NEW i \in DOMAIN claims' PROVE RowIsPast(claims[i])'
      BY DEF ClaimsArePast
  <2>1. CASE i \in DOMAIN claims
      BY <1>15, <2>1
  <2>2. CASE i \notin DOMAIN claims
      BY <1>9, <1>16, <2>2 DEF RowIsPast
  <2> QED BY <2>1, <2>2
<1>18. \A i \in DOMAIN claims, c \in fires :
          claims[i].job = c.job => claims[i].at < c.for
  <2> SUFFICES ASSUME NEW i \in DOMAIN claims, NEW c \in fires,
                      claims[i].job = c.job
               PROVE  claims[i].at < c.for
      OBVIOUS
  <2>1. /\ RowIsPast(claims[i]) /\ rows[c.job].status = "active"
        /\ rows[c.job] \in Rows /\ c.for = rows[c.job].next
      BY <1>3, <1>6, <1>14 DEF IInv, ClaimsArePast
  <2> QED BY <2>1 DEF RowIsPast, Rows
<1>19. BacklogCoalesces'
  <2> SUFFICES ASSUME NEW i \in DOMAIN claims', NEW k \in DOMAIN claims',
                      i < k, claims'[i].job = claims'[k].job
               PROVE  claims'[i].at < claims'[k].for
      BY DEF BacklogCoalesces
  <2>1. CASE k \in DOMAIN claims
    <3>1. i \in DOMAIN claims
        BY <1>7, <2>1 DEF IInv
    <3> QED BY <1>8, <2>1, <3>1 DEF IInv, BacklogCoalesces
  <2>2. CASE i \in DOMAIN claims /\ k \notin DOMAIN claims
      BY <1>8, <1>9, <1>18, <2>2
  <2>3. CASE i \notin DOMAIN claims /\ k \notin DOMAIN claims
    <3>1. PICK a \in DOMAIN s, b \in DOMAIN s :
             /\ i = Len(claims) + a /\ claims'[i] = s[a]
             /\ k = Len(claims) + b /\ claims'[k] = s[b]
        BY <1>9, <2>3
    <3>2. s[a] = s[b]
        BY <1>6, <1>9, <2>3, <3>1
    <3>3. a = b
        BY <1>5, <3>2
    <3>4. i \in Nat
        BY <1>7
    <3> QED BY <3>1, <3>3, <3>4
  <2> QED BY <2>1, <2>2, <2>3
<1>20. \A o \in new : \E i \in DOMAIN claims' : o = Occurrence(claims'[i])
    BY <1>5, <1>10 DEF new
<1>21. \A o \in new, i \in DOMAIN claims : Occurrence(claims[i]) # o
  <2> SUFFICES ASSUME NEW c \in fires, NEW i \in DOMAIN claims,
                      Occurrence(claims[i]) = Occurrence(c)
               PROVE  FALSE
      BY DEF new
  <2>1. claims[i].job = c.job /\ claims[i].for = c.for
      BY DEF Occurrence
  <2>2. claims[i].at < c.for /\ claims[i].for <= claims[i].at
      BY <1>18, <2>1 DEF IInv, ClaimsArePast, RowIsPast
  <2>3. claims[i] \in Claims
      BY <1>8
  <2> QED BY <2>1, <2>2, <2>3 DEF Claims
<1>22. /\ loop'[l].pc = "fire" /\ loop'[l].fires = new
       /\ \A k \in Loops : k # l => loop'[k] = loop[k]
    BY <1>1 DEF IInv, Tick
<1>23. FiresAreOwn'
  <2>1. \A k \in Loops : k # l =>
           \A f \in loop[k].fires :
              /\ f \notin new
              /\ \E i \in DOMAIN claims' : f = Occurrence(claims'[i])
      BY <1>8, <1>21 DEF IInv, FiresAreOwn
  <2> QED BY <1>20, <1>22, <2>1 DEF IInv, FiresAreOwn
<1>24. Spent' = Spent \cup new
  <2>1. Spent' = {Occurrence(claims'[i]) : i \in DOMAIN claims'}
      BY DEF Spent, Occurrence
  <2>2. Spent \cup new \subseteq Spent'
      BY <1>8, <1>20, <2>1 DEF Spent
  <2>3. Spent' \subseteq Spent \cup new
    <3> SUFFICES ASSUME NEW i \in DOMAIN claims'
                 PROVE  Occurrence(claims'[i]) \in Spent \cup new
        BY <2>1
    <3>1. CASE i \in DOMAIN claims
        BY <1>8, <3>1 DEF Spent
    <3>2. CASE i \notin DOMAIN claims
        BY <1>9, <3>2 DEF new
    <3> QED BY <3>1, <3>2
  <2> QED BY <2>2, <2>3
<1>25. Open' = new \cup Open
    BY <1>2, <1>22, FiresGrow DEF Open
<1>26. new \subseteq Jobs \X Nat
    BY <1>2, <1>6 DEF new, Occurrence, Claims, firing
<1>27. new \cap Spent = {}
    BY <1>21 DEF Spent
<1>28. IInv'
    BY <1>12, <1>13, <1>17, <1>19, <1>23 DEF IInv
<1>29. \A i \in DOMAIN claims' \ DOMAIN claims :
          rows[claims'[i].job].status = "active"
    BY <1>3, <1>9, <1>14
<1> QED BY <1>24, <1>25, <1>26, <1>27, <1>28, <1>29 DEF Spends

LEMMA FireSteps ==
    ASSUME Parameters, IInv, NEW l \in Loops,
           \/ EmitOutcomes(l) \/ TickEnds(l) \/ Crash(l)
           \/ \E f \in loop[l].fires : Enqueue(l, f)
    PROVE  IInv'
<1> USE DEF IInv, Types
<1>1. Asleep \in Ticks /\ Asleep.pc = "asleep" /\ Asleep.fires = {}
    BY DEF Asleep, Tick, Ticks
<1>2. PICK t \in Ticks : /\ loop' = [loop EXCEPT ![l] = t]
                         /\ t.pc # "claim"
                         /\ t.fires \subseteq loop[l].fires
                         /\ t.pc # "fire" => t.fires = {}
  <2>1. CASE TickEnds(l) \/ Crash(l)
      BY <1>1, <2>1 DEF TickEnds, Crash
  <2>2. CASE EmitOutcomes(l)
    <3>1. CASE loop' = [loop EXCEPT ![l] = Asleep]
        BY <1>1, <3>1
    <3>2. CASE loop' = [loop EXCEPT ![l].events = FALSE]
      <4>1. loop[l] \in Ticks
          OBVIOUS
      <4>2. loop' = [loop EXCEPT ![l] = [loop[l] EXCEPT !.events = FALSE]]
          BY <3>2
      <4>3. [loop[l] EXCEPT !.events = FALSE] \in Ticks
          BY <4>1 DEF Ticks
      <4> QED BY <2>2, <4>1, <4>2, <4>3 DEF EmitOutcomes, Ticks
    <3> QED BY <2>2, <3>1, <3>2 DEF EmitOutcomes
  <2>3. CASE \E f \in loop[l].fires : Enqueue(l, f)
    <3>1. PICK f \in loop[l].fires : Enqueue(l, f)
        BY <2>3
    <3>2. loop[l] \in Ticks /\ loop[l].pc = "fire"
          /\ loop' = [loop EXCEPT ![l] =
                         [loop[l] EXCEPT !.fires = @ \ {f}]]
        BY <3>1 DEF Enqueue
    <3>3. [loop[l] EXCEPT !.fires = @ \ {f}] \in Ticks
        BY <3>2 DEF Ticks
    <3> QED BY <3>2, <3>3 DEF Ticks
  <2> QED BY <2>1, <2>2, <2>3
<1>3. UNCHANGED <<rows, cancel, claims, now>>
    BY DEF EmitOutcomes, TickEnds, Crash, Enqueue, table, history
<1>4. \/ UNCHANGED lock
      \/ lock' = [j \in Jobs |-> IF lock[j] = l THEN None ELSE lock[j]]
    BY DEF EmitOutcomes, TickEnds, Crash, Enqueue, table
<1>5. Types'
    BY <1>2, <1>3, <1>4
<1>6. BatchIsHeld'
  <2> SUFFICES ASSUME NEW k \in Loops, loop'[k].pc = "claim",
                      NEW j \in loop'[k].batch
               PROVE  /\ lock'[j] = k
                      /\ rows[j].status = "active"
                      /\ rows[j].next <= loop'[k].at
      BY <1>3 DEF BatchIsHeld
  <2>1. k # l /\ loop'[k] = loop[k] /\ j \in Jobs
      BY <1>2 DEF Ticks
  <2> QED BY <1>4, <2>1 DEF BatchIsHeld
<1>7. ClaimsArePast' /\ BacklogCoalesces'
    BY <1>3 DEF ClaimsArePast, RowIsPast, BacklogCoalesces
<1>8. FiresAreOwn'
    BY <1>2, <1>3 DEF FiresAreOwn
<1> QED BY <1>5, <1>6, <1>7, <1>8

LEMMA QuietSteps ==
    ASSUME IInv, Clock \/ UNCHANGED vars PROVE IInv'
BY DEF Clock, vars, table, history, IInv, Types, BatchIsHeld, ClaimsArePast,
       RowIsPast, FiresAreOwn, BacklogCoalesces

LEMMA StepIInv == ASSUME Parameters PROVE IInv /\ [Next]_vars => IInv'
BY CreateStep, CancelStep, SelectStep, CommitStep, FireSteps, QuietSteps
   DEF Next, LoopStep

LEMMA Invariance == ASSUME Parameters PROVE Spec => []IInv
BY InitIInv, StepIInv, PTL DEF Spec

-----------------------------------------------------------------------------
(* The theorems.                                                           *)

\* A backlog of a schedule fires once, and no occurrence fires twice, however
\* the ticks of the processes, cancels and crashes interleave.
THEOREM BacklogFiresOnce ==
    ASSUME Parameters PROVE Spec => []BacklogCoalesces
BY Invariance, PTL DEF IInv

\* What was reported cancelled is: only a commit could change its row, and it
\* changes none but those it selected active.
ToldIsCancelled == told \subseteq {j \in Jobs : rows[j].status = "cancelled"}

LEMMA ToldStays ==
    ASSUME IInv, ToldIsCancelled, [Next]_vars
    PROVE  ToldIsCancelled'
<1> USE DEF ToldIsCancelled, IInv, Types, history, table
<1>1. CASE \E c \in Callers : CancelWrite(c)
    BY <1>1 DEF CancelWrite, Rows
<1>2. CASE \E l \in Loops : ClaimCommit(l)
  <2>1. PICK l \in Loops : ClaimCommit(l)
      BY <1>2
  <2>2. /\ rows' = [j \in Jobs |-> IF j \in loop[l].batch
                                   THEN Claimed(j, loop[l].at) ELSE rows[j]]
        /\ told' = told
      BY <2>1 DEF ClaimCommit
  <2>3. \A j \in loop[l].batch : rows[j].status = "active"
      BY <2>1 DEF ClaimCommit, BatchIsHeld
  <2> QED BY <2>2, <2>3
<1>3. CASE \E j \in Jobs : CreateOneShot(j) \/ CreateRecurring(j)
    BY <1>3 DEF CreateOneShot, CreateRecurring
<1>4. CASE UNCHANGED <<rows, told>>
    BY <1>4
<1> QED BY <1>1, <1>2, <1>3, <1>4 DEF Next, vars, LoopStep, CancelRead,
           ClaimSelect, EmitOutcomes, Enqueue, TickEnds, Crash, Clock

\* Once a cancel has said so, no process claims the schedule any more, even one
\* that was claiming it when the cancel was called.
THEOREM CancelledStaysUnclaimed ==
    ASSUME Parameters PROVE Spec => CancelHolds
<1>1. ASSUME IInv, ToldIsCancelled, [Next]_vars
      PROVE  [\A i \in DOMAIN claims' \ DOMAIN claims :
                 claims'[i].job \notin told]_vars
  <2>1. CASE \E l \in Loops : ClaimCommit(l)
      BY <1>1, <2>1, CommitStep DEF ToldIsCancelled
  <2>2. CASE UNCHANGED claims
      BY <2>2
  <2> QED BY <1>1, <2>1, <2>2 DEF Next, vars, history, table, LoopStep,
             CreateOneShot, CreateRecurring, CancelRead, CancelWrite,
             ClaimSelect, EmitOutcomes, Enqueue, TickEnds, Crash, Clock
<1>2. Init => ToldIsCancelled
    BY DEF Init, ToldIsCancelled
<1> QED BY <1>1, <1>2, Invariance, ToldStays, PTL DEF Spec, CancelHolds

LEMMA StepMaps ==
    ASSUME Parameters, IInv, [Next]_vars
    PROVE  [Ledger!Next]_(Ledger!vars)
<1>1. CASE \E l \in Loops : ClaimCommit(l)
  <2>1. PICK new : Spends(new)
      BY <1>1, CommitStep
  <2>2. UNCHANGED queued
      BY <1>1 DEF ClaimCommit
  <2>3. Spent \subseteq Jobs \X Nat
    <3>1. \A i \in DOMAIN claims : claims[i] \in Claims
        BY DEF IInv, Types
    <3> QED BY <3>1 DEF Spent, Occurrence, Claims
  <2>4. /\ Spent \subseteq Spent' /\ Spent' \subseteq Jobs \X Nat
        /\ Open' = Open \cup (Spent' \ Spent)
        /\ Spent' = Spent => Open' = Open
      BY <2>1, <2>3 DEF Spends
  <2>5. CASE Spent' = Spent
      BY <2>2, <2>4, <2>5 DEF Ledger!vars, Spent, Open
  <2>6. CASE Spent' # Spent
    <3>1. Ledger!Spend
        BY <2>2, <2>4, <2>6
           DEF Ledger!Spend, Ledger!Occurrences, Spent, Open
    <3> QED BY <3>1 DEF Ledger!Next
  <2> QED BY <2>5, <2>6
<1>2. CASE \E l \in Loops : \E f \in loop[l].fires : Enqueue(l, f)
  <2>0. PICK l \in Loops : \E f \in loop[l].fires : Enqueue(l, f)
      BY <1>2
  <2>1. PICK f \in loop[l].fires : Enqueue(l, f)
      BY <2>0
  <2>2. /\ \A k \in Loops : loop'[k].fires = loop[k].fires \ {f}
        /\ UNCHANGED claims
        /\ queued' \in {queued, Append(queued, f)}
      BY <2>1 DEF Enqueue, IInv, Types, Ticks, FiresAreOwn
  <2>3. Open' = Open \ {f} /\ Spent' = Spent /\ f \in Open
      BY <2>1, <2>2 DEF Open, Spent, Occurrence
  <2>4. CASE queued' = queued
      BY <2>3, <2>4 DEF Ledger!Drop, Ledger!Next, Spent, Open
  <2>5. CASE queued' = Append(queued, f)
      BY <2>3, <2>5 DEF Ledger!Turn, Ledger!Next, Spent, Open
  <2> QED BY <2>2, <2>4, <2>5
<1>3. CASE \E l \in Loops : EmitOutcomes(l) \/ TickEnds(l) \/ Crash(l)
                                           \/ ClaimSelect(l)
  <2>1. PICK l \in Loops : EmitOutcomes(l) \/ TickEnds(l) \/ Crash(l)
                                           \/ ClaimSelect(l)
      BY <1>3
  <2>2. \A k \in Loops : loop'[k].fires \subseteq loop[k].fires
    <3>0. loop \in [Loops -> Ticks] /\ Asleep.fires = {}
        BY DEF IInv, Types, Asleep, Tick
    <3>1. CASE loop' = [loop EXCEPT ![l].events = FALSE]
        BY <3>0, <3>1 DEF Ticks
    <3>2. CASE loop' = [loop EXCEPT ![l] = Asleep]
        BY <3>0, <3>2
    <3>3. CASE ClaimSelect(l)
      <4>1. PICK B : loop' = [loop EXCEPT ![l] =
                                 Tick("claim", now, B, {}, FALSE)]
          BY <3>3 DEF ClaimSelect
      <4>2. Tick("claim", now, B, {}, FALSE).fires = {}
          BY DEF Tick
      <4> QED BY <3>0, <4>1, <4>2
    <3>4. EmitOutcomes(l) \/ TickEnds(l) \/ Crash(l) =>
             loop' \in {[loop EXCEPT ![l].events = FALSE],
                        [loop EXCEPT ![l] = Asleep]}
        BY DEF EmitOutcomes, TickEnds, Crash
    <3> QED BY <2>1, <3>1, <3>2, <3>3, <3>4
  <2>3. UNCHANGED <<claims, queued>>
      BY <2>1 DEF EmitOutcomes, TickEnds, Crash, ClaimSelect, history
  <2>4. Open' \subseteq Open /\ Spent' = Spent
      BY <2>2, <2>3 DEF Open, Spent, Occurrence
  <2> QED BY <2>3, <2>4 DEF Ledger!Drop, Ledger!Next, Spent, Open
<1>4. CASE UNCHANGED <<claims, loop, queued>>
    BY <1>4 DEF Ledger!vars
<1> QED BY <1>1, <1>2, <1>3, <1>4 DEF Next, vars, LoopStep, CreateOneShot,
           CreateRecurring, CancelRead, CancelWrite, Clock, history

\* Each occurrence is spent once, by one process, and becomes one turn at
\* most, for any processes, schedules and crashes.
THEOREM OccurrenceLedgerImplemented ==
    ASSUME Parameters PROVE Spec => ImplementsLedger
<1>1. Init => Ledger!Init
    BY DEF Init, Ledger!Init, Asleep, Tick
<1> QED BY <1>1, Invariance, StepMaps, PTL DEF Spec, ImplementsLedger,
           Ledger!Spec

-----------------------------------------------------------------------------
(* What the ledger gives: the turns.                                       *)

\* What was enqueued was spent and is no longer to be enqueued, and no
\* occurrence was enqueued twice.
TurnsOnce ==
    \A i, k \in DOMAIN queued : queued[i] = queued[k] => i = k

TurnsInv ==
    /\ queued \in Seq(Jobs \X Nat)
    /\ Spent \subseteq Jobs \X Nat
    /\ Open \subseteq Spent
    /\ \A i \in DOMAIN queued : queued[i] \in Spent \ Open
    /\ TurnsOnce

\* It follows from the steps of the ledger alone.
LEMMA LedgerTurns ==
    ASSUME TurnsInv, [Ledger!Next]_(Ledger!vars)
    PROVE  TurnsInv'
<1> USE DEF TurnsInv, TurnsOnce
<1>1. CASE Ledger!Spend
  <2>1. /\ Spent \subseteq Spent' /\ Spent' \subseteq Jobs \X Nat
        /\ Open' = Open \cup (Spent' \ Spent)
        /\ queued' = queued
      BY <1>1 DEF Ledger!Spend, Ledger!Occurrences, Spent, Open
  <2> HIDE DEF TurnsOnce
  <2>2. TurnsOnce'
      BY <2>1 DEF TurnsOnce
  <2> QED BY <2>1, <2>2
<1>2. CASE Ledger!Turn
  <2>1. PICK o \in Open : /\ Open' = Open \ {o}
                          /\ queued' = Append(queued, o)
                          /\ Spent' = Spent
      BY <1>2 DEF Ledger!Turn, Spent, Open
  <2>2. \A i \in DOMAIN queued : queued[i] # o /\ queued'[i] = queued[i]
      BY <2>1
  <2>3. /\ queued' \in Seq(Jobs \X Nat)
        /\ DOMAIN queued' = DOMAIN queued \cup {Len(queued) + 1}
        /\ queued'[Len(queued) + 1] = o
      BY <2>1
  <2>4. \A i \in DOMAIN queued' : queued'[i] \in Spent' \ Open'
      BY <2>1, <2>2, <2>3
  <2>5. TurnsOnce'
      BY <2>2, <2>3
  <2> QED BY <2>1, <2>3, <2>4, <2>5
<1>3. CASE Ledger!Drop
  <2>1. Open' \subseteq Open /\ Spent' = Spent /\ queued' = queued
      BY <1>3 DEF Ledger!Drop, Spent, Open
  <2> QED BY <2>1
<1>4. CASE UNCHANGED Ledger!vars
  <2>1. Open' = Open /\ Spent' = Spent /\ queued' = queued
      BY <1>4 DEF Ledger!vars, Spent, Open
  <2> QED BY <2>1
<1> QED BY <1>1, <1>2, <1>3, <1>4 DEF Ledger!Next

\* No occurrence of a schedule is enqueued for a second turn, for any
\* processes, schedules, crashes and failures of a tick (SchedulerLoop.tick,
\* ScheduleStore.claim_due).
THEOREM OneTurnPerOccurrence == ASSUME Parameters PROVE Spec => []TurnsOnce
<1>1. Init => TurnsInv
    BY DEF Init, TurnsInv, TurnsOnce, Spent, Open, Asleep, Tick
<1>2. TurnsInv => TurnsOnce
    BY DEF TurnsInv
<1> QED BY <1>1, <1>2, LedgerTurns, StepMaps, Invariance, PTL DEF Spec

-----------------------------------------------------------------------------
(* The types.                                                              *)

Bounds == MaxTime \in Nat /\ MaxCrashes \in Nat

Bounded ==
    /\ told \subseteq Jobs
    /\ now \in 0..MaxTime
    /\ crashes \in 0..MaxCrashes

LEMMA BoundedStep ==
    ASSUME Bounds, IInv, Bounded, [Next]_vars PROVE Bounded'
<1> USE DEF Bounds, Bounded
<1>1. CASE \E c \in Callers : CancelWrite(c)
    BY <1>1 DEF CancelWrite, IInv, Types
<1>2. CASE \E l \in Loops : Crash(l)
    BY <1>2 DEF Crash, history
<1>3. CASE Clock
    BY <1>3 DEF Clock, history
<1>4. CASE UNCHANGED <<told, now, crashes>>
    BY <1>4
<1> QED BY <1>1, <1>2, <1>3, <1>4 DEF Next, vars, history, table, LoopStep,
           CreateOneShot, CreateRecurring, CancelRead, ClaimSelect,
           ClaimCommit, EmitOutcomes, Enqueue, TickEnds

\* Rows, ticks and cancel calls keep to the states of the code.
THEOREM LoopTypeCorrect ==
    ASSUME Parameters, Bounds PROVE Spec => []TypeOK
<1>1. Init => Bounded
    BY DEF Bounds, Init, Bounded
<1>2. IInv /\ Bounded => TypeOK
    BY DEF IInv, Types, Ticks, Bounded, TypeOK
<1> QED BY <1>1, <1>2, Invariance, BoundedStep, PTL DEF Spec
=============================================================================

---------------------------- MODULE PromiseProofs ----------------------------
(***************************************************************************)
(* FirewallPromise is worth implementing: what it says of single steps     *)
(* adds up to what a user expects of a run.                                *)
(***************************************************************************)
EXTENDS FirewallPromise, TLAPS

\* What membership in Plan says of a plan's fields.
LEMMA PlanFields ==
    ASSUME NEW p \in Plan
    PROVE  /\ p.rules \in [Services -> Policy \cup {NoPolicy}]
           /\ DOMAIN p.on \subseteq Interfaces
           /\ \A t \in DOMAIN p.on : p.on[t] \in SUBSET Services
<1>1. p.rules \in [Services -> Policy \cup {NoPolicy}] BY DEF Plan
<1>2. PICK targets \in SUBSET Interfaces : p.on \in [targets -> SUBSET Services] BY DEF Plan
<1> QED BY <1>1, <1>2

\* PromiseInv survives the write of a policy that is still to do.
LEMMA FillKeeps ==
    ASSUME PromiseInv, running, NEW s \in todo, rules' = [rules EXCEPT ![s] = plan.rules[s]],
           on' = on
    PROVE  /\ rules' \in [Services -> Policy \cup {NoPolicy}]
           /\ NothingDangling'
           /\ \A r \in Needs(plan) \ (todo \ {s}) : rules'[r] = plan.rules[r]
<1>1. plan.rules \in [Services -> Policy \cup {NoPolicy}] BY PlanFields DEF PromiseInv
<1>2. s \in Services /\ plan.rules[s] # NoPolicy BY DEF PromiseInv, Needs
<1>3. rules' \in [Services -> Policy \cup {NoPolicy}] BY <1>1, <1>2 DEF PromiseInv
<1>4. \A r \in Services : rules'[r] = IF r = s THEN plan.rules[s] ELSE rules[r]
  BY DEF PromiseInv
<1>5. NothingDangling' BY <1>2, <1>4 DEF PromiseInv, NothingDangling
<1>6. \A r \in Needs(plan) \ (todo \ {s}) : rules'[r] = plan.rules[r]
  BY <1>4 DEF PromiseInv, Needs
<1> QED BY <1>3, <1>5, <1>6

\* PromiseInv is inductive.
LEMMA PromiseInductive ==
    ASSUME PromiseInv, [Next]_vars
    PROVE  PromiseInv'
<1>1. CASE Begin
  <2>1. rules' = rules /\ on' = on /\ running' = TRUE /\ plan' \in Plan BY <1>1 DEF Begin
  <2>2. Sound(plan)' BY <1>1 DEF Begin, Sound, Needs
  <2>3. todo' = Needs(plan)' /\ left' = (DOMAIN plan.on)' BY <1>1 DEF Begin, Needs
  <2>4. rules' \in [Services -> Policy \cup {NoPolicy}] /\ on' \in [Interfaces -> SUBSET Services]
        /\ NothingDangling'
    BY <2>1 DEF PromiseInv, NothingDangling
  <2>5. \A s \in (Needs(plan) \ todo)' : rules'[s] = plan'.rules[s] BY <2>3
  <2>6. \A t \in (DOMAIN plan.on \ left)' : on'[t] = plan'.on[t] BY <2>3
  <2> QED BY <2>1, <2>2, <2>3, <2>4, <2>5, <2>6 DEF PromiseInv
<1>2. CASE End
  BY <1>2 DEF End, Idle, PromiseInv, NothingDangling
<1>3. ASSUME NEW s \in Services, Upsert(s)
      PROVE  PromiseInv'
  <2>1. s \in todo /\ todo' = todo \ {s} /\ on' = on /\ running' = running /\ plan' = plan
        /\ left' = left /\ good' = good /\ rules' = [rules EXCEPT ![s] = plan.rules[s]]
    BY <1>3 DEF Upsert
  <2>2. running BY <2>1 DEF PromiseInv
  <2>3. /\ rules' \in [Services -> Policy \cup {NoPolicy}]
        /\ NothingDangling'
        /\ \A r \in Needs(plan) \ (todo \ {s}) : rules'[r] = plan.rules[r]
    BY <2>1, <2>2, FillKeeps
  <2>4. Sound(plan)' /\ Needs(plan)' = Needs(plan) BY <2>1, <2>2 DEF PromiseInv, Sound, Needs
  <2> QED BY <2>1, <2>2, <2>3, <2>4 DEF PromiseInv
<1>4. ASSUME NEW s \in Services, UpsertLost(s)
      PROVE  PromiseInv'
  <2>1. s \in todo /\ on' = on /\ running' = FALSE /\ todo' = {} /\ left' = {}
        /\ rules' = [rules EXCEPT ![s] = plan.rules[s]]
    BY <1>4 DEF UpsertLost, Idle
  <2>2. running BY <2>1 DEF PromiseInv
  <2>3. rules' \in [Services -> Policy \cup {NoPolicy}] /\ NothingDangling'
    BY <2>1, <2>2, FillKeeps
  <2> QED BY <2>1, <2>3 DEF PromiseInv
<1>5. ASSUME NEW t \in Interfaces, Reconcile(t)
      PROVE  PromiseInv'
  <2>1. todo = {} /\ t \in left /\ left' = left \ {t} /\ todo' = todo /\ plan' = plan
        /\ rules' = rules /\ running' = running /\ on' = [on EXCEPT ![t] = plan.on[t]]
    BY <1>5 DEF Reconcile
  <2>2. good' => good BY <1>5 DEF Reconcile
  <2>3. running BY <2>1 DEF PromiseInv
  <2>4. plan.on[t] \in SUBSET Services /\ plan.on[t] \subseteq Needs(plan)
        /\ DOMAIN plan.on \subseteq Interfaces
    BY <2>1, <2>3, PlanFields DEF PromiseInv, Sound
  <2>5. on' \in [Interfaces -> SUBSET Services] BY <2>1, <2>4 DEF PromiseInv
  <2>6. \A i \in Interfaces : on'[i] = IF i = t THEN plan.on[t] ELSE on[i]
    BY <2>1 DEF PromiseInv
  <2>7. NothingDangling'
    BY <2>1, <2>3, <2>4, <2>6 DEF PromiseInv, NothingDangling, Needs
  <2>8. good' => \A i \in (DOMAIN plan.on \ left)' : on'[i] = plan'.on[i]
    BY <2>1, <2>2, <2>3, <2>4, <2>6 DEF PromiseInv
  <2>9. Sound(plan)' /\ Needs(plan)' = Needs(plan) BY <2>1, <2>3 DEF PromiseInv, Sound, Needs
  <2> QED BY <2>1, <2>3, <2>5, <2>7, <2>8, <2>9 DEF PromiseInv
<1>6. ASSUME NEW t \in Interfaces, Skip(t)
      PROVE  PromiseInv'
  <2>1. todo = {} /\ t \in left /\ left' = left \ {t} /\ todo' = todo /\ plan' = plan
        /\ rules' = rules /\ on' = on /\ running' = running /\ good' = FALSE
    BY <1>6 DEF Skip
  <2>2. Sound(plan)' <=> Sound(plan) BY <2>1 DEF Sound, Needs
  <2>3. Needs(plan)' = Needs(plan) BY <2>1 DEF Needs
  <2> QED BY <2>1, <2>2, <2>3 DEF PromiseInv, NothingDangling
<1>7. CASE UNCHANGED vars
  BY <1>7 DEF vars, PromiseInv, NothingDangling, Sound, Needs
<1>8. todo \subseteq Services /\ left \subseteq Interfaces
  <2>1. CASE running
    BY <2>1, PlanFields DEF PromiseInv, Sound, Needs
  <2>2. CASE ~running
    BY <2>2 DEF PromiseInv
  <2> QED BY <2>1, <2>2
<1> QED BY <1>1, <1>2, <1>3, <1>4, <1>5, <1>6, <1>7, <1>8 DEF Next

\* Whoever implements FirewallPromise has, when a run ends well, every policy
\* and every target as planned, whatever runs crashed or failed before it, and
\* never attaches what does not exist.
THEOREM PromiseCorrect == Spec => [](DoneAsPlanned /\ NothingDangling)
<1>1. Init => PromiseInv BY DEF Init, Idle, PromiseInv, NothingDangling
<1>2. PromiseInv /\ [Next]_vars => PromiseInv' BY PromiseInductive
<1>3. PromiseInv => DoneAsPlanned /\ NothingDangling
  BY DEF PromiseInv, DoneAsPlanned
<1> QED BY <1>1, <1>2, <1>3, PTL DEF Spec
==============================================================================

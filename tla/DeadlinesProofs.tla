--------------------------- MODULE DeadlinesProofs ---------------------------
(***************************************************************************)
(* For every tree of calls, whatever their timeouts and whichever of them  *)
(* wait: contexts end with Run, what runs on has been left by a deadline,  *)
(* and no call reports that it was cancelled.  Under is the least closed   *)
(* set, so that what holds of all below is shown by naming a closed set.   *)
(***************************************************************************)
EXTENDS Deadlines, TLAPS

-----------------------------------------------------------------------------
(* The tree.                                                               *)

\* What w executes is below it, and what is below it is closed.
LEMMA UnderClosed ==
  ASSUME NEW w \in Works
  PROVE  /\ Under(w) \subseteq Calls
         /\ ToSet(Nested[w]) \subseteq Under(w)
         /\ Closed(Under(w))
  <1>1. Under(w) = {c \in Calls : \A S \in SUBSET Calls :
                      ToSet(Nested[w]) \subseteq S /\ Closed(S) => c \in S}
    BY DEF Under, Below
  <1>2. \A v \in Works : ToSet(Nested[v]) \subseteq Calls
    BY DeadlineAssumption DEF ToSet
  <1>3. ToSet(Nested[w]) \subseteq Under(w)
    BY <1>1, <1>2
  <1>4. ASSUME NEW c \in Under(w), NEW d \in ToSet(Nested[c])
        PROVE  d \in Under(w)
    <2>1. c \in Calls /\ d \in Calls
      BY <1>1, <1>2, <1>4 DEF Works
    <2>2. ASSUME NEW S \in SUBSET Calls, ToSet(Nested[w]) \subseteq S, Closed(S)
          PROVE  d \in S
      BY <1>1, <1>4, <2>2 DEF Closed
    <2> QED BY <1>1, <2>1, <2>2
  <1> QED BY <1>1, <1>3, <1>4 DEF Closed

\* It is the least such set.
LEMMA UnderLeast ==
  ASSUME NEW w \in Works, NEW S \in SUBSET Calls, ToSet(Nested[w]) \subseteq S, Closed(S)
  PROVE  Under(w) \subseteq S
  BY DEF Under, Below

\* What is below a call below w is below w.
LEMMA UnderTransitive ==
  ASSUME NEW w \in Works, NEW d \in Under(w)
  PROVE  Under(d) \subseteq Under(w)
  <1>1. /\ Under(w) \in SUBSET Calls /\ d \in Works
        /\ ToSet(Nested[d]) \subseteq Under(w) /\ Closed(Under(w))
    BY UnderClosed DEF Closed, Works
  <1> QED BY <1>1, UnderLeast

\* Whoever makes a call below w is w or below it.
LEMMA UnderParent ==
  ASSUME NEW w \in Works, NEW d \in Under(w), NEW v \in Works, d \in ToSet(Nested[v])
  PROVE  v = w \/ v \in Under(w)
  <1> DEFINE S == {e \in Under(w) : \A u \in Works :
                     e \in ToSet(Nested[u]) => u = w \/ u \in Under(w)}
  <1>1. \A u, x \in Works : \A e : e \in ToSet(Nested[u]) /\ e \in ToSet(Nested[x]) => u = x
    BY DeadlineAssumption DEF ToSet
  <1>2. S \in SUBSET Calls /\ ToSet(Nested[w]) \subseteq S
    BY <1>1, UnderClosed
  <1>3. ASSUME NEW c \in S, NEW e \in ToSet(Nested[c])
        PROVE  e \in S
    <2>1. c \in Works /\ e \in Under(w)
      BY UnderClosed DEF Closed, Works
    <2> QED BY <1>1, <2>1
  <1>4. Closed(S)
    BY <1>3 DEF Closed
  <1>5. Under(w) \subseteq S
    BY <1>2, <1>4, UnderLeast
  <1> QED BY <1>5

\* Below w is what w executes, and what is below that.
LEMMA UnderSplit ==
  ASSUME NEW w \in Works, NEW d \in Under(w)
  PROVE  d \in ToSet(Nested[w]) \/ \E e \in ToSet(Nested[w]) : d \in Under(e)
  <1> DEFINE S == {e \in Calls : \/ e \in ToSet(Nested[w])
                                 \/ \E f \in ToSet(Nested[w]) : e \in Under(f)}
  <1>1. S \in SUBSET Calls /\ ToSet(Nested[w]) \subseteq S
    BY UnderClosed
  <1>2. ASSUME NEW c \in S, NEW e \in ToSet(Nested[c])
        PROVE  e \in S
    <2>1. c \in Works /\ e \in Calls
      BY DeadlineAssumption DEF Works, ToSet
    <2>2. CASE c \in ToSet(Nested[w])
      BY <2>1, <2>2, UnderClosed
    <2>3. ASSUME NEW f \in ToSet(Nested[w]), c \in Under(f)
          PROVE  e \in S
      <3>1. f \in Works
        BY DeadlineAssumption DEF Works, ToSet
      <3> QED BY <2>1, <2>3, <3>1, UnderClosed DEF Closed
    <2> QED BY <2>2, <2>3
  <1>3. Closed(S)
    BY <1>2 DEF Closed
  <1>4. Under(w) \subseteq S
    BY <1>1, <1>3, UnderLeast
  <1> QED BY <1>4
-----------------------------------------------------------------------------
(* Steps.                                                                  *)

\* The part of the invariant that is not about types.
Kept ==
  /\ ctx[Root] = "live"
  /\ \A w \in Works : InOrder(w)
  /\ \A c \in Calls : Consistent(c) /\ DoneBelow(c) /\ Settled(c)
  /\ ContextEndsWithRun

\* The children a work executes, by their place.
LEMMA ChildTyped ==
  ASSUME NEW w \in Works, NEW i \in DOMAIN Nested[w]
  PROVE  /\ Nested[w][i] \in Calls /\ Nested[w][i] \in Works
         /\ Nested[w][i] \in ToSet(Nested[w]) /\ Nested[w][i] \in Under(w)
         /\ i \in Nat \ {0} /\ i <= Len(Nested[w])
         /\ \A v \in Works : Nested[w][i] \in ToSet(Nested[v]) => v = w
  <1>1. Nested[w] \in Seq(Calls)
    BY DeadlineAssumption
  <1>2. Nested[w][i] \in ToSet(Nested[w])
    BY DEF ToSet
  <1>3. \A v \in Works : Nested[w][i] \in ToSet(Nested[v]) => v = w
    BY DeadlineAssumption DEF ToSet
  <1> QED BY <1>1, <1>2, <1>3, UnderClosed DEF Works

\* Nothing is below a call whose work has not begun.
LEMMA UntouchedBelow ==
  ASSUME TypeOK, Kept, NEW c \in Calls, work[c] = "none", NEW d \in Under(c)
  PROVE  Untouched(d)
  <1> DEFINE S == {e \in Calls : Untouched(e)}
  <1>1. ASSUME NEW w \in Works, work[w] = "none", NEW e \in ToSet(Nested[w])
        PROVE  e \in S
    <2>1. PICK i \in DOMAIN Nested[w] : e = Nested[w][i]
      BY DEF ToSet
    <2>2. called[w] = 0 /\ i > 0 /\ e \in Calls
      BY <1>1, <2>1, ChildTyped DEF Kept, InOrder
    <2> QED BY <2>1, <2>2 DEF Kept, InOrder
  <1>2. S \in SUBSET Calls /\ ToSet(Nested[c]) \subseteq S
    BY <1>1 DEF Works
  <1>3. Closed(S)
    BY <1>1 DEF Closed, Works, Untouched
  <1>4. c \in Works
    BY DEF Works
  <1> QED BY <1>2, <1>3, <1>4, UnderLeast

\* The context of c ends.
LEMMA EndContexts ==
  ASSUME TypeOK, NEW c \in Calls, NEW err \in Done, End(c, err)
  PROVE  /\ ctx' \in [Works -> {"none", "live"} \cup Done]
         /\ timer' \in [Calls -> Nat]
         /\ \A w \in Works : ctx'[w] = IF w \in {c} \cup Under(c) /\ ctx[w] = "live"
                                       THEN err ELSE ctx[w]
  BY DEF End, TypeOK

\* Run ends with its work, or leaves it behind when the context is done.
LEMMA RunEnds ==
  ASSUME TypeOK, Kept, NEW c \in Calls, phase[c] \in {"run", "wait"},
         NEW after \in {"fallback", "returned"}, phase' = [phase EXCEPT ![c] = after],
         NEW err \in {"none", "failure", "deadline"}, cause' = [cause EXCEPT ![c] = err],
         \/ work[c] \in {"answer", "failure"}
         \/ err = "deadline" /\ c \notin Waits /\ ctx[c] = "deadline",
         Cancel(c), UNCHANGED <<work, called>>
  PROVE  Kept'
  <1>0. c \in Works /\ Root \notin Calls /\ Under(c) \subseteq Calls /\ Calls \subseteq Works
    BY DeadlineAssumption, UnderClosed DEF Works
  <1>1. \A w \in Works :
          \/ ctx'[w] = ctx[w] /\ (Timed(c) /\ w \in {c} \cup Under(c) => ctx[w] # "live")
          \/ /\ Timed(c) /\ w \in {c} \cup Under(c)
             /\ ctx[w] = "live" /\ ctx'[w] = "canceled"
    BY EndContexts DEF Cancel, Done
  <1>2. ctx'[Root] = "live"
    BY <1>0, <1>1 DEF Kept, Works
  <1>3. \A d \in Under(c) : phase[d] \in {"run", "wait"} => ctx[d] # "live"
    BY DEF Kept, Settled, DoneBelow, Done
  <1>4. \A w \in Works : ctx[w] # "live" => ctx'[w] = ctx[w]
    BY <1>1
  <1>5. \A w \in Works : ctx'[w] = "live" => ctx[w] = "live"
    BY <1>1
  <1>6. \A d \in Calls : LeftBehind(d) => LeftBehind(d)'
    BY DEF LeftBehind, Kept, Consistent, TypeOK
  <1>7. \A d, e \in Calls : Accounted(d, e) => Accounted(d, e)'
    BY <1>6, UnderClosed DEF Accounted, Works
  <1>8. ASSUME NEW w \in Works
        PROVE  InOrder(w)'
    <2>1. ASSUME NEW i \in DOMAIN Nested[w]
          PROVE  /\ Untouched(Nested[w][i]) => Untouched(Nested[w][i])'
                 /\ phase[Nested[w][i]] = "returned" => phase'[Nested[w][i]] = "returned"
      BY <1>1, <2>1, ChildTyped DEF Untouched, TypeOK
    <2> QED BY <2>1 DEF InOrder, Kept
  <1>9. ASSUME NEW d \in Calls
        PROVE  Consistent(d)'
    <2>1. CASE d = c
      <3>1. /\ phase'[c] = after /\ cause'[c] = err /\ UNCHANGED work
            /\ ctx[c] = "deadline" => ctx'[c] = "deadline"
        BY <1>0, <1>4 DEF TypeOK
      <3>2. work[c] = "busy" => ctx'[c] = "deadline" /\ LeftBehind(c)'
        BY <3>1 DEF LeftBehind
      <3> QED BY <2>1, <3>1, <3>2 DEF Consistent
    <2>2. CASE d # c
      <3>1. /\ phase'[d] = phase[d] /\ cause'[d] = cause[d] /\ work'[d] = work[d]
            /\ phase[d] \in {"none", "run", "wait"} => ctx'[d] = ctx[d]
        BY <1>0, <1>1, <1>3, <2>2 DEF TypeOK, Kept, Consistent, Untouched
      <3> QED
        BY <1>0, <1>4, <1>6, <2>2, <3>1 DEF Consistent, Kept, Untouched
    <2> QED BY <2>1, <2>2
  <1>10. ASSUME NEW d \in Calls
         PROVE  DoneBelow(d)'
    <2>1. Under(d) \subseteq Calls
      BY <1>0, UnderClosed
    <2>2. CASE ctx[d] \in Done
      BY <1>0, <1>5, <2>1, <2>2 DEF DoneBelow, Kept
    <2>3. CASE ctx[d] \notin Done
      <3> SUFFICES ASSUME ctx'[d] \in Done, NEW e \in Under(d) PROVE ctx'[e] # "live"
        BY DEF DoneBelow
      <3>1. d \in {c} \cup Under(c) /\ Timed(c)
        BY <1>0, <1>1, <2>3
      <3>2. e \in Under(c)
        BY <1>0, <3>1, UnderTransitive
      <3> QED BY <1>0, <1>1, <3>1, <3>2
    <2> QED BY <2>2, <2>3
  <1>11. ASSUME NEW d \in Calls
         PROVE  Settled(d)'
    <2> SUFFICES ASSUME work[d] \in {"answer", "failure"} \/ phase'[d] \in {"fallback", "returned"},
                        NEW e \in Under(d)
                 PROVE  /\ phase'[e] \in {"run", "wait"} => ctx'[e] # "live"
                        /\ phase'[e] \in {"run", "wait", "fallback"} => Accounted(d, e)'
      BY DEF Settled
    <2>1. e \in Calls /\ e \in Works /\ d \in Works
      BY <1>0, UnderClosed
    <2>2. /\ phase'[e] \in {"run", "wait"} => phase[e] \in {"run", "wait"}
          /\ phase'[e] \in {"run", "wait", "fallback"} =>
               phase[e] \in {"run", "wait", "fallback"}
      BY <2>1 DEF TypeOK
    <2>3. CASE d = c
      <3>1. phase[e] \in {"run", "wait", "fallback"} => Accounted(c, e)'
        <4>1. CASE work[c] \in {"answer", "failure"}
          BY <1>7, <2>1, <2>3, <4>1 DEF Kept, Settled
        <4>2. CASE err = "deadline" /\ c \notin Waits
          BY <4>2 DEF Accounted, LeftBehind, TypeOK
        <4> QED BY <4>1, <4>2
      <3> QED BY <1>3, <1>5, <2>1, <2>2, <2>3, <3>1
    <2>4. CASE d # c
      <3>1. work[d] \in {"answer", "failure"} \/ phase[d] \in {"fallback", "returned"}
        BY <2>4 DEF TypeOK
      <3> QED BY <1>5, <1>7, <2>1, <2>2, <3>1 DEF Kept, Settled
    <2> QED BY <2>3, <2>4
  <1>12. ContextEndsWithRun'
    <2> SUFFICES ASSUME NEW d \in Calls, Timed(d), phase'[d] \in {"fallback", "returned"},
                        NEW e \in {d} \cup Under(d)
                 PROVE  ctx'[e] # "live"
      BY DEF ContextEndsWithRun, Timed
    <2>1. e \in Works
      BY <1>0, UnderClosed
    <2>2. CASE d = c
      BY <1>1, <2>1, <2>2
    <2>3. CASE d # c
      <3>1. phase[d] \in {"fallback", "returned"}
        BY <2>3 DEF TypeOK
      <3> QED BY <1>5, <2>1, <3>1 DEF Kept, ContextEndsWithRun
    <2> QED BY <2>2, <2>3
  <1> QED BY <1>2, <1>8, <1>9, <1>10, <1>11, <1>12 DEF Kept

\* A context runs out of time.
LEMMA ExpireKeeps ==
  ASSUME TypeOK, Kept, NEW c \in Calls, Expire(c)
  PROVE  Kept'
  <1>0. c \in Works /\ Root \notin Calls /\ Under(c) \subseteq Calls /\ Calls \subseteq Works
    BY DeadlineAssumption, UnderClosed DEF Works
  <1>1. /\ \A w \in Works : ctx'[w] = IF w \in {c} \cup Under(c) /\ ctx[w] = "live"
                                      THEN "deadline" ELSE ctx[w]
        /\ UNCHANGED <<phase, work, called, cause>>
    BY EndContexts DEF Expire, Done
  <1>2. ctx'[Root] = "live"
    BY <1>0, <1>1 DEF Kept, Works
  <1>3. ASSUME NEW w \in Works
        PROVE  InOrder(w)'
    <2>1. ASSUME NEW i \in DOMAIN Nested[w]
          PROVE  Untouched(Nested[w][i]) => Untouched(Nested[w][i])'
      BY <1>1, <2>1, ChildTyped DEF Untouched
    <2> QED BY <1>1, <2>1 DEF InOrder, Kept
  <1>4. ASSUME NEW d \in Calls
        PROVE  Consistent(d)' /\ (\A e \in Calls : Accounted(d, e)' = Accounted(d, e))
    BY <1>0, <1>1 DEF Consistent, Kept, Untouched, LeftBehind, Done, Accounted
  <1>5. ASSUME NEW d \in Calls
        PROVE  DoneBelow(d)'
    <2> SUFFICES ASSUME ctx'[d] \in Done, NEW e \in Under(d) PROVE ctx'[e] # "live"
      BY DEF DoneBelow
    <2>1. e \in Works /\ d \in Works
      BY <1>0, UnderClosed
    <2>2. CASE ctx[d] \in Done
      BY <1>1, <2>1, <2>2 DEF DoneBelow, Kept
    <2>3. CASE d \in {c} \cup Under(c)
      <3>1. e \in Under(c)
        BY <1>0, <2>3, UnderTransitive
      <3> QED BY <1>1, <2>1, <3>1
    <2> QED BY <1>1, <2>1, <2>2, <2>3
  <1>6. ASSUME NEW d \in Calls
        PROVE  Settled(d)'
    <2>1. Under(d) \subseteq Calls
      BY <1>0, UnderClosed
    <2> QED BY <1>0, <1>1, <1>4, <2>1 DEF Settled, Kept
  <1>7. ContextEndsWithRun'
    <2> SUFFICES ASSUME NEW d \in Calls, Timed(d), phase[d] \in {"fallback", "returned"},
                        NEW e \in {d} \cup Under(d)
                 PROVE  ctx'[e] # "live"
      BY <1>1 DEF ContextEndsWithRun, Timed
    <2>1. e \in Works
      BY <1>0, UnderClosed
    <2> QED BY <1>1, <2>1 DEF Kept, ContextEndsWithRun
  <1> QED BY <1>2, <1>3, <1>4, <1>5, <1>6, <1>7 DEF Kept

\* A work ends: what its calls left running below is accounted for.
LEMMA FinishKeeps ==
  ASSUME TypeOK, Kept, NEW w \in Works, Finish(w)
  PROVE  Kept'
  <1>1. /\ UNCHANGED <<phase, ctx, called, cause>> /\ work[w] = "busy" /\ ~ InCall(w)
        /\ work'[w] \in {"answer", "failure"}
        /\ \A v \in Works : v # w => work'[v] = work[v]
    BY DEF Finish, TypeOK
  <1>2. \A i \in DOMAIN Nested[w] :
          phase[Nested[w][i]] = "returned" \/ Untouched(Nested[w][i])
    <2> SUFFICES ASSUME NEW i \in DOMAIN Nested[w]
                 PROVE  phase[Nested[w][i]] = "returned" \/ Untouched(Nested[w][i])
      OBVIOUS
    <2>1. i \in Nat \ {0} /\ called[w] \in Nat
      BY ChildTyped DEF TypeOK
    <2>2. CASE i = called[w]
      BY <1>1, <2>1, <2>2 DEF InCall, Current
    <2>3. CASE i # called[w]
      BY <2>1, <2>3 DEF Kept, InOrder
    <2> QED BY <2>2, <2>3
  <1>3. ASSUME NEW v \in Works
        PROVE  InOrder(v)'
    <2>1. ASSUME NEW i \in DOMAIN Nested[v]
          PROVE  /\ Untouched(Nested[v][i]) => Untouched(Nested[v][i])'
                 /\ Nested[v][i] \in Calls
      BY <1>1, <2>1, ChildTyped DEF Untouched
    <2>2. CASE v = w
      <3>1. \A i \in DOMAIN Nested[w] : i = called[w] => phase[Nested[w][i]] = "returned"
        BY <1>1, ChildTyped DEF InCall, Current
      <3> QED BY <1>1, <2>1, <2>2, <3>1 DEF InOrder, Kept
    <2>3. CASE v # w
      BY <1>1, <2>1, <2>3 DEF InOrder, Kept
    <2> QED BY <2>2, <2>3
  <1>4. ASSUME NEW d \in Calls
        PROVE  /\ Consistent(d)' /\ DoneBelow(d)'
               /\ \A e \in Calls : Accounted(d, e)' = Accounted(d, e)
    BY <1>1 DEF Consistent, Kept, Untouched, LeftBehind, Accounted, DoneBelow, Works
  <1>5. ASSUME NEW d \in Calls
        PROVE  Settled(d)'
    <2> SUFFICES ASSUME d = w, NEW e \in Under(w)
                 PROVE  /\ phase[e] \in {"run", "wait"} => ctx[e] # "live"
                        /\ phase[e] \in {"run", "wait", "fallback"} => Accounted(w, e)
      <3>1. Under(d) \subseteq Calls /\ d \in Works
        BY UnderClosed DEF Works
      <3> QED BY <1>1, <1>4, <3>1 DEF Settled, Kept
    <2>1. CASE e \in ToSet(Nested[w])
      BY <1>2, <2>1 DEF ToSet, Untouched
    <2>2. ASSUME NEW f \in ToSet(Nested[w]), e \in Under(f)
          PROVE  /\ phase[e] \in {"run", "wait"} => ctx[e] # "live"
                 /\ phase[e] \in {"run", "wait", "fallback"} => Accounted(w, e)
      <3>1. f \in Calls /\ f \in Under(w) /\ Under(f) \subseteq Under(w)
        BY UnderClosed, UnderTransitive
      <3>2. CASE phase[f] = "returned"
        <4>1. /\ phase[e] \in {"run", "wait"} => ctx[e] # "live"
              /\ phase[e] \in {"run", "wait", "fallback"} => Accounted(f, e)
          BY <2>2, <3>1, <3>2 DEF Kept, Settled
        <4>2. Accounted(f, e) => Accounted(w, e)
          BY <2>2, <3>1 DEF Accounted
        <4> QED BY <4>1, <4>2
      <3>3. CASE Untouched(f)
        <4>1. Untouched(e)
          BY <2>2, <3>1, <3>3, UntouchedBelow DEF Untouched
        <4> QED BY <4>1 DEF Untouched
      <3> QED BY <1>2, <3>2, <3>3 DEF ToSet
    <2> QED BY <2>1, <2>2, UnderSplit
  <1>6. ContextEndsWithRun' /\ ctx'[Root] = "live"
    BY <1>1 DEF Kept, ContextEndsWithRun, Timed
  <1> QED BY <1>3, <1>4, <1>5, <1>6 DEF Kept

\* A work begins its next call, with a context no better than its own.
LEMMA ExecKeeps ==
  ASSUME TypeOK, Kept, NEW w \in Works, Exec(w)
  PROVE  Kept'
  <1> DEFINE i == called[w] + 1
             c == Nested[w][i]
  <1>1. /\ i \in DOMAIN Nested[w] /\ called[w] \in Nat /\ i \in Nat
        /\ work[w] = "busy" /\ ~ InCall(w)
        /\ called' = [called EXCEPT ![w] = i]
    <2>1. called[w] <= Len(Nested[w]) /\ called[w] # Len(Nested[w]) /\ called[w] \in Nat
      BY DEF Exec, AllCalled, Kept, InOrder, TypeOK
    <2>2. Nested[w] \in Seq(Calls)
      BY DeadlineAssumption
    <2> QED BY <2>1, <2>2 DEF Exec
  <1>2. /\ c \in Calls /\ c \in Works /\ c \in ToSet(Nested[w])
        /\ \A v \in Works : c \in ToSet(Nested[v]) => v = w
    BY <1>1, ChildTyped
  <1>3. Untouched(c) /\ cause[c] = "none" /\ w # c
    BY <1>1, <1>2 DEF Kept, InOrder, Consistent, Untouched
  <1>4. /\ \A d \in Calls : d # c => phase'[d] = phase[d] /\ cause'[d] = cause[d]
        /\ \A v \in Works : v # c => ctx'[v] = ctx[v] /\ work'[v] = work[v]
        /\ \A v \in Works : v # w => called'[v] = called[v]
        /\ \/ /\ phase'[c] = "run" /\ ctx'[c] = ctx[w] /\ work'[c] = "busy"
              /\ cause'[c] = "none"
           \/ /\ phase'[c] = "fallback" /\ work'[c] = "none" /\ cause'[c] = "refused"
              /\ ctx'[c] \in {"canceled", ctx[w]}
              /\ Timed(c) => ctx'[c] # "live"
           \/ /\ phase'[c] = "returned" /\ ctx'[c] = "none" /\ work'[c] = "none"
              /\ cause'[c] = "none"
    <2>1. phase[c] = "none" /\ ctx[c] = "none" /\ work[c] = "none" /\ cause[c] = "none"
      BY <1>3 DEF Untouched
    <2>2. CASE /\ phase' = [phase EXCEPT ![c] = "run"]
               /\ ctx' = [ctx EXCEPT ![c] = Derived(w)]
               /\ work' = [work EXCEPT ![c] = "busy"]
               /\ UNCHANGED <<cause, result>>
      BY <1>1, <1>2, <2>1, <2>2 DEF TypeOK, Derived
    <2>3. CASE /\ phase' = [phase EXCEPT ![c] = "fallback"]
               /\ ctx' = [ctx EXCEPT ![c] = IF Timed(c) /\ Derived(w) = "live"
                                            THEN "canceled" ELSE Derived(w)]
               /\ cause' = [cause EXCEPT ![c] = "refused"]
               /\ UNCHANGED <<work, result>>
      BY <1>1, <1>2, <2>1, <2>3 DEF TypeOK, Derived
    <2>4. CASE Cached(c)
      BY <1>1, <1>2, <2>1, <2>4 DEF TypeOK, Cached
    <2> QED BY <2>2, <2>3, <2>4 DEF Exec
  <1>5. \A d \in Under(c) : Untouched(d) /\ d # c /\ d \in Calls
    <2>1. \A d \in Under(c) : Untouched(d) /\ d \in Calls
      BY <1>2, <1>3, UntouchedBelow, UnderClosed DEF Untouched
    <2>2. c \notin Under(c)
      <3> SUFFICES ASSUME c \in Under(c) PROVE FALSE
        OBVIOUS
      <3>1. w \in Under(c)
        BY <1>2, <1>3, UnderParent
      <3> QED BY <1>1, <2>1, <3>1 DEF Untouched
    <2> QED BY <2>1, <2>2
  <1>6. ASSUME NEW d \in Calls, c \in Under(d)
        PROVE  w = d \/ w \in Under(d)
    BY <1>2, <1>6, UnderParent DEF Works
  <1>7. /\ w \notin Calls => ctx[w] = "live"
        /\ w \in Calls =>
             \/ phase[w] \in {"run", "wait"} /\ ctx[w] \in {"live", "deadline"}
             \/ phase[w] \in {"fallback", "returned"} /\ ctx[w] = "deadline" /\ LeftBehind(w)
    BY <1>1 DEF Works, Kept, Consistent, Untouched, TypeOK
  <1> HIDE DEF c
  <1>8. ctx'[Root] = "live"
    BY <1>2, <1>4, DeadlineAssumption DEF Kept, Works
  <1>9. \A d, e \in Calls : Accounted(d, e) => Accounted(d, e)'
    <2>1. \A d \in Calls : LeftBehind(d) => LeftBehind(d)'
      BY <1>3, <1>4 DEF LeftBehind
    <2> QED BY <2>1, UnderClosed DEF Accounted, Works
  <1>10. ASSUME NEW v \in Works
         PROVE  InOrder(v)'
    <2>1. ASSUME NEW j \in DOMAIN Nested[v]
          PROVE  /\ Nested[v][j] \in Calls /\ Nested[v][j] \in Works /\ j \in Nat \ {0}
                 /\ Nested[v][j] = c => v = w /\ j = i
      <3>1. Nested[v][j] \in Calls /\ Nested[v][j] \in Works /\ j \in Nat \ {0}
        BY <2>1, ChildTyped
      <3>2. Nested[v][j] = c => v = w /\ j = i
        BY <1>1, <2>1, DeadlineAssumption DEF c
      <3> QED BY <3>1, <3>2
    <2>2. ASSUME NEW j \in DOMAIN Nested[v], Nested[v][j] # c
          PROVE  /\ Untouched(Nested[v][j]) => Untouched(Nested[v][j])'
                 /\ phase'[Nested[v][j]] = phase[Nested[v][j]]
      BY <1>4, <2>1, <2>2 DEF Untouched
    <2>3. CASE v = w
      <3>1. called'[w] = i /\ work'[w] = "busy"
        BY <1>1, <1>3, <1>4 DEF TypeOK
      <3>2. i <= Len(Nested[w])
        BY <1>1, ChildTyped
      <3>3. ASSUME NEW j \in DOMAIN Nested[w], j > i
            PROVE  Untouched(Nested[w][j])'
        <4>1. Nested[w][j] # c /\ j > called[w]
          BY <1>1, <2>1, <2>3, <3>3
        <4> QED BY <2>2, <2>3, <4>1 DEF Kept, InOrder
      <3>4. ASSUME NEW j \in DOMAIN Nested[w], j < i
            PROVE  phase'[Nested[w][j]] = "returned"
        <4>1. Nested[w][j] # c /\ j \in Nat \ {0} /\ (j = called[w] \/ j < called[w])
          BY <1>1, <2>1, <2>3, <3>4
        <4>2. phase[Nested[w][j]] = "returned"
          BY <1>1, <4>1 DEF Kept, InOrder, InCall, Current
        <4> QED BY <2>2, <2>3, <4>1, <4>2
      <3> QED BY <2>3, <3>1, <3>2, <3>3, <3>4 DEF InOrder
    <2>4. CASE v # w
      <3>1. \A j \in DOMAIN Nested[v] : Nested[v][j] # c
        BY <2>1, <2>4
      <3>2. CASE v = c
        <4>1. called[v] = 0 /\ called'[v] = 0
          BY <1>2, <1>3, <1>4, <2>4, <3>2 DEF Kept, InOrder, Untouched
        <4> QED BY <2>1, <2>2, <3>1, <4>1 DEF Kept, InOrder
      <3>3. CASE v # c
        <4>1. called'[v] = called[v] /\ work'[v] = work[v]
          BY <1>4, <2>4, <3>3
        <4> QED BY <2>1, <2>2, <3>1, <4>1 DEF Kept, InOrder
      <3> QED BY <3>2, <3>3
    <2> QED BY <2>3, <2>4
  <1>11. ASSUME NEW d \in Calls
         PROVE  Consistent(d)'
    <2>1. CASE d = c
      BY <1>4, <1>7, <2>1 DEF Consistent
    <2>2. CASE d # c
      BY <1>4, <2>2 DEF Kept, Consistent, Untouched, LeftBehind, Works
    <2> QED BY <2>1, <2>2
  <1>12. ASSUME NEW d \in Calls
         PROVE  DoneBelow(d)'
    <2> SUFFICES ASSUME ctx'[d] \in Done, NEW e \in Under(d) PROVE ctx'[e] # "live"
      BY DEF DoneBelow
    <2>1. d \in Works /\ e \in Works
      BY UnderClosed DEF Works
    <2>2. CASE d = c
      BY <1>4, <1>5, <2>1, <2>2 DEF Untouched
    <2>3. CASE d # c
      <3>1. ctx[d] \in Done /\ ctx[e] # "live"
        BY <1>4, <2>1, <2>3 DEF Kept, DoneBelow
      <3>2. e = c => ctx[w] # "live"
        BY <1>6, <3>1 DEF Kept, DoneBelow, Done
      <3> QED BY <1>4, <2>1, <3>1, <3>2
    <2> QED BY <2>2, <2>3
  <1>13. ASSUME NEW d \in Calls
         PROVE  Settled(d)'
    <2> SUFFICES ASSUME work'[d] \in {"answer", "failure"}
                          \/ phase'[d] \in {"fallback", "returned"},
                        NEW e \in Under(d)
                 PROVE  /\ phase'[e] \in {"run", "wait"} => ctx'[e] # "live"
                        /\ phase'[e] \in {"run", "wait", "fallback"} => Accounted(d, e)'
      BY DEF Settled
    <2>1. d \in Works /\ e \in Works /\ e \in Calls
      BY UnderClosed DEF Works
    <2>2. CASE d = c
      BY <1>4, <1>5, <2>1, <2>2 DEF Untouched
    <2>3. CASE d # c
      <3>1. work[d] \in {"answer", "failure"} \/ phase[d] \in {"fallback", "returned"}
        BY <1>4, <2>1, <2>3
      <3>2. CASE e # c
        BY <1>4, <1>9, <2>1, <3>1, <3>2 DEF Kept, Settled
      <3>3. CASE e = c
        <4>1. CASE w = d
          <5>1. ctx[w] = "deadline" /\ LeftBehind(d)
            BY <1>1, <1>7, <3>1, <4>1
          <5> QED BY <1>4, <1>9, <2>1, <3>3, <5>1 DEF Accounted
        <4>2. CASE w \in Under(d) /\ phase[w] \in {"run", "wait"}
          <5>1. ctx[w] # "live" /\ Accounted(d, w)
            BY <3>1, <4>2 DEF Kept, Settled
          <5>2. \A f \in Under(d) : w \in Under(f) => c \in Under(f)
            BY <1>2, UnderClosed DEF Closed, Works
          <5>3. Accounted(d, c)
            BY <5>1, <5>2 DEF Accounted
          <5> QED BY <1>4, <1>9, <2>1, <3>3, <5>1, <5>3
        <4>3. CASE w \in Under(d) /\ phase[w] \in {"fallback", "returned"}
          <5>1. ctx[w] = "deadline" /\ LeftBehind(w) /\ c \in Under(w)
            BY <1>2, <1>7, <2>1, <4>3, UnderClosed
          <5>2. Accounted(d, c)
            BY <4>3, <5>1 DEF Accounted
          <5> QED BY <1>4, <1>9, <2>1, <3>3, <5>1, <5>2
        <4>4. w \in Under(d) => w \in Calls
          BY <2>1, UnderClosed
        <4> QED BY <1>6, <1>7, <3>3, <4>1, <4>2, <4>3, <4>4
      <3> QED BY <3>2, <3>3
    <2> QED BY <2>2, <2>3
  <1>14. ContextEndsWithRun'
    <2> SUFFICES ASSUME NEW d \in Calls, Timed(d), phase'[d] \in {"fallback", "returned"},
                        NEW e \in {d} \cup Under(d)
                 PROVE  ctx'[e] # "live"
      BY DEF ContextEndsWithRun, Timed
    <2>1. d \in Works /\ e \in Works
      BY UnderClosed DEF Works
    <2>2. CASE d = c
      BY <1>4, <1>5, <2>1, <2>2 DEF Untouched
    <2>3. CASE d # c
      <3>1. phase[d] \in {"fallback", "returned"}
        BY <1>4, <2>3
      <3>2. \A f \in {d} \cup Under(d) : ctx[f] # "live"
        BY <3>1 DEF Kept, ContextEndsWithRun
      <3> QED BY <1>4, <1>6, <2>1, <2>3, <3>2
    <2> QED BY <2>2, <2>3
  <1> QED BY <1>8, <1>10, <1>11, <1>12, <1>13, <1>14 DEF Kept

\* Steps that leave the contexts, the works and the causes alone, and take
\* calls on within the phases before, or after, the end of Run.
LEMMA PhaseKeeps ==
  ASSUME TypeOK, Kept, UNCHANGED <<ctx, work, called, cause>>, NEW c \in Calls, NEW after,
         phase' = [phase EXCEPT ![c] = after],
         \/ phase[c] = "run" /\ after = "wait" /\ ctx[c] \in Done
         \/ phase[c] = "fallback" /\ after = "returned"
  PROVE  Kept'
  <1>1. /\ phase'[c] = after
        /\ \A d \in Calls : d # c => phase'[d] = phase[d]
    BY DEF TypeOK
  <1>2. ASSUME NEW w \in Works
        PROVE  InOrder(w)'
    <2>1. ASSUME NEW i \in DOMAIN Nested[w]
          PROVE  /\ Untouched(Nested[w][i]) => Untouched(Nested[w][i])'
                 /\ phase[Nested[w][i]] = "returned" => phase'[Nested[w][i]] = "returned"
      BY <1>1, <2>1, ChildTyped DEF Untouched
    <2> QED BY <2>1 DEF InOrder, Kept
  <1>3. ASSUME NEW d \in Calls
        PROVE  Consistent(d)'
    <2>1. CASE d = c
      BY <1>1, <2>1 DEF Consistent, Kept, LeftBehind
    <2>2. CASE d # c
      BY <1>1, <2>2 DEF Consistent, Kept, LeftBehind, Untouched
    <2> QED BY <2>1, <2>2
  <1>4. ASSUME NEW d \in Calls
        PROVE  DoneBelow(d)' /\ Settled(d)'
    <2>1. DoneBelow(d)' /\ Under(d) \subseteq Calls
      BY UnderClosed DEF DoneBelow, Kept, Works
    <2>2. \A e \in Calls : Accounted(d, e)' = Accounted(d, e)
      BY DEF Accounted, LeftBehind
    <2>3. /\ \A e \in Calls : phase'[e] \in {"run", "wait"} => phase[e] \in {"run", "wait"}
          /\ \A e \in Calls : phase'[e] \in {"run", "wait", "fallback"} =>
               phase[e] \in {"run", "wait", "fallback"}
          /\ phase'[d] \in {"fallback", "returned"} => phase[d] \in {"fallback", "returned"}
      BY <1>1
    <2> QED BY <2>1, <2>2, <2>3 DEF Settled, Kept
  <1>5. ContextEndsWithRun'
    BY <1>1 DEF Kept, ContextEndsWithRun, Timed
  <1> QED BY <1>2, <1>3, <1>4, <1>5 DEF Kept
-----------------------------------------------------------------------------
(* The invariant.                                                          *)

\* Types are preserved.
LEMMA TypeStep ==
  ASSUME TypeOK, Kept, [Next]_vars
  PROVE  TypeOK'
  <1>1. ASSUME NEW w \in Works, Exec(w)
        PROVE  TypeOK'
    <2>1. /\ called[w] + 1 \in DOMAIN Nested[w]
          /\ Nested[w][called[w] + 1] \in Calls /\ Nested[w][called[w] + 1] \in Works
      <3>1. called[w] <= Len(Nested[w]) /\ called[w] # Len(Nested[w]) /\ called[w] \in Nat
        BY <1>1 DEF Exec, AllCalled, Kept, InOrder, TypeOK
      <3>2. Nested[w] \in Seq(Calls)
        BY DeadlineAssumption
      <3> QED BY <3>1, <3>2 DEF Works
    <2>2. called' \in [Works -> Nat]
      BY <1>1, <2>1 DEF Exec, TypeOK
    <2>3. /\ phase' \in [Calls -> {"none", "run", "wait", "fallback", "returned"}]
          /\ ctx' \in [Works -> {"none", "live"} \cup Done]
          /\ work' \in [Works -> {"none", "busy", "answer", "failure"}]
          /\ cause' \in [Calls -> {"none"} \cup Failures]
          /\ result' \in [Calls -> {"none", "answer"} \cup Failures]
      <3> DEFINE c == Nested[w][called[w] + 1]
      <3>1. CASE Cached(c)
        <4>1. PICK d \in Same[c] : phase' = [phase EXCEPT ![c] = "returned"]
                                  /\ result' = [result EXCEPT ![c] = result[d]]
          BY <3>1 DEF Cached
        <4>2. d \in Calls
          BY <2>1, <4>1, DeadlineAssumption
        <4> QED BY <2>1, <3>1, <4>1, <4>2 DEF Cached, TypeOK
      <3>2. CASE ~ Cached(c)
        BY <1>1, <2>1, <3>2 DEF Exec, TypeOK, Derived, Done, Failures
      <3> QED BY <3>1, <3>2
    <2>4. timer' \in [Calls -> Nat]
      BY <1>1, <2>1, DeadlineAssumption DEF Exec, TypeOK
    <2> QED BY <2>2, <2>3, <2>4 DEF TypeOK
  <1>2. ASSUME NEW w \in Works, Finish(w)
        PROVE  TypeOK'
    BY <1>2 DEF Finish, TypeOK
  <1>3. ASSUME NEW c \in Calls, Expire(c)
        PROVE  TypeOK'
    BY <1>3, EndContexts DEF Expire, TypeOK, Done
  <1>4. ASSUME NEW c \in Calls, Cancel(c)
        PROVE  /\ ctx' \in [Works -> {"none", "live"} \cup Done]
               /\ timer' \in [Calls -> Nat]
    BY <1>4, EndContexts DEF Cancel, TypeOK, Done
  <1>5. ASSUME NEW c \in Calls, NEW err \in Failures, Fail(c, err)
        PROVE  TypeOK'
    BY <1>4, <1>5 DEF Fail, TypeOK
  <1>6. ASSUME NEW c \in Calls, Receive(c)
        PROVE  TypeOK'
    BY <1>4, <1>5, <1>6 DEF Receive, TypeOK, Failures
  <1>7. ASSUME NEW c \in Calls, TimeOut(c)
        PROVE  TypeOK'
    BY <1>5, <1>7 DEF TimeOut, TypeOK, Failures
  <1>8. ASSUME NEW c \in Calls, StopWaiting(c)
        PROVE  TypeOK'
    BY <1>5, <1>8 DEF StopWaiting, Kept, Consistent, Failures
  <1>9. ASSUME NEW c \in Calls, Fallback(c)
        PROVE  TypeOK'
    BY <1>9 DEF Fallback, TypeOK
  <1>10. CASE Tick
    BY <1>10 DEF Tick, TypeOK, Left
  <1>11. CASE UNCHANGED vars
    BY <1>11 DEF vars, TypeOK
  <1> QED
    BY <1>1, <1>2, <1>3, <1>6, <1>7, <1>8, <1>9, <1>10, <1>11 DEF Next

\* So is the rest of the invariant.
LEMMA KeptStep ==
  ASSUME TypeOK, Kept, [Next]_vars
  PROVE  Kept'
  <1>1. ASSUME NEW c \in Calls, NEW err \in {"failure", "deadline"}, Fail(c, err),
               phase[c] \in {"run", "wait"},
               \/ work[c] \in {"answer", "failure"}
               \/ err = "deadline" /\ c \notin Waits /\ ctx[c] = "deadline"
        PROVE  Kept'
    BY <1>1, RunEnds DEF Fail
  <1>2. ASSUME NEW c \in Calls, Receive(c)
        PROVE  Kept'
    <2>1. CASE work[c] = "failure" /\ Fail(c, "failure")
      BY <1>1, <1>2, <2>1 DEF Receive
    <2>2. CASE work[c] = "answer" /\ ~ Fail(c, "failure")
      <3>1. /\ phase[c] = "run" /\ phase' = [phase EXCEPT ![c] = "returned"]
            /\ Cancel(c) /\ UNCHANGED <<work, called, cause>>
        BY <1>2, <2>2 DEF Receive
      <3>2. cause' = [cause EXCEPT ![c] = "none"]
        BY <3>1 DEF TypeOK, Kept, Consistent
      <3> QED BY <2>2, <3>1, <3>2, RunEnds
    <2>3. CASE work[c] = "answer" /\ Fail(c, "failure")
      BY <1>1, <1>2, <2>3 DEF Receive
    <2> QED BY <1>2, <2>1, <2>2, <2>3 DEF Receive
  <1>3. ASSUME NEW c \in Calls, TimeOut(c) \/ StopWaiting(c)
        PROVE  Kept'
    <2>1. phase[c] \in {"run", "wait"} /\ ctx[c] = "deadline" /\ work[c] # "none"
      BY <1>3 DEF TimeOut, StopWaiting, Kept, Consistent, Done
    <2>2. CASE MayLeave(c) /\ Fail(c, ctx[c])
      <3>1. work[c] \in {"answer", "failure"} \/ c \notin Waits
        BY <2>2 DEF MayLeave
      <3> QED BY <1>1, <2>1, <2>2, <3>1
    <2>3. CASE ~ (MayLeave(c) /\ Fail(c, ctx[c]))
      <3>1. /\ phase[c] = "run" /\ phase' = [phase EXCEPT ![c] = "wait"]
            /\ UNCHANGED <<ctx, timer, work, called, cause, result>>
        BY <1>3, <2>3 DEF TimeOut, StopWaiting
      <3> QED BY <2>1, <3>1, PhaseKeeps DEF Done
    <2> QED BY <2>2, <2>3
  <1>4. ASSUME NEW c \in Calls, Fallback(c)
        PROVE  Kept'
    BY <1>4, PhaseKeeps DEF Fallback
  <1>5. ASSUME UNCHANGED <<phase, ctx, work, called, cause>>
        PROVE  Kept'
    BY <1>5 DEF Kept, InOrder, Untouched, Consistent, LeftBehind, DoneBelow, Settled,
                Accounted, ContextEndsWithRun, Timed
  <1>6. CASE Tick \/ UNCHANGED vars
    BY <1>5, <1>6 DEF Tick, vars
  <1> QED
    BY <1>2, <1>3, <1>4, <1>6, ExecKeeps, FinishKeeps, ExpireKeeps DEF Next

\* The request begins with everything untouched.
LEMMA InitEstablishes == Init => IInv
  <1> SUFFICES ASSUME Init PROVE IInv
    OBVIOUS
  <1>1. TypeOK
    BY DEF Init, TypeOK, Works
  <1>2. \A c \in Calls : Untouched(c) /\ cause[c] = "none"
    BY DeadlineAssumption DEF Init, Untouched, Works
  <1>3. ASSUME NEW w \in Works
        PROVE  InOrder(w)
    <2>1. called[w] = 0 /\ Nested[w] \in Seq(Calls)
      BY DeadlineAssumption DEF Init
    <2>2. \A i \in DOMAIN Nested[w] : i > 0 /\ Nested[w][i] \in Calls
      BY ChildTyped
    <2> QED BY <1>2, <2>1, <2>2 DEF InOrder
  <1>4. \A c \in Calls : Consistent(c) /\ DoneBelow(c) /\ Settled(c)
    BY <1>2 DEF Consistent, DoneBelow, Settled, Untouched, Done
  <1>5. ContextEndsWithRun /\ ctx[Root] = "live"
    BY <1>2 DEF ContextEndsWithRun, Untouched, Init, Works
  <1> QED BY <1>1, <1>3, <1>4, <1>5 DEF IInv

\* The invariant is inductive.
LEMMA NextPreserves == IInv /\ [Next]_vars => IInv'
  <1>1. IInv <=> TypeOK /\ Kept
    BY DEF IInv, Kept
  <1>2. IInv' <=> TypeOK' /\ Kept'
    BY DEF IInv, Kept
  <1> QED BY <1>1, <1>2, TypeStep, KeptStep

\* The invariant holds in every reachable state.
THEOREM Inductive == Spec => []IInv
  BY InitEstablishes, NextPreserves, PTL DEF Spec

\* The state of every call and work is well typed.
THEOREM TypeCorrect == Spec => []TypeOK
  <1>1. IInv => TypeOK
    BY DEF IInv
  <1> QED BY <1>1, Inductive, PTL

\* Whatever was begun for a call with a timeout has no live context once its
\* Run has ended (executor.go:101-105).
THEOREM ContextsEnd == Spec => []ContextEndsWithRun
  <1>1. IInv => ContextEndsWithRun
    BY DEF IInv
  <1> QED BY <1>1, Inductive, PTL

\* What goes on below a call that has returned was left by a deadline.
THEOREM OrphansAccounted == Spec => []OrphansOfDeadlines
  <1>1. IInv => OrphansOfDeadlines
    BY DEF IInv, OrphansOfDeadlines, Settled
  <1> QED BY <1>1, Inductive, PTL

\* No call reports a cancellation (executor.go:196-212).
THEOREM NoCancellationSeen == Spec => []CancellationIsNotSeen
  <1>1. IInv => CancellationIsNotSeen
    BY DEF IInv, CancellationIsNotSeen, Consistent
  <1> QED BY <1>1, Inductive, PTL
=============================================================================

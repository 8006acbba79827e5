------------------------ MODULE SpanProcessor_proofs -------------------------
(***************************************************************************)
(* Proofs about SpanProcessor: however spans end inside one another, on    *)
(* however many threads, a span being masked finds its own counter and     *)
(* budget, is counted as itself, pays for its own texts, comes out as if   *)
(* it had ended alone, and is not exported with a secret in it.            *)
(***************************************************************************)
EXTENDS SpanProcessor, OperationBudget_proofs, TLAPS

\* onEnd is in progress for the span, in the calls c.
LiveIn(c, s) == c[s].at \notin {"open", "over"}

Live(s) == LiveIn(call, s)

Own(s) == [counter |-> s, budget |-> s]

-----------------------------------------------------------------------------
(* The calls of a thread are a list: the innermost one is top[t], and the   *)
(* others hang from it by `caller`.  Lists are disjoint, and every call but *)
(* the innermost waits for host code.                                       *)

Links ==
  /\ \A t \in Threads : top[t] # Nobody => Live(top[t])
  /\ \A t, u \in Threads : top[t] = top[u] /\ top[t] # Nobody => t = u
  /\ \A s \in Spans : Live(s) /\ call[s].caller # Nobody =>
       Live(call[s].caller) /\ \A t \in Threads : top[t] # call[s].caller
  /\ \A s, r \in Spans :
       Live(s) /\ Live(r) /\ call[s].caller = call[r].caller /\ call[s].caller # Nobody => s = r

\* A text in the core is one of its span, masked with what that span owns.
Scanning ==
  \A s \in Spans : call[s].at = "scanning" => call[s].leaf = Own(s) /\ texts[s][call[s].text] > 0

\* The counts of a span that is no longer masked are final.
Final ==
  /\ \A s \in Spans : call[s].at \in {"forwarding", "dropped"} => call[s].values = became[s]
  /\ \A i \in DOMAIN outcomes :
       /\ call[outcomes[i].span].at \in {"reporting", "over"}
       /\ outcomes[i].values = became[outcomes[i].span]
  /\ \A s \in exported :
       call[s].at \in {"forwarding", "reporting", "over"} /\ texts[s]["secret"] = 0

\* The inductive invariant.
SpanInv ==
  /\ SpanTypeOK
  /\ Links
  /\ HeldFollowsCalls
  /\ Scanning
  /\ counter = became
  /\ Final

\* The innermost call moved on: the lists are as they were.
LEMMA LinksMove ==
  ASSUME SpanTypeOK, Links, NEW t \in Threads, Busy(t), top' = top,
         \A s \in Spans \ {top[t]} : call'[s] = call[s],
         call'[top[t]].caller = call[top[t]].caller, LiveIn(call', top[t])
  PROVE  Links'
<1>1. top[t] \in Spans /\ Live(top[t])
  BY DEF Busy, Links, SpanTypeOK
<1>2. \A s \in Spans : (LiveIn(call', s) <=> Live(s)) /\ call'[s].caller = call[s].caller
  BY <1>1 DEF Live, LiveIn
<1>3. \A s \in Spans : call[s].caller # Nobody => call[s].caller \in Spans
  BY DEF SpanTypeOK, Call
<1>4. \A u \in Threads : top[u] # Nobody => top[u] \in Spans
  BY DEF SpanTypeOK
<1> QED
  BY <1>2, <1>3, <1>4 DEF Links, Live

\* The innermost call returned: its caller is innermost.
LEMMA LinksReturn ==
  ASSUME SpanTypeOK, Links, NEW t \in Threads, Busy(t), Return(t)
  PROVE  Links'
<1>1. top[t] \in Spans /\ Live(top[t])
  BY DEF Busy, Links, SpanTypeOK
<1>2. \A s \in Spans : LiveIn(call', s) => s # top[t] /\ Live(s) /\ call'[s] = call[s]
  BY <1>1 DEF Return, GoTo, Live, LiveIn, SpanTypeOK
<1>3. \A s \in Spans \ {top[t]} : call'[s] = call[s]
  BY DEF Return, GoTo, SpanTypeOK
<1>4. top'[t] = call[top[t]].caller /\ \A u \in Threads \ {t} : top'[u] = top[u]
  BY DEF Return, SpanTypeOK
<1>5. top'[t] # Nobody => top'[t] \in Spans /\ Live(top'[t]) /\ top'[t] # top[t]
  BY <1>1, <1>4 DEF Links, SpanTypeOK, Call
<1>6. \A u \in Threads : top'[u] # Nobody => LiveIn(call', top'[u])
  <2> SUFFICES ASSUME NEW u \in Threads, top'[u] # Nobody PROVE LiveIn(call', top'[u])
    OBVIOUS
  <2>1. CASE u = t
    BY <1>3, <1>5, <2>1 DEF Live, LiveIn
  <2>2. CASE u # t
    <3>1. top'[u] = top[u] /\ top[u] # top[t] /\ top[u] \in Spans /\ Live(top[u])
      BY <1>1, <1>4, <2>2 DEF Links, SpanTypeOK, Busy
    <3> QED
      BY <1>3, <3>1 DEF Live, LiveIn
  <2> QED
    BY <2>1, <2>2
<1>7. \A u, w \in Threads : top'[u] = top'[w] /\ top'[u] # Nobody => u = w
  BY <1>1, <1>4 DEF Links
<1>8. \A s \in Spans : LiveIn(call', s) /\ call'[s].caller # Nobody =>
        LiveIn(call', call'[s].caller) /\ \A u \in Threads : top'[u] # call'[s].caller
  <2> SUFFICES ASSUME NEW s \in Spans, LiveIn(call', s), call'[s].caller # Nobody
               PROVE  LiveIn(call', call'[s].caller) /\ \A u \in Threads : top'[u] # call'[s].caller
    OBVIOUS
  <2>1. /\ call'[s].caller = call[s].caller /\ Live(s) /\ s # top[t]
        /\ call[s].caller \in Spans /\ Live(call[s].caller) /\ call[s].caller # top[t]
    BY <1>1, <1>2 DEF Links, SpanTypeOK, Call
  <2>2. LiveIn(call', call'[s].caller)
    BY <1>3, <2>1 DEF Live, LiveIn
  <2>3. call[s].caller # call[top[t]].caller
    BY <1>1, <2>1 DEF Links
  <2> QED
    BY <1>4, <2>1, <2>2, <2>3 DEF Links
<1>9. \A s, r \in Spans :
        LiveIn(call', s) /\ LiveIn(call', r) /\ call'[s].caller = call'[r].caller /\ call'[s].caller # Nobody => s = r
  BY <1>2 DEF Links
<1> QED
  BY <1>6, <1>7, <1>8, <1>9 DEF Links, Live

\* A span ended: its call is innermost.
LEMMA LinksOpen ==
  ASSUME SpanTypeOK, Links, NEW t \in Threads, NEW s \in Spans, OnEnd(t, s)
  PROVE  Links'
<1>1. /\ call'[s].at = "walking" /\ call'[s].caller = top[t]
      /\ \A r \in Spans \ {s} : call'[r] = call[r]
  BY DEF OnEnd, NoCall, SpanTypeOK
<1>2. top'[t] = s /\ \A u \in Threads \ {t} : top'[u] = top[u]
  BY DEF OnEnd, SpanTypeOK
<1>3. ~Live(s)
  BY DEF OnEnd, Live, LiveIn
<1>4. \A u \in Threads : top[u] # s
  BY <1>3, SpanAssumption DEF Links
<1>5. \A r \in Spans : Live(r) => call[r].caller # s
  BY <1>3, SpanAssumption DEF Links
<1>6. \A u \in Threads : top'[u] # Nobody => LiveIn(call', top'[u])
  BY <1>1, <1>2, <1>4 DEF Links, Live, LiveIn, SpanTypeOK
<1>7. \A u, w \in Threads : top'[u] = top'[w] /\ top'[u] # Nobody => u = w
  BY <1>2, <1>4 DEF Links
<1>8. ASSUME NEW r \in Spans, LiveIn(call', r), call'[r].caller # Nobody
      PROVE  LiveIn(call', call'[r].caller) /\ \A u \in Threads : top'[u] # call'[r].caller
  <2>1. CASE r = s
    <3>1. call'[r].caller = top[t] /\ top[t] \in Spans /\ top[t] # s /\ Live(top[t])
      BY <1>1, <1>4, <1>8, <2>1 DEF Links, SpanTypeOK
    <3>2. LiveIn(call', top[t])
      BY <1>1, <3>1 DEF Live, LiveIn
    <3>3. \A u \in Threads : top'[u] # top[t]
      BY <1>2, <3>1, SpanAssumption DEF Links
    <3> QED
      BY <3>1, <3>2, <3>3
  <2>2. CASE r # s
    <3>1. /\ Live(r) /\ call'[r].caller = call[r].caller /\ call[r].caller \in Spans \ {s}
          /\ Live(call[r].caller) /\ \A u \in Threads : top[u] # call[r].caller
      BY <1>1, <1>5, <1>8, <2>2 DEF Links, Live, LiveIn, SpanTypeOK, Call
    <3> QED
      BY <1>1, <1>2, <3>1 DEF Live, LiveIn
  <2> QED
    BY <2>1, <2>2
<1>9. ASSUME NEW q \in Spans, NEW r \in Spans, LiveIn(call', q), LiveIn(call', r),
             call'[q].caller = call'[r].caller, call'[q].caller # Nobody
      PROVE  q = r
  <2>1. \A x \in Spans \ {s} : LiveIn(call', x) => Live(x) /\ (call[x].caller # Nobody => call[x].caller # top[t])
    BY <1>1 DEF Links, Live, LiveIn
  <2> QED
    BY <1>1, <1>9, <2>1 DEF Links
<1> QED
  BY <1>6, <1>7, <1>8, <1>9 DEF Links, Live

-----------------------------------------------------------------------------
(* What the processor holds.                                               *)

\* Redacting and HeldIn, in the calls c.
RedactingIn(c, s) == c[s].at \in {"walking", "scanning", "unwritable", "warning"}

HeldBy(c, s) ==
  IF s = Nobody THEN Outside ELSE IF RedactingIn(c, s) THEN Own(s) ELSE c[s].outer

\* HeldFollowsCalls, of any calls and of what is held in them.
HeldIs(c, innermost, h) ==
  /\ \A t \in Threads : h[t] = HeldBy(c, innermost[t])
  /\ \A s \in Spans : LiveIn(c, s) => c[s].outer = HeldBy(c, c[s].caller)

\* HeldFollowsCalls is HeldIs of the calls, before and after a step.
LEMMA HeldIsHeld ==
  /\ HeldFollowsCalls <=> HeldIs(call, top, held)
  /\ HeldFollowsCalls' <=> HeldIs(call', top', held')
  BY DEF HeldFollowsCalls, HeldIs, HeldIn, HeldBy, Redacting, RedactingIn, Own, LiveIn

\* The innermost call moved on, and what is held follows: it is masked as
\* before, or it has been left and what it found is held again.
LEMMA HeldMove ==
  ASSUME SpanTypeOK, Links, HeldIs(call, top, held), NEW t \in Threads, Busy(t), top' = top,
         \A s \in Spans \ {top[t]} : call'[s] = call[s],
         call'[top[t]].caller = call[top[t]].caller, call'[top[t]].outer = call[top[t]].outer,
         LiveIn(call', top[t]),
         \A u \in Threads \ {t} : held'[u] = held[u],
         \/ held'[t] = held[t] /\ (RedactingIn(call, top[t]) <=> RedactingIn(call', top[t]))
         \/ held'[t] = call[top[t]].outer /\ ~RedactingIn(call', top[t])
  PROVE  HeldIs(call', top', held')
<1>1. top[t] \in Spans /\ Live(top[t])
  BY DEF Busy, Links, SpanTypeOK
<1>2. \A r \in (Spans \cup {Nobody}) \ {top[t]} : HeldBy(call', r) = HeldBy(call, r)
  BY DEF HeldBy, RedactingIn
<1>3. held'[t] = HeldBy(call', top[t])
  BY <1>1, SpanAssumption DEF HeldIs, HeldBy, RedactingIn, Busy
<1>4. \A u \in Threads \ {t} : held'[u] = HeldBy(call', top[u])
  BY <1>1, <1>2 DEF HeldIs, Links, Busy, SpanTypeOK
<1>5. ASSUME NEW s \in Spans, LiveIn(call', s) PROVE call'[s].outer = HeldBy(call', call'[s].caller)
  <2>1. Live(s) /\ call'[s].caller = call[s].caller /\ call'[s].outer = call[s].outer
    BY <1>1, <1>5 DEF Live, LiveIn
  <2>2. call[s].caller # top[t] /\ call[s].caller \in Spans \cup {Nobody}
    BY <2>1 DEF Links, Busy, SpanTypeOK, Call
  <2> QED
    BY <1>2, <2>1, <2>2 DEF HeldIs, Live, LiveIn
<1> QED
  BY <1>3, <1>4, <1>5 DEF HeldIs, LiveIn

\* The innermost call returned and left what it had found.
LEMMA HeldReturn ==
  ASSUME SpanTypeOK, Links, HeldIs(call, top, held), NEW t \in Threads, Busy(t), Return(t),
         held' = [held EXCEPT ![t] = call[top[t]].outer]
  PROVE  HeldIs(call', top', held')
<1>1. top[t] \in Spans /\ Live(top[t])
  BY DEF Busy, Links, SpanTypeOK
<1>2. /\ \A s \in Spans \ {top[t]} : call'[s] = call[s]
      /\ ~LiveIn(call', top[t])
  BY <1>1 DEF Return, GoTo, LiveIn, SpanTypeOK
<1>3. \A r \in (Spans \cup {Nobody}) \ {top[t]} : HeldBy(call', r) = HeldBy(call, r)
  BY <1>2 DEF HeldBy, RedactingIn
<1>4. /\ top'[t] = call[top[t]].caller /\ held'[t] = call[top[t]].outer
      /\ \A u \in Threads \ {t} : top'[u] = top[u] /\ held'[u] = held[u]
  BY DEF Return, SpanTypeOK
<1>5. call[top[t]].caller \in Spans \cup {Nobody} /\ call[top[t]].caller # top[t]
  BY <1>1, SpanAssumption DEF Links, SpanTypeOK, Call
<1>6. held'[t] = HeldBy(call', top'[t])
  BY <1>1, <1>3, <1>4, <1>5 DEF HeldIs, Live, LiveIn
<1>7. \A u \in Threads \ {t} : held'[u] = HeldBy(call', top'[u])
  BY <1>1, <1>3, <1>4 DEF HeldIs, Links, Busy, SpanTypeOK
<1>8. ASSUME NEW s \in Spans, LiveIn(call', s) PROVE call'[s].outer = HeldBy(call', call'[s].caller)
  <2>1. Live(s) /\ call'[s] = call[s]
    BY <1>2, <1>8 DEF Live, LiveIn
  <2>2. call[s].caller # top[t] /\ call[s].caller \in Spans \cup {Nobody}
    BY <2>1 DEF Links, Busy, SpanTypeOK, Call
  <2> QED
    BY <1>3, <2>1, <2>2 DEF HeldIs, Live, LiveIn
<1> QED
  BY <1>6, <1>7, <1>8 DEF HeldIs, LiveIn

\* A span ended: its own counter and budget are held.
LEMMA HeldOpen ==
  ASSUME SpanTypeOK, Links, HeldIs(call, top, held), NEW t \in Threads, NEW s \in Spans, OnEnd(t, s)
  PROVE  HeldIs(call', top', held')
<1>1. /\ call'[s].at = "walking" /\ call'[s].caller = top[t] /\ call'[s].outer = held[t]
      /\ \A r \in Spans \ {s} : call'[r] = call[r]
  BY DEF OnEnd, NoCall, SpanTypeOK
<1>2. /\ top'[t] = s /\ held'[t] = Own(s)
      /\ \A u \in Threads \ {t} : top'[u] = top[u] /\ held'[u] = held[u]
  BY DEF OnEnd, Fresh, Own, SpanTypeOK
<1>3. ~Live(s)
  BY DEF OnEnd, Live, LiveIn
<1>4. \A r \in (Spans \cup {Nobody}) \ {s} : HeldBy(call', r) = HeldBy(call, r)
  BY <1>1 DEF HeldBy, RedactingIn
<1>5. HeldBy(call', s) = Own(s)
  BY <1>1, SpanAssumption DEF HeldBy, RedactingIn, Own
<1>6. \A u \in Threads : top[u] # s /\ top[u] \in Spans \cup {Nobody}
  BY <1>3, SpanAssumption DEF Links, SpanTypeOK
<1>7. \A u \in Threads : held'[u] = HeldBy(call', top'[u])
  BY <1>2, <1>4, <1>5, <1>6 DEF HeldIs
<1>8. ASSUME NEW r \in Spans, LiveIn(call', r) PROVE call'[r].outer = HeldBy(call', call'[r].caller)
  <2>1. CASE r = s
    BY <1>1, <1>4, <1>6, <2>1 DEF HeldIs
  <2>2. CASE r # s
    <3>1. Live(r) /\ call'[r] = call[r] /\ call[r].caller \in Spans \cup {Nobody}
      BY <1>1, <1>8, <2>2 DEF Live, LiveIn, SpanTypeOK, Call
    <3>2. call[r].caller # s
      BY <1>3, <3>1, SpanAssumption DEF Links
    <3> QED
      BY <1>4, <3>1, <3>2 DEF HeldIs, Live, LiveIn
  <2> QED
    BY <2>1, <2>2
<1> QED
  BY <1>7, <1>8 DEF HeldIs, LiveIn

-----------------------------------------------------------------------------
(* The inductive invariant.                                                *)

\* While a span is masked the processor holds its own counter and budget.
LEMMA HoldsOwn ==
  ASSUME SpanInv, NEW t \in Threads, Busy(t), Redacting(top[t])
  PROVE  top[t] \in Spans /\ held[t] = Own(top[t])
  BY SpanAssumption DEF SpanInv, SpanTypeOK, HeldFollowsCalls, HeldIn, Own, Busy

\* A step of the innermost call, while its span is masked, that leaves it masked:
\* what was final stays so.
LEMMA FinalMove ==
  ASSUME SpanInv, NEW t \in Threads, Busy(t), Redacting(top[t]), RedactingIn(call', top[t]),
         \A s \in Spans \ {top[t]} :
           call'[s] = call[s] /\ became'[s] = became[s] /\ texts'[s] = texts[s],
         outcomes' = outcomes, exported' = exported
  PROVE  Final'
<1>1. top[t] \in Spans
  BY DEF SpanInv, SpanTypeOK, Busy
<1>2. \A i \in DOMAIN outcomes : outcomes[i].span \in Spans
  <2>1. outcomes \in Seq(Outcome)
    BY DEF SpanInv, SpanTypeOK
  <2>2. \A i \in DOMAIN outcomes : outcomes[i] \in Outcome
    BY <2>1
  <2> QED
    BY <2>2 DEF Outcome
<1>3. \A i \in DOMAIN outcomes : outcomes[i].span # top[t]
  BY <1>1, <1>2 DEF SpanInv, Final, Redacting
<1>4. top[t] \notin exported /\ exported \subseteq Spans
  BY <1>1 DEF SpanInv, SpanTypeOK, Final, Redacting
<1> QED
  BY <1>1, <1>2, <1>3, <1>4 DEF SpanInv, Final, RedactingIn

\* Only the place of the innermost call changes.
LEMMA GoToCall ==
  ASSUME call \in [Spans -> Call], NEW t \in Threads, top[t] \in Spans,
         NEW place \in Places, GoTo(t, place)
  PROVE  /\ call' \in [Spans -> Call]
         /\ call'[top[t]].at = place
         /\ call'[top[t]].caller = call[top[t]].caller /\ call'[top[t]].outer = call[top[t]].outer
         /\ call'[top[t]].values = call[top[t]].values
         /\ \A s \in Spans \ {top[t]} : call'[s] = call[s]
<1>1. call[top[t]] \in Call
  OBVIOUS
<1>2. /\ [call[top[t]] EXCEPT !.at = place] \in Call
      /\ [call[top[t]] EXCEPT !.at = place].at = place
      /\ [call[top[t]] EXCEPT !.at = place].caller = call[top[t]].caller
      /\ [call[top[t]] EXCEPT !.at = place].outer = call[top[t]].outer
      /\ [call[top[t]] EXCEPT !.at = place].values = call[top[t]].values
  BY <1>1 DEF Call
<1>3. call' = [call EXCEPT ![top[t]] = [call[top[t]] EXCEPT !.at = place]]
  BY DEF GoTo
<1> QED
  BY <1>2, <1>3

\* The same of leaving a span, which also keeps its counts.
LEMMA LeaveCall ==
  ASSUME SpanInv, NEW t \in Threads, Busy(t), Redacting(top[t]),
         NEW place \in Places, Leave(t, place)
  PROVE  /\ call' \in [Spans -> Call]
         /\ call'[top[t]].at = place
         /\ call'[top[t]].caller = call[top[t]].caller /\ call'[top[t]].outer = call[top[t]].outer
         /\ call'[top[t]].values = became[top[t]]
         /\ \A s \in Spans \ {top[t]} : call'[s] = call[s]
         /\ held' \in [Threads -> Holder] /\ held'[t] = call[top[t]].outer
         /\ \A u \in Threads \ {t} : held'[u] = held[u]
<1>1. top[t] \in Spans /\ held[t].counter = top[t]
  <2>1. top[t] \in Spans /\ held[t] = Own(top[t])
    BY HoldsOwn
  <2> QED
    BY <2>1 DEF Own
<1>2. call \in [Spans -> Call] /\ call[top[t]] \in Call /\ became[top[t]] \in Counts /\ counter = became
  BY <1>1 DEF SpanInv, SpanTypeOK
<1> DEFINE left == [call[top[t]] EXCEPT !.at = place, !.values = became[top[t]]]
<1>3. /\ left \in Call /\ left.at = place /\ left.values = became[top[t]]
      /\ left.caller = call[top[t]].caller /\ left.outer = call[top[t]].outer
  BY <1>2 DEF Call
<1>4. call' = [call EXCEPT ![top[t]] = left]
  BY <1>1, <1>2 DEF Leave
<1>5. held \in [Threads -> Holder] /\ call[top[t]].outer \in Holder
  BY <1>2 DEF SpanInv, SpanTypeOK, Call
<1> QED
  BY <1>1, <1>2, <1>3, <1>4, <1>5 DEF Leave, Restored

\* Masking a text keeps the invariant.
LEMMA MaskedInv ==
  ASSUME SpanInv, NEW t \in Threads, Busy(t), call[top[t]].at \in {"walking", "scanning"},
         NEW kind \in Kinds, NEW what \in Becomings, texts[top[t]][kind] > 0,
         Masked(t, kind, what, Own(top[t])), budget' \in [Spans -> Budget],
         UNCHANGED <<top, held, quiet, exported, reporting, outcomes, warned>>
  PROVE  SpanInv'
<1>1. top[t] \in Spans /\ Live(top[t]) /\ Redacting(top[t])
  BY DEF SpanInv, SpanTypeOK, Busy, Live, LiveIn, Redacting
<1>2. PICK place \in {"walking", "unwritable"} :
        /\ GoTo(t, place)
        /\ texts' = texts \/ texts' = [texts EXCEPT ![top[t]][kind] = @ - 1]
  BY DEF Masked
<1>3. /\ call' \in [Spans -> Call]
      /\ call'[top[t]].at = place
      /\ call'[top[t]].caller = call[top[t]].caller /\ call'[top[t]].outer = call[top[t]].outer
      /\ \A s \in Spans \ {top[t]} : call'[s] = call[s]
  BY <1>1, <1>2, GoToCall DEF SpanInv, SpanTypeOK, Places
<1>4. /\ counter' = [counter EXCEPT ![top[t]][what] = @ + 1]
      /\ became' = [became EXCEPT ![top[t]][what] = @ + 1]
  BY DEF Masked, Own
<1>5. became' \in [Spans -> Counts] /\ counter' = became'
  <2>1. became \in [Spans -> Counts] /\ counter = became
    BY DEF SpanInv, SpanTypeOK
  <2>2. [became[top[t]] EXCEPT ![what] = @ + 1] \in Counts
    BY <1>1, <2>1 DEF Counts
  <2>3. became' = [became EXCEPT ![top[t]] = [became[top[t]] EXCEPT ![what] = @ + 1]]
    BY <1>4
  <2> QED
    BY <1>1, <1>4, <2>1, <2>2, <2>3
<1>6. texts' \in [Spans -> [Kinds -> Nat]]
  <2>1. texts \in [Spans -> [Kinds -> Nat]]
    BY DEF SpanInv, SpanTypeOK
  <2>2. [texts[top[t]] EXCEPT ![kind] = @ - 1] \in [Kinds -> Nat]
    BY <1>1, <2>1
  <2> QED
    BY <1>1, <1>2, <2>1, <2>2
<1>7. SpanTypeOK'
  BY <1>3, <1>5, <1>6 DEF SpanInv, SpanTypeOK
<1>8. Links'
  BY <1>1, <1>3, LinksMove DEF SpanInv, LiveIn
<1>9. HeldFollowsCalls'
  <2>1. HeldIs(call', top', held')
    BY <1>1, <1>3, HeldMove, HeldIsHeld DEF SpanInv, LiveIn, Redacting, RedactingIn
  <2> QED
    BY <2>1, HeldIsHeld
<1>10. \A s \in Spans \ {top[t]} : texts'[s] = texts[s] /\ became'[s] = became[s]
  BY <1>2, <1>4 DEF SpanInv, SpanTypeOK
<1>11. Scanning'
  BY <1>3, <1>10 DEF SpanInv, Scanning
<1>12. Final'
  BY <1>1, <1>3, <1>10, FinalMove DEF RedactingIn
<1> QED
  BY <1>5, <1>7, <1>8, <1>9, <1>11, <1>12 DEF SpanInv

\* The masker is given a text: Masked, or the text is handed to the core.
LEMMA MaskTextInv ==
  ASSUME SpanInv, NEW t \in Threads, NEW kind \in Kinds, MaskText(t, kind)
  PROVE  SpanInv'
<1>1. Busy(t) /\ call[top[t]].at = "walking" /\ texts[top[t]][kind] > 0
  BY DEF MaskText, At, HasText
<1>2. top[t] \in Spans /\ held[t] = Own(top[t])
  BY <1>1, HoldsOwn DEF Redacting
<1>3. budget[top[t]] \in Budget
  BY <1>2 DEF SpanInv, SpanTypeOK
<1>4. Walked(budget[top[t]]) \in Budget /\ ChargedScan(Walked(budget[top[t]]), 0) \in Budget
  <2>1. Charged(budget[top[t]], "nodes", 1) \in Budget
    BY <1>3, ChargedMeter DEF Meters
  <2>2. Walked(budget[top[t]]) \in Budget
    BY <2>1, ChargedMeter DEF Walked, Meters
  <2> QED
    BY <2>2, ChargedScanMeters
<1>5. PICK spent \in Budget :
        /\ budget' = [budget EXCEPT ![top[t]] = spent]
        /\ \/ Masked(t, kind, "limited", Own(top[t]))
           \/ /\ call' = [call EXCEPT ![top[t]].at = "scanning", ![top[t]].text = kind,
                                     ![top[t]].leaf = Own(top[t])]
              /\ UNCHANGED <<counter, became, texts>>
  <2>1. held[t].budget = top[t]
    BY <1>2 DEF Own
  <2> QED
    BY <1>2, <1>4, <2>1 DEF MaskText
<1>6. UNCHANGED <<top, held, quiet, exported, reporting, outcomes, warned>>
  BY DEF MaskText
<1>7. budget' \in [Spans -> Budget]
  BY <1>2, <1>5 DEF SpanInv, SpanTypeOK
<1>8. CASE Masked(t, kind, "limited", Own(top[t]))
  BY <1>1, <1>6, <1>7, <1>8, MaskedInv DEF Becomings
<1>9. CASE /\ call' = [call EXCEPT ![top[t]].at = "scanning", ![top[t]].text = kind,
                                  ![top[t]].leaf = Own(top[t])]
           /\ UNCHANGED <<counter, became, texts>>
  <2> DEFINE now == [call[top[t]] EXCEPT !.at = "scanning", !.text = kind, !.leaf = Own(top[t])]
  <2>1. call \in [Spans -> Call] /\ call[top[t]] \in Call
    BY <1>2 DEF SpanInv, SpanTypeOK
  <2>2. /\ now \in Call /\ now.at = "scanning" /\ now.text = kind /\ now.leaf = Own(top[t])
        /\ now.caller = call[top[t]].caller /\ now.outer = call[top[t]].outer
    BY <1>2, <2>1 DEF Call, Places, Holder, Own
  <2>3. call' = [call EXCEPT ![top[t]] = now]
    BY <1>2, <1>9, <2>1
  <2>4. /\ call' \in [Spans -> Call]
        /\ call'[top[t]] = now
        /\ \A s \in Spans \ {top[t]} : call'[s] = call[s]
    BY <1>2, <2>1, <2>2, <2>3
  <2>5. SpanTypeOK'
    BY <1>6, <1>7, <1>9, <2>4 DEF SpanInv, SpanTypeOK
  <2>6. Links'
    BY <1>1, <1>6, <2>2, <2>4, LinksMove DEF SpanInv, LiveIn
  <2>7. HeldIs(call', top', held')
    BY <1>1, <1>6, <2>2, <2>4, HeldMove, HeldIsHeld DEF SpanInv, LiveIn, RedactingIn
  <2>8. Scanning'
    BY <1>1, <1>2, <1>9, <2>2, <2>4 DEF SpanInv, Scanning
  <2>9. Final'
    BY <1>1, <1>6, <1>9, <2>2, <2>4, FinalMove DEF Redacting, RedactingIn
  <2>10. counter' = became'
    BY <1>9 DEF SpanInv
  <2> QED
    BY <2>5, <2>6, <2>7, <2>8, <2>9, <2>10, HeldIsHeld DEF SpanInv
<1> QED
  BY <1>5, <1>8, <1>9

\* The core answers: the text is masked.
LEMMA CoreAnswersInv ==
  ASSUME SpanInv, NEW t \in Threads, CoreAnswers(t)
  PROVE  SpanInv'
<1>1. Busy(t) /\ call[top[t]].at = "scanning"
  BY DEF CoreAnswers, At
<1>2. top[t] \in Spans /\ call[top[t]].text \in Kinds
  BY <1>1 DEF Busy, SpanInv, SpanTypeOK, Call
<1>3. call[top[t]].leaf = Own(top[t]) /\ texts[top[t]][call[top[t]].text] > 0
  BY <1>1, <1>2 DEF SpanInv, Scanning
<1>4. budget[top[t]] \in Budget
  BY <1>2 DEF SpanInv, SpanTypeOK
<1>5. \A n \in {0, 1} : Charged(budget[top[t]], "findings", n) \in Budget
  BY <1>4, ChargedMeter DEF Meters
<1>6. PICK spent \in Budget, what \in Becomings :
        /\ budget' = [budget EXCEPT ![top[t]] = spent]
        /\ Masked(t, call[top[t]].text, what, Own(top[t]))
  <2>1. Own(top[t]).budget = top[t]
    BY DEF Own
  <2> QED
    BY <1>3, <1>5, <2>1 DEF CoreAnswers, Read, Scanned, Becomings
<1>7. budget' \in [Spans -> Budget]
  BY <1>2, <1>6 DEF SpanInv, SpanTypeOK
<1> QED
  BY <1>1, <1>2, <1>3, <1>6, <1>7, MaskedInv DEF CoreAnswers

\* A span that goes from one place to another while it is masked.
LEMMA StaysMaskedInv ==
  ASSUME SpanInv, NEW t \in Threads, Busy(t), Redacting(top[t]),
         NEW place \in {"unwritable", "warning"}, GoTo(t, place),
         UNCHANGED <<top, held, counter, budget, texts, quiet, exported, reporting, outcomes, warned, became>>
  PROVE  SpanInv'
<1>1. top[t] \in Spans
  BY HoldsOwn
<1>2. /\ call' \in [Spans -> Call]
      /\ call'[top[t]].at = place
      /\ call'[top[t]].caller = call[top[t]].caller /\ call'[top[t]].outer = call[top[t]].outer
      /\ \A s \in Spans \ {top[t]} : call'[s] = call[s]
  BY <1>1, GoToCall DEF SpanInv, SpanTypeOK, Places
<1>3. SpanTypeOK'
  BY <1>2 DEF SpanInv, SpanTypeOK
<1>4. Links'
  BY <1>2, LinksMove DEF SpanInv, LiveIn
<1>5. HeldIs(call', top', held')
  BY <1>2, HeldMove, HeldIsHeld DEF SpanInv, LiveIn, Redacting, RedactingIn
<1>6. Scanning'
  BY <1>2 DEF SpanInv, Scanning
<1>7. Final'
  BY <1>2, FinalMove DEF RedactingIn
<1> QED
  BY <1>3, <1>4, <1>5, <1>6, <1>7, HeldIsHeld DEF SpanInv

\* A span that is left: what it found is held again, and its counts are final.
LEMMA LeaveInv ==
  ASSUME SpanInv, NEW t \in Threads, Busy(t), Redacting(top[t]),
         NEW place \in {"forwarding", "dropped"}, Leave(t, place),
         UNCHANGED <<top, counter, budget, texts, quiet, reporting, outcomes, became>>,
         warned' \in BOOLEAN,
         \/ exported' = exported
         \/ /\ place = "forwarding" /\ texts[top[t]]["secret"] = 0
            /\ exported' = exported \cup {top[t]}
  PROVE  SpanInv'
<1>1. top[t] \in Spans
  BY HoldsOwn
<1>2. /\ call' \in [Spans -> Call]
      /\ call'[top[t]].at = place
      /\ call'[top[t]].caller = call[top[t]].caller /\ call'[top[t]].outer = call[top[t]].outer
      /\ call'[top[t]].values = became[top[t]]
      /\ \A s \in Spans \ {top[t]} : call'[s] = call[s]
      /\ held' \in [Threads -> Holder] /\ held'[t] = call[top[t]].outer
      /\ \A u \in Threads \ {t} : held'[u] = held[u]
  BY LeaveCall DEF Places
<1>3. SpanTypeOK'
  BY <1>1, <1>2 DEF SpanInv, SpanTypeOK
<1>4. Links'
  BY <1>2, LinksMove DEF SpanInv, LiveIn
<1>5. HeldIs(call', top', held')
  BY <1>2, HeldMove, HeldIsHeld DEF SpanInv, LiveIn, RedactingIn
<1>6. Scanning'
  BY <1>2 DEF SpanInv, Scanning
<1>7. Final'
  <2>1. outcomes \in Seq(Outcome)
    BY DEF SpanInv, SpanTypeOK
  <2>2. \A i \in DOMAIN outcomes : outcomes[i] \in Outcome
    BY <2>1
  <2>3. \A i \in DOMAIN outcomes : outcomes[i].span \in Spans \ {top[t]}
    BY <2>2 DEF SpanInv, Final, Redacting, Outcome
  <2>4. top[t] \notin exported /\ exported \subseteq Spans
    BY <1>1 DEF SpanInv, SpanTypeOK, Final, Redacting
  <2> QED
    BY <1>1, <1>2, <2>3, <2>4 DEF SpanInv, Final
<1> QED
  BY <1>3, <1>4, <1>5, <1>6, <1>7, HeldIsHeld DEF SpanInv

\* A call that returns.
LEMMA ReturnInv ==
  ASSUME SpanInv, NEW t \in Threads, Busy(t), Return(t),
         \/ held' = [held EXCEPT ![t] = call[top[t]].outer]
         \/ held' = held /\ ~Redacting(top[t]),
         reporting' \in [Threads -> BOOLEAN], warned' \in BOOLEAN,
         UNCHANGED <<counter, budget, texts, quiet, exported, outcomes, became>>
  PROVE  SpanInv'
<1>1. top[t] \in Spans /\ Live(top[t])
  BY DEF SpanInv, SpanTypeOK, Links, Busy
<1>2. /\ call' \in [Spans -> Call]
      /\ call'[top[t]].at = "over"
      /\ \A s \in Spans \ {top[t]} : call'[s] = call[s]
  BY <1>1, GoToCall DEF SpanInv, SpanTypeOK, Places, Return
<1>3. held' = [held EXCEPT ![t] = call[top[t]].outer]
  <2>1. CASE ~Redacting(top[t])
    <3>1. held[t] = call[top[t]].outer
      BY <1>1, <2>1, SpanAssumption DEF SpanInv, HeldFollowsCalls, HeldIn
    <3>2. held \in [Threads -> Holder]
      BY DEF SpanInv, SpanTypeOK
    <3> QED
      BY <3>1, <3>2
  <2> QED
    BY <2>1
<1>4. call[top[t]].outer \in Holder /\ call[top[t]].caller \in Spans \cup {Nobody}
  BY <1>1 DEF SpanInv, SpanTypeOK, Call
<1>5. SpanTypeOK'
  BY <1>2, <1>3, <1>4 DEF SpanInv, SpanTypeOK, Return
<1>6. Links'
  BY LinksReturn DEF SpanInv
<1>7. HeldIs(call', top', held')
  BY <1>3, HeldReturn, HeldIsHeld DEF SpanInv
<1>8. Scanning'
  BY <1>2 DEF SpanInv, Scanning
<1>9. Final'
  <2>1. outcomes \in Seq(Outcome)
    BY DEF SpanInv, SpanTypeOK
  <2>2. \A i \in DOMAIN outcomes : outcomes[i] \in Outcome
    BY <2>1
  <2>3. \A i \in DOMAIN outcomes : outcomes[i].span \in Spans
    BY <2>2 DEF Outcome
  <2>4. exported \subseteq Spans
    BY DEF SpanInv, SpanTypeOK
  <2> QED
    BY <1>1, <1>2, <2>3, <2>4 DEF SpanInv, Final
<1> QED
  BY <1>5, <1>6, <1>7, <1>8, <1>9, HeldIsHeld DEF SpanInv

\* A span that ends.
LEMMA OnEndInv ==
  ASSUME SpanInv, NEW t \in Threads, NEW s \in Spans, OnEnd(t, s)
  PROVE  SpanInv'
<1>1. /\ call' = [call EXCEPT ![s] = [NoCall EXCEPT !.at = "walking", !.caller = top[t], !.outer = held[t]]]
      /\ call[s].at = "open"
      /\ UNCHANGED <<counter, budget, texts, exported, reporting, outcomes, warned, became>>
  BY DEF OnEnd
<1>2. /\ top[t] \in Spans \cup {Nobody} /\ held[t] \in Holder
      /\ call \in [Spans -> Call]
  BY DEF SpanInv, SpanTypeOK
<1>3. [NoCall EXCEPT !.at = "walking", !.caller = top[t], !.outer = held[t]] \in Call
  BY <1>2 DEF NoCall, Call, Places, Kinds, Holder, Outside, NoCounts, Counts, Becomings
<1>4. /\ call' \in [Spans -> Call]
      /\ call'[s].at = "walking"
      /\ \A r \in Spans \ {s} : call'[r] = call[r]
  BY <1>1, <1>2, <1>3 DEF NoCall
<1>5. SpanTypeOK'
  <2>1. top' \in [Threads -> Spans \cup {Nobody}] /\ held' \in [Threads -> Holder]
    BY DEF OnEnd, Fresh, Holder, SpanInv, SpanTypeOK
  <2>2. quiet' \in SUBSET Spans
    BY DEF OnEnd, SpanInv, SpanTypeOK
  <2> QED
    BY <1>1, <1>4, <2>1, <2>2 DEF SpanInv, SpanTypeOK
<1>6. Links'
  BY LinksOpen DEF SpanInv
<1>7. HeldIs(call', top', held')
  BY HeldOpen, HeldIsHeld DEF SpanInv
<1>8. Scanning'
  BY <1>1, <1>4 DEF SpanInv, Scanning
<1>9. Final'
  <2>1. outcomes \in Seq(Outcome)
    BY DEF SpanInv, SpanTypeOK
  <2>2. \A i \in DOMAIN outcomes : outcomes[i] \in Outcome
    BY <2>1
  <2>3. \A i \in DOMAIN outcomes : outcomes[i].span \in Spans \ {s}
    BY <1>1, <2>2 DEF SpanInv, Final, Outcome
  <2>4. exported \subseteq Spans \ {s}
    BY <1>1 DEF SpanInv, SpanTypeOK, Final
  <2> QED
    BY <1>1, <1>4, <2>3, <2>4 DEF SpanInv, Final
<1>10. counter' = became'
  BY <1>1 DEF SpanInv
<1> QED
  BY <1>5, <1>6, <1>7, <1>8, <1>9, <1>10, HeldIsHeld DEF SpanInv

\* An observer that is told of a span is told its final counts.
LEMMA ToldInv ==
  ASSUME SpanInv, NEW t \in Threads, Busy(t), call[top[t]].at \in {"forwarding", "dropped"},
         GoTo(t, "reporting"), NEW dropped \in BOOLEAN,
         outcomes' = Append(outcomes, [span |-> top[t], values |-> call[top[t]].values, dropped |-> dropped]),
         reporting' \in [Threads -> BOOLEAN],
         UNCHANGED <<top, held, counter, budget, texts, quiet, exported, warned, became>>
  PROVE  SpanInv'
<1>1. top[t] \in Spans /\ ~Redacting(top[t])
  BY DEF SpanInv, SpanTypeOK, Busy, Redacting
<1>2. /\ call' \in [Spans -> Call]
      /\ call'[top[t]].at = "reporting"
      /\ call'[top[t]].caller = call[top[t]].caller /\ call'[top[t]].outer = call[top[t]].outer
      /\ \A s \in Spans \ {top[t]} : call'[s] = call[s]
  BY <1>1, GoToCall DEF SpanInv, SpanTypeOK, Places
<1> DEFINE outcome == [span |-> top[t], values |-> call[top[t]].values, dropped |-> dropped]
<1>3. call[top[t]] \in Call
  BY <1>1 DEF SpanInv, SpanTypeOK
<1>4. outcome \in Outcome
  BY <1>1, <1>3 DEF Outcome, Call
<1>5. outcomes \in Seq(Outcome)
  BY DEF SpanInv, SpanTypeOK
<1>6. outcomes' \in Seq(Outcome)
  BY <1>4, <1>5
<1>7. SpanTypeOK'
  BY <1>2, <1>6 DEF SpanInv, SpanTypeOK
<1>8. Links'
  BY <1>2, LinksMove DEF SpanInv, LiveIn
<1>9. HeldIs(call', top', held')
  BY <1>1, <1>2, HeldMove, HeldIsHeld DEF SpanInv, LiveIn, Redacting, RedactingIn
<1>10. Scanning'
  BY <1>2 DEF SpanInv, Scanning
<1>11. \A i \in DOMAIN outcomes' :
         /\ call'[outcomes'[i].span].at \in {"reporting", "over"}
         /\ outcomes'[i].values = became'[outcomes'[i].span]
  <2> SUFFICES ASSUME NEW i \in DOMAIN outcomes'
               PROVE  /\ call'[outcomes'[i].span].at \in {"reporting", "over"}
                      /\ outcomes'[i].values = became'[outcomes'[i].span]
    OBVIOUS
  <2>1. CASE i \in DOMAIN outcomes
    <3>1. outcomes'[i] = outcomes[i] /\ outcomes[i] \in Outcome
      BY <1>5, <2>1
    <3>2. outcomes[i].span \in Spans /\ outcomes[i].span # top[t]
      BY <2>1, <3>1 DEF Outcome, SpanInv, Final
    <3> QED
      BY <1>2, <2>1, <3>1, <3>2 DEF SpanInv, Final
  <2>2. CASE i \notin DOMAIN outcomes
    <3>1. outcomes'[i] = outcome
      BY <1>5, <2>2
    <3> QED
      BY <1>1, <1>2, <3>1 DEF SpanInv, Final
  <2> QED
    BY <2>1, <2>2
<1>12. Final'
  <2>1. exported \subseteq Spans
    BY DEF SpanInv, SpanTypeOK
  <2> QED
    BY <1>1, <1>2, <1>11, <2>1 DEF SpanInv, Final
<1> QED
  BY <1>7, <1>8, <1>9, <1>10, <1>12, HeldIsHeld DEF SpanInv

\* Every step keeps the invariant.
LEMMA SpanNextInv == SpanInv /\ [SpanNext]_spanVars => SpanInv'
<1> SUFFICES ASSUME SpanInv, [SpanNext]_spanVars PROVE SpanInv'
  OBVIOUS
<1>1. CASE UNCHANGED spanVars
  BY <1>1 DEF spanVars, SpanInv, SpanTypeOK, Links, Live, LiveIn, HeldFollowsCalls, HeldIn, Redacting,
              Scanning, Final
<1>2. ASSUME NEW t \in Threads, NEW s \in Spans, OnEnd(t, s) PROVE SpanInv'
  BY <1>2, OnEndInv
<1>3. ASSUME NEW t \in Threads, NEW kind \in Kinds, MaskText(t, kind) PROVE SpanInv'
  BY <1>3, MaskTextInv
<1>4. ASSUME NEW t \in Threads, CoreAnswers(t) PROVE SpanInv'
  BY <1>4, CoreAnswersInv
<1>5. ASSUME NEW t \in Threads, UnexpectedShape(t) PROVE SpanInv'
  BY <1>5, StaysMaskedInv DEF UnexpectedShape, At, Redacting
<1>6. ASSUME NEW t \in Threads, LookWarned(t) PROVE SpanInv'
  <2>1. Busy(t) /\ Redacting(top[t]) /\ warned \in BOOLEAN
    BY <1>6 DEF LookWarned, At, Redacting, SpanInv, SpanTypeOK
  <2>2. CASE Leave(t, "dropped")
    BY <1>6, <2>1, <2>2, LeaveInv DEF LookWarned
  <2>3. CASE GoTo(t, "warning") /\ UNCHANGED held
    BY <1>6, <2>1, <2>3, StaysMaskedInv DEF LookWarned
  <2> QED
    BY <1>6, <2>2, <2>3 DEF LookWarned
<1>7. ASSUME NEW t \in Threads, Warn(t) PROVE SpanInv'
  <2>1. Busy(t) /\ Redacting(top[t]) /\ warned' \in BOOLEAN
    BY <1>7 DEF Warn, At, Redacting
  <2>2. CASE Leave(t, "dropped") /\ UNCHANGED top
    BY <1>7, <2>1, <2>2, LeaveInv DEF Warn
  <2>3. CASE Return(t) /\ held' = [held EXCEPT ![t] = Restored(t)]
    <3>1. reporting' \in [Threads -> BOOLEAN]
      BY <1>7 DEF Warn, SpanInv, SpanTypeOK
    <3> QED
      BY <1>7, <2>1, <2>3, <3>1, ReturnInv DEF Warn, Restored
  <2> QED
    BY <1>7, <2>2, <2>3 DEF Warn
<1>8. ASSUME NEW t \in Threads, Forward(t) PROVE SpanInv'
  <2>1. Busy(t) /\ Redacting(top[t]) /\ warned' \in BOOLEAN
    BY <1>8 DEF Forward, Exports, At, Redacting, SpanInv, SpanTypeOK
  <2>2. texts[top[t]]["secret"] = 0
    <3>1. texts[top[t]]["secret"] \in Nat
      BY <2>1, HoldsOwn DEF SpanInv, SpanTypeOK, Kinds
    <3> QED
      BY <1>8, <3>1 DEF Forward, Exports, HasText, Kinds
  <2> QED
    BY <1>8, <2>1, <2>2, LeaveInv DEF Forward
<1>9. ASSUME NEW t \in Threads, Report(t) PROVE SpanInv'
  <2>1. Busy(t) /\ call[top[t]].at \in {"forwarding", "dropped"} /\ ~Redacting(top[t])
    BY <1>9 DEF Report, At, Redacting
  <2>2. reporting' \in [Threads -> BOOLEAN] /\ warned' \in BOOLEAN
    BY <1>9 DEF Report, SpanInv, SpanTypeOK
  <2>3. CASE MayReport(t)
    <3>1. At(t, "dropped") \in BOOLEAN
      BY DEF At
    <3> QED
      BY <1>9, <2>1, <2>2, <2>3, <3>1, ToldInv DEF Report
  <2>4. CASE ~MayReport(t)
    BY <1>9, <2>1, <2>2, <2>4, ReturnInv DEF Report
  <2> QED
    BY <2>3, <2>4
<1>10. ASSUME NEW t \in Threads, Notified(t) PROVE SpanInv'
  <2>1. Busy(t) /\ ~Redacting(top[t])
    BY <1>10 DEF Notified, At, Redacting
  <2>2. reporting' \in [Threads -> BOOLEAN] /\ warned' \in BOOLEAN
    BY <1>10 DEF Notified, SpanInv, SpanTypeOK
  <2> QED
    BY <1>10, <2>1, <2>2, ReturnInv DEF Notified
<1> QED
  BY <1>1, <1>2, <1>3, <1>4, <1>5, <1>6, <1>7, <1>8, <1>9, <1>10 DEF SpanNext

\* The invariant holds initially.
LEMMA SpanInitInv == SpanInit => SpanInv
<1> SUFFICES ASSUME SpanInit PROVE SpanInv
  OBVIOUS
<1>1. NoCall \in Call /\ NoCounts \in Counts /\ Outside \in Holder /\ FreshBudget \in Budget
  BY DEF NoCall, Call, NoCounts, Counts, Becomings, Outside, Holder, Places, Kinds, FreshBudget, Budget
<1>2. texts \in [Spans -> [Kinds -> Nat]]
  BY SpanAssumption DEF SpanInit
<1>3. SpanTypeOK
  <2>1. /\ call \in [Spans -> Call] /\ top \in [Threads -> Spans \cup {Nobody}]
        /\ held \in [Threads -> Holder] /\ reporting \in [Threads -> BOOLEAN]
    BY <1>1 DEF SpanInit
  <2>2. /\ counter \in [Spans -> Counts] /\ became \in [Spans -> Counts]
        /\ budget \in [Spans -> Budget]
    BY <1>1 DEF SpanInit
  <2>3. quiet \in SUBSET Spans /\ exported \in SUBSET Spans /\ warned \in BOOLEAN
    BY DEF SpanInit
  <2>4. outcomes \in Seq(Outcome)
    BY DEF SpanInit
  <2> QED
    BY <1>2, <2>1, <2>2, <2>3, <2>4 DEF SpanTypeOK
<1>4. Links /\ Scanning /\ Final /\ counter = became
  BY <1>1 DEF SpanInit, Links, Live, LiveIn, Scanning, Final, NoCall
<1>5. HeldFollowsCalls
  BY DEF SpanInit, HeldFollowsCalls, HeldIn, NoCall
<1> QED
  BY <1>3, <1>4, <1>5 DEF SpanInv

\* Every variable of the span processor stays in its type: SpanTypeOK.
THEOREM SpanTypeCorrect == SpanSpec => []SpanTypeOK
<1>1. SpanInv => SpanTypeOK
  BY DEF SpanInv
<1> QED
  BY <1>1, SpanInitInv, SpanNextInv, PTL DEF SpanSpec

\* A span being masked finds its own counter and budget, and a call leaves what
\* it found, however deep spans end inside one another: HeldFollowsCalls.
THEOREM HeldIsTheSpans == SpanSpec => []HeldFollowsCalls
<1>1. SpanInv => HeldFollowsCalls
  BY DEF SpanInv
<1> QED
  BY <1>1, SpanInitInv, SpanNextInv, PTL DEF SpanSpec

\* What is counted for a span and reported of it is what became of its own
\* texts: CountsAreTheSpans.
THEOREM CountsAreOwn == SpanSpec => []CountsAreTheSpans
<1>1. SpanInv => CountsAreTheSpans
  BY DEF SpanInv, Final, CountsAreTheSpans
<1> QED
  BY <1>1, SpanInitInv, SpanNextInv, PTL DEF SpanSpec

\* No span is exported with a secret that was not masked: ExportedIsMasked.
THEOREM NothingRawIsExported == SpanSpec => []ExportedIsMasked
<1>1. SpanInv => ExportedIsMasked
  BY DEF SpanInv, Final, ExportedIsMasked
<1> QED
  BY <1>1, SpanInitInv, SpanNextInv, PTL DEF SpanSpec

-----------------------------------------------------------------------------
(* A span ends as if it were alone.                                        *)

\* The observer of a thread is running if it was called for s, or if s ended
\* inside it.
Hushes(s) == s # Nobody /\ (call[s].at = "reporting" \/ s \in quiet)

\* The quiet spans are those that ended while an observer of their thread ran,
\* and it runs for as long as they do.
Quiet ==
  /\ \A t \in Threads : reporting[t] <=> Hushes(top[t])
  /\ \A s \in Spans : Live(s) => (s \in quiet <=> Hushes(call[s].caller))
  /\ \A s \in quiet : call[s].at \notin {"open", "reporting"}

\* A span is reported at most once, as what it was, and not if it is quiet.
ToldOnce ==
  /\ \A i \in DOMAIN outcomes : /\ outcomes[i].span \notin quiet
                                /\ outcomes[i].dropped <=> outcomes[i].span \notin exported
  /\ \A i, j \in DOMAIN outcomes : outcomes[i].span = outcomes[j].span => i = j
  /\ \A s \in Spans : call[s].at = "forwarding" => s \in exported

\* A span that is being reported has been, and one that is over, unless a
\* warning can raise past its report.
Told ==
  /\ \A s \in Spans : call[s].at = "reporting" => ReportsOf(s) # {}
  /\ ~WarningsRaise => \A s \in Spans : call[s].at = "over" /\ s \notin quiet => ReportsOf(s) # {}

\* The inductive invariant of EndsAsIfAlone.
AloneInv == SpanInv /\ PaysForItsOwn /\ Quiet /\ ToldOnce /\ Told

\* What is not about the span in progress does not change what others pay.
LEMMA PaysStep ==
  ASSUME PaysForItsOwn, NEW s \in Spans,
         \A r \in Spans \ {s} : budget'[r] = budget[r] /\ became'[r] = became[r] /\ call'[r] = call[r],
         budget'[s].spent["leaves"] <= Begun(s)',
         budget'[s].exhausted => became'[s]["limited"] > 0
  PROVE  PaysForItsOwn'
<1>1. \A r \in Spans \ {s} : Begun(r)' = Begun(r)
  BY DEF Begun
<1> QED
  BY <1>1 DEF PaysForItsOwn

\* A step that charges nothing and masks nothing.
LEMMA PaysKept ==
  ASSUME PaysForItsOwn, budget' = budget, became' = became,
         \A s \in Spans : call'[s].at = "scanning" <=> call[s].at = "scanning"
  PROVE  PaysForItsOwn'
<1>1. \A s \in Spans : Begun(s)' = Begun(s)
  BY DEF Begun
<1> QED
  BY <1>1 DEF PaysForItsOwn

\* The texts of a span that have become something.
Done(s) == became[s]["unchanged"] + became[s]["replaced"] + became[s]["limited"]

\* A masked text is one more of its span, and of no other.
LEMMA MaskedBegun ==
  ASSUME SpanInv, NEW t \in Threads, NEW s \in Spans, top[t] = s, NEW kind \in Kinds, NEW what \in Becomings,
         Masked(t, kind, what, Own(s))
  PROVE  /\ Done(s) \in Nat
         /\ Begun(s)' = Done(s) + 1
         /\ became'[s]["limited"] >= became[s]["limited"]
         /\ became[s]["limited"] \in Nat
         /\ what = "limited" => became'[s]["limited"] > 0
         /\ \A r \in Spans \ {s} : became'[r] = became[r] /\ call'[r] = call[r]
<1>1. top[t] = s /\ call \in [Spans -> Call] /\ became \in [Spans -> Counts]
  BY DEF SpanInv, SpanTypeOK
<1>2. PICK place \in {"walking", "unwritable"} : GoTo(t, place)
  BY DEF Masked, Own
<1>3. call'[s].at = place /\ \A r \in Spans \ {s} : call'[r] = call[r]
  BY <1>1, <1>2, GoToCall DEF Places
<1>4. became' = [became EXCEPT ![s][what] = @ + 1]
  BY DEF Masked, Own
<1>5. became[s] \in [Becomings -> Nat]
  BY <1>1 DEF Counts
<1>6. /\ became'[s] = [became[s] EXCEPT ![what] = @ + 1]
      /\ \A r \in Spans \ {s} : became'[r] = became[r]
  BY <1>1, <1>4
<1>7. /\ Done(s) \in Nat /\ became[s]["limited"] \in Nat
      /\ became'[s]["limited"] >= became[s]["limited"]
      /\ what = "limited" => became'[s]["limited"] > 0
  BY <1>5, <1>6 DEF Done, Becomings
<1>8. became'[s]["unchanged"] + became'[s]["replaced"] + became'[s]["limited"] = Done(s) + 1
  BY <1>5, <1>6 DEF Done, Becomings
<1>9. Begun(s)' = Done(s) + 1
  BY <1>3, <1>7, <1>8 DEF Begun
<1> QED
  BY <1>1, <1>3, <1>6, <1>7, <1>9

\* A text costs its span one leaf.
LEMMA TextCosts ==
  ASSUME NEW b \in Budget
  PROVE  /\ Walked(b) \in Budget /\ ChargedScan(Walked(b), 0) \in Budget
         /\ b.spent["leaves"] \in Nat
         /\ Walked(b).spent["leaves"] <= b.spent["leaves"] + 1
         /\ ChargedScan(Walked(b), 0).spent["leaves"] <= b.spent["leaves"] + 1
<1> DEFINE node == Charged(b, "nodes", 1)
<1>1. node \in Budget /\ node.spent["leaves"] = b.spent["leaves"]
  BY ChargedMeter DEF Meters
<1>2. b.spent["leaves"] \in Nat
  BY DEF Budget, Meters
<1> HIDE DEF node
<1>3. /\ Charged(node, "leaves", 1) \in Budget
      /\ Charged(node, "leaves", 1).spent["leaves"] <= node.spent["leaves"] + 1
  <2>1. "leaves" \in Meters
    BY DEF Meters
  <2>2. /\ Charged(node, "leaves", 1) \in Budget
        /\ \A m \in Meters : Charged(node, "leaves", 1).spent[m] =
              IF m = "leaves" /\ Fits(node, "leaves", 1) THEN node.spent[m] + 1 ELSE node.spent[m]
    BY <1>1, <2>1, ChargedMeter
  <2> QED
    BY <1>1, <1>2, <2>1, <2>2
<1>4. Walked(b) \in Budget /\ Walked(b).spent["leaves"] <= b.spent["leaves"] + 1
  BY <1>1, <1>3 DEF Walked, node
<1>5. /\ ChargedScan(Walked(b), 0) \in Budget
      /\ ChargedScan(Walked(b), 0).spent["leaves"] = Walked(b).spent["leaves"]
  BY <1>4, ChargedScanMeters DEF Meters
<1> QED
  BY <1>2, <1>4, <1>5

\* A span pays for the text it gives to the masker.
LEMMA MaskTextPays ==
  ASSUME SpanInv, PaysForItsOwn, NEW t \in Threads, NEW kind \in Kinds, MaskText(t, kind)
  PROVE  PaysForItsOwn'
<1>1. Busy(t) /\ call[top[t]].at = "walking"
  BY DEF MaskText, At
<1>2. PICK s \in Spans : top[t] = s /\ held[t] = Own(s) /\ held[t].budget = s
  BY <1>1, HoldsOwn DEF Redacting, Own
<1>3. budget \in [Spans -> Budget] /\ budget[s] \in Budget
  BY <1>2 DEF SpanInv, SpanTypeOK
<1>4. PICK spent \in Budget :
        /\ spent.spent["leaves"] <= budget[s].spent["leaves"] + 1
        /\ budget' = [budget EXCEPT ![s] = spent]
        /\ \/ Masked(t, kind, "limited", Own(s))
           \/ /\ ~spent.exhausted /\ became' = became
              /\ call' = [call EXCEPT ![s].at = "scanning", ![s].text = kind,
                                     ![s].leaf = Own(s)]
  BY <1>2, <1>3, TextCosts DEF MaskText
<1>5. /\ budget'[s] = spent /\ spent.spent["leaves"] \in Nat
      /\ \A r \in Spans \ {s} : budget'[r] = budget[r]
  BY <1>2, <1>3, <1>4 DEF Budget, Meters
<1>6. Done(s) \in Nat /\ Begun(s) = Done(s) /\ budget[s].spent["leaves"] \in Nat
  <2>1. became[s] \in [Becomings -> Nat]
    BY <1>2 DEF SpanInv, SpanTypeOK, Counts
  <2>2. Done(s) \in Nat
    BY <2>1 DEF Done, Becomings
  <2>3. Begun(s) = Done(s)
    BY <1>1, <1>2, <2>2 DEF Begun, Done
  <2> QED
    BY <1>3, <2>2, <2>3, TextCosts
<1>7. spent.spent["leaves"] <= Done(s) + 1
  BY <1>2, <1>4, <1>5, <1>6 DEF PaysForItsOwn
<1>8. CASE Masked(t, kind, "limited", Own(s))
  BY <1>1, <1>2, <1>5, <1>7, <1>8, MaskedBegun, PaysStep DEF Becomings
<1>9. CASE /\ ~spent.exhausted /\ became' = became
           /\ call' = [call EXCEPT ![s].at = "scanning", ![s].text = kind,
                                  ![s].leaf = Own(s)]
  <2>1. call \in [Spans -> Call] /\ call[s] \in Call
    BY <1>2 DEF SpanInv, SpanTypeOK
  <2>2. call'[s].at = "scanning" /\ \A r \in Spans \ {s} : call'[r] = call[r]
    <3>1. call' = [call EXCEPT ![s] =
                     [call[s] EXCEPT !.at = "scanning", !.text = kind, !.leaf = Own(s)]]
      BY <1>2, <1>9, <2>1
    <3> QED
      BY <1>2, <2>1, <3>1 DEF Call
  <2>3. Begun(s)' = Done(s) + 1
    BY <1>9, <2>2 DEF Begun, Done
  <2> QED
    BY <1>2, <1>5, <1>7, <1>9, <2>2, <2>3, PaysStep
<1> QED
  BY <1>4, <1>8, <1>9

\* The findings of a text are no leaves, and refusing them is counted.
LEMMA CoreAnswersPays ==
  ASSUME SpanInv, PaysForItsOwn, NEW t \in Threads, CoreAnswers(t)
  PROVE  PaysForItsOwn'
<1>1. Busy(t) /\ call[top[t]].at = "scanning"
  BY DEF CoreAnswers, At
<1>2. PICK s \in Spans : top[t] = s /\ call[s].text \in Kinds
  BY <1>1 DEF Busy, SpanInv, SpanTypeOK, Call
<1>3. call[s].leaf = Own(s) /\ Own(s).budget = s
  BY <1>1, <1>2 DEF SpanInv, Scanning, Own
<1>4. budget \in [Spans -> Budget] /\ budget[s] \in Budget
  BY <1>2 DEF SpanInv, SpanTypeOK
<1>5. \A n \in {0, 1} : /\ Charged(budget[s], "findings", n) \in Budget
                        /\ Charged(budget[s], "findings", n).spent["leaves"] = budget[s].spent["leaves"]
  <2>1. "findings" \in Meters /\ "leaves" \in Meters
    BY DEF Meters
  <2>2. \A n \in {0, 1} : /\ Charged(budget[s], "findings", n) \in Budget
                          /\ \A m \in Meters : m # "findings" =>
                               Charged(budget[s], "findings", n).spent[m] = budget[s].spent[m]
    BY <1>4, <2>1, ChargedMeter
  <2> QED
    BY <2>1, <2>2
<1>6. PICK spent \in Budget, what \in Becomings :
        /\ spent.spent["leaves"] = budget[s].spent["leaves"]
        /\ spent.exhausted => what = "limited"
        /\ budget' = [budget EXCEPT ![s] = spent]
        /\ Masked(t, call[s].text, what, Own(s))
  <2>1. PICK n \in {0, 1}, what \in Becomings :
          /\ Charged(budget[s], "findings", n).exhausted => what = "limited"
          /\ budget' = [budget EXCEPT ![s] = Charged(budget[s], "findings", n)]
          /\ Masked(t, call[s].text, what, Own(s))
    BY <1>2, <1>3 DEF CoreAnswers, Read, Scanned, Becomings
  <2> QED
    BY <1>5, <2>1
<1>7. /\ budget'[s] = spent
      /\ \A r \in Spans \ {s} : budget'[r] = budget[r]
  BY <1>2, <1>4, <1>6
<1>8. Begun(s) = Done(s) + 1
  BY <1>1, <1>2 DEF Begun, Done
<1>9. Begun(s)' = Begun(s)
  BY <1>1, <1>2, <1>6, <1>8, MaskedBegun
<1>10. spent.spent["leaves"] <= Begun(s)'
  BY <1>2, <1>6, <1>9 DEF PaysForItsOwn
<1> QED
  BY <1>1, <1>2, <1>6, <1>7, <1>10, MaskedBegun, PaysStep

\* The spans outcomes are about.
LEMMA OutcomesAreOfSpans ==
  ASSUME SpanInv
  PROVE  /\ \A i \in DOMAIN outcomes : outcomes[i].span \in Spans
         /\ \A i \in DOMAIN outcomes : call[outcomes[i].span].at \in {"reporting", "over"}
<1>1. outcomes \in Seq(Outcome)
  BY DEF SpanInv, SpanTypeOK
<1>2. \A i \in DOMAIN outcomes : outcomes[i] \in Outcome
  BY <1>1
<1> QED
  BY <1>2 DEF Outcome, SpanInv, Final

\* The innermost call moved on, and no observer was called.
LEMMA QuietMove ==
  ASSUME SpanInv, Quiet, NEW t \in Threads, Busy(t), top' = top, quiet' = quiet, reporting' = reporting,
         \A s \in Spans \ {top[t]} : call'[s] = call[s],
         call'[top[t]].caller = call[top[t]].caller, call[top[t]].at # "reporting",
         call'[top[t]].at \notin {"open", "over", "reporting"}
  PROVE  Quiet'
<1>1. PICK s \in Spans : top[t] = s /\ Live(s)
  BY DEF Busy, SpanInv, Links, SpanTypeOK
<1>2. \A r \in Spans : call'[r].at = "reporting" <=> call[r].at = "reporting"
  BY <1>1
<1>3. /\ \A r \in Spans : (LiveIn(call', r) <=> Live(r)) /\ call'[r].caller = call[r].caller
      /\ \A r \in Spans : call[r].caller \in Spans \cup {Nobody}
      /\ \A u \in Threads : top[u] \in Spans \cup {Nobody}
      /\ quiet \subseteq Spans
  BY <1>1 DEF Live, LiveIn, SpanInv, SpanTypeOK, Call
<1>4. \A r \in Spans \cup {Nobody} : Hushes(r)' <=> Hushes(r)
  BY <1>2 DEF Hushes
<1>5. \A u \in Threads : reporting'[u] <=> Hushes(top[u])'
  BY <1>3, <1>4 DEF Quiet
<1>6. \A r \in Spans : Live(r)' => (r \in quiet' <=> Hushes(call[r].caller)')
  BY <1>3, <1>4 DEF Quiet, Live
<1>7. \A r \in quiet' : call'[r].at \notin {"open", "reporting"}
  BY <1>1, <1>3 DEF Quiet
<1> QED
  BY <1>5, <1>6, <1>7 DEF Quiet

\* A span ended: it is quiet if the observer is running.
LEMMA QuietOpen ==
  ASSUME SpanInv, Quiet, NEW t \in Threads, NEW s \in Spans, OnEnd(t, s)
  PROVE  Quiet'
<1>1. /\ call[s].at = "open" /\ s \notin quiet
      /\ call'[s].at = "walking" /\ call'[s].caller = top[t]
      /\ \A r \in Spans \ {s} : call'[r] = call[r]
  BY DEF OnEnd, NoCall, SpanInv, SpanTypeOK, Quiet
<1>2. /\ top'[t] = s /\ reporting' = reporting
      /\ \A u \in Threads \ {t} : top'[u] = top[u]
      /\ quiet' = IF reporting[t] THEN quiet \cup {s} ELSE quiet
  BY DEF OnEnd, SpanInv, SpanTypeOK
<1>3. /\ \A u \in Threads : top[u] \in Spans \cup {Nobody} /\ top[u] # s
      /\ quiet \subseteq Spans /\ s # Nobody
  BY <1>1, SpanAssumption DEF SpanInv, SpanTypeOK, Links, Live, LiveIn
<1>4. ASSUME NEW r \in (Spans \cup {Nobody}) \ {s}
      PROVE  /\ (r # Nobody /\ (call'[r].at = "reporting" \/ r \in quiet')) <=> Hushes(r)
  BY <1>1, <1>2 DEF Hushes
<1>5. ASSUME NEW u \in Threads
      PROVE  reporting'[u] <=> (top'[u] # Nobody /\ (call'[top'[u]].at = "reporting" \/ top'[u] \in quiet'))
  <2>1. CASE u = t
    BY <1>1, <1>2, <1>3, <2>1
  <2>2. CASE u # t
    BY <1>2, <1>3, <1>4, <2>2 DEF Quiet
  <2> QED
    BY <2>1, <2>2
<1>6. ASSUME NEW r \in Spans, LiveIn(call', r)
      PROVE  r \in quiet' <=> (call'[r].caller # Nobody /\
                                 (call'[call'[r].caller].at = "reporting" \/ call'[r].caller \in quiet'))
  <2>1. CASE r = s
    <3>1. top[t] \in (Spans \cup {Nobody}) \ {s} /\ (reporting[t] <=> Hushes(top[t]))
      BY <1>3 DEF Quiet
    <3> QED
      BY <1>1, <1>2, <1>4, <2>1, <3>1
  <2>2. CASE r # s
    <3>1. Live(r) /\ call'[r] = call[r] /\ call[r].caller \in Spans \cup {Nobody}
      BY <1>1, <1>6, <2>2 DEF Live, LiveIn, SpanInv, SpanTypeOK, Call
    <3>2. call[r].caller # s
      BY <1>1, <1>3, <3>1 DEF SpanInv, Links, Live, LiveIn
    <3>3. r \in quiet <=> Hushes(call[r].caller)
      BY <3>1 DEF Quiet
    <3> QED
      BY <1>2, <1>4, <2>2, <3>1, <3>2, <3>3
  <2> QED
    BY <2>1, <2>2
<1>7. \A r \in quiet' : call'[r].at \notin {"open", "reporting"}
  BY <1>1, <1>2, <1>3 DEF Quiet
<1> QED
  BY <1>5, <1>6, <1>7 DEF Quiet, Hushes, Live

\* The observer was called: whatever ends from now on is quiet.
LEMMA QuietTold ==
  ASSUME SpanInv, Quiet, NEW t \in Threads, Busy(t), ~reporting[t], call[top[t]].at \in {"forwarding", "dropped"},
         GoTo(t, "reporting"), reporting' = [reporting EXCEPT ![t] = TRUE], top' = top, quiet' = quiet
  PROVE  Quiet'
<1>1. PICK s \in Spans : top[t] = s /\ Live(s)
  BY DEF Busy, SpanInv, Links, SpanTypeOK
<1>2. /\ call'[s].at = "reporting" /\ call'[s].caller = call[s].caller
      /\ \A r \in Spans \ {s} : call'[r] = call[r]
  BY <1>1, GoToCall DEF Places, SpanInv, SpanTypeOK
<1>3. reporting'[t] = TRUE /\ \A u \in Threads \ {t} : reporting'[u] = reporting[u]
  BY DEF SpanInv, SpanTypeOK
<1>4. /\ \A r \in Spans : call[r].caller \in Spans \cup {Nobody}
      /\ \A u \in Threads : top[u] \in Spans \cup {Nobody}
      /\ quiet \subseteq Spans /\ s # Nobody
  BY SpanAssumption DEF SpanInv, SpanTypeOK, Call
<1>5. s \notin quiet
  BY <1>1, <1>4 DEF Quiet, Hushes
<1>6. \A r \in (Spans \cup {Nobody}) \ {s} :
        (r # Nobody /\ (call'[r].at = "reporting" \/ r \in quiet')) <=> Hushes(r)
  BY <1>2 DEF Hushes
<1>7. \A u \in Threads \ {t} : top[u] # s
  BY <1>1, <1>4 DEF SpanInv, Links
<1>8. \A u \in Threads : reporting'[u] <=> (top'[u] # Nobody /\ (call'[top'[u]].at = "reporting" \/ top'[u] \in quiet'))
  BY <1>1, <1>2, <1>3, <1>4, <1>6, <1>7 DEF Quiet
<1>9. ASSUME NEW r \in Spans, LiveIn(call', r)
      PROVE  r \in quiet' <=> (call'[r].caller # Nobody /\
                                 (call'[call'[r].caller].at = "reporting" \/ call'[r].caller \in quiet'))
  <2>1. Live(r) /\ call'[r].caller = call[r].caller
    BY <1>1, <1>2, <1>9 DEF Live, LiveIn
  <2>2. call[r].caller \in (Spans \cup {Nobody}) \ {s} /\ (r \in quiet <=> Hushes(call[r].caller))
    BY <1>1, <1>4, <2>1 DEF Quiet, SpanInv, Links
  <2> QED
    BY <1>6, <2>1, <2>2
<1>10. \A r \in quiet' : call'[r].at \notin {"open", "reporting"}
  BY <1>2, <1>4, <1>5 DEF Quiet
<1> QED
  BY <1>8, <1>9, <1>10 DEF Quiet, Hushes, Live

\* A call returned: the observer runs as it did for its caller.
LEMMA QuietReturn ==
  ASSUME SpanInv, Quiet, NEW t \in Threads, Busy(t), Return(t), quiet' = quiet,
         \/ call[top[t]].at # "reporting" /\ reporting' = reporting
         \/ call[top[t]].at = "reporting" /\ reporting' = [reporting EXCEPT ![t] = FALSE]
  PROVE  Quiet'
<1>1. PICK s \in Spans : top[t] = s /\ Live(s)
  BY DEF Busy, SpanInv, Links, SpanTypeOK
<1>2. /\ call'[s].at = "over"
      /\ \A r \in Spans \ {s} : call'[r] = call[r]
  BY <1>1, GoToCall DEF Places, SpanInv, SpanTypeOK, Return
<1>3. top'[t] = call[s].caller /\ \A u \in Threads \ {t} : top'[u] = top[u] /\ reporting'[u] = reporting[u]
  BY <1>1 DEF SpanInv, SpanTypeOK, Return
<1>4. /\ \A r \in Spans : call[r].caller \in Spans \cup {Nobody}
      /\ \A u \in Threads : top[u] \in Spans \cup {Nobody}
      /\ quiet \subseteq Spans /\ s # Nobody
  BY SpanAssumption DEF SpanInv, SpanTypeOK, Call
<1>5. \A r \in (Spans \cup {Nobody}) \ {s} :
        (r # Nobody /\ (call'[r].at = "reporting" \/ r \in quiet')) <=> Hushes(r)
  BY <1>2 DEF Hushes
<1>6. \A u \in Threads \ {t} : top[u] # s
  BY <1>1, <1>4 DEF SpanInv, Links
<1>7. \A r \in Spans : Live(r) => call[r].caller # s
  BY <1>1, <1>4 DEF SpanInv, Links
<1>8. reporting'[t] <=> Hushes(call[s].caller)
  <2>1. s \in quiet <=> Hushes(call[s].caller)
    BY <1>1 DEF Quiet
  <2>2. CASE call[s].at = "reporting"
    <3>1. s \notin quiet
      BY <2>2 DEF Quiet
    <3>2. reporting'[t] = FALSE
      BY <1>1, <2>2 DEF SpanInv, SpanTypeOK
    <3> QED
      BY <2>1, <3>1, <3>2
  <2>3. CASE call[s].at # "reporting"
    <3>1. reporting[t] <=> s \in quiet
      BY <1>1, <1>4, <2>3 DEF Quiet, Hushes
    <3>2. reporting' = reporting
      BY <1>1, <2>3
    <3> QED
      BY <2>1, <3>1, <3>2
  <2> QED
    BY <2>2, <2>3
<1>9. \A u \in Threads : reporting'[u] <=> (top'[u] # Nobody /\ (call'[top'[u]].at = "reporting" \/ top'[u] \in quiet'))
  <2> SUFFICES ASSUME NEW u \in Threads
               PROVE  reporting'[u] <=> (top'[u] # Nobody /\ (call'[top'[u]].at = "reporting" \/ top'[u] \in quiet'))
    OBVIOUS
  <2>1. CASE u = t
    <3>1. call[s].caller \in (Spans \cup {Nobody}) \ {s}
      BY <1>1, <1>4, <1>7
    <3> QED
      BY <1>3, <1>5, <1>8, <2>1, <3>1
  <2>2. CASE u # t
    BY <1>3, <1>4, <1>5, <1>6, <2>2 DEF Quiet
  <2> QED
    BY <2>1, <2>2
<1>10. ASSUME NEW r \in Spans, LiveIn(call', r)
       PROVE  r \in quiet' <=> (call'[r].caller # Nobody /\
                                  (call'[call'[r].caller].at = "reporting" \/ call'[r].caller \in quiet'))
  <2>1. Live(r) /\ call'[r] = call[r]
    BY <1>2, <1>10 DEF Live, LiveIn
  <2>2. call[r].caller \in (Spans \cup {Nobody}) \ {s} /\ (r \in quiet <=> Hushes(call[r].caller))
    BY <1>4, <1>7, <2>1 DEF Quiet
  <2> QED
    BY <1>5, <2>1, <2>2
<1>11. \A r \in quiet' : call'[r].at \notin {"open", "reporting"}
  BY <1>2, <1>4 DEF Quiet
<1> QED
  BY <1>9, <1>10, <1>11 DEF Quiet, Hushes, Live

-----------------------------------------------------------------------------
(* Each span is reported once.                                             *)

\* Nothing is reported, forwarded or over that was not.
LEMMA ToldKept ==
  ASSUME SpanInv, ToldOnce, Told, outcomes' = outcomes, exported' = exported, quiet' = quiet,
         \A s \in Spans : /\ call'[s].at = "forwarding" => call[s].at = "forwarding"
                          /\ call'[s].at = "reporting" => call[s].at = "reporting"
                          /\ call'[s].at = "over" =>
                               call[s].at \in {"over", "reporting"} \/ s \in quiet \/ WarningsRaise
  PROVE  ToldOnce' /\ Told'
<1>1. \A s \in Spans : ReportsOf(s)' = ReportsOf(s)
  BY DEF ReportsOf
<1>2. ToldOnce'
  BY DEF ToldOnce
<1>3. Told'
  BY <1>1 DEF Told
<1> QED
  BY <1>2, <1>3

\* A span that ends has not been reported.
LEMMA ToldOpen ==
  ASSUME SpanInv, ToldOnce, Told, NEW t \in Threads, NEW s \in Spans, OnEnd(t, s)
  PROVE  ToldOnce' /\ Told'
<1>1. /\ call[s].at = "open" /\ call'[s].at = "walking"
      /\ \A r \in Spans \ {s} : call'[r] = call[r]
      /\ UNCHANGED <<outcomes, exported>>
  BY DEF OnEnd, NoCall, SpanInv, SpanTypeOK
<1>2. quiet \subseteq quiet' /\ quiet' \subseteq quiet \cup {s}
  BY DEF OnEnd
<1>3. \A i \in DOMAIN outcomes : outcomes[i].span \in Spans /\ outcomes[i].span # s
  BY <1>1, OutcomesAreOfSpans
<1>4. \A r \in Spans : ReportsOf(r)' = ReportsOf(r)
  BY <1>1 DEF ReportsOf
<1>5. ToldOnce'
  BY <1>1, <1>2, <1>3 DEF ToldOnce
<1>6. Told'
  <2>1. \A r \in Spans : call'[r].at \in {"reporting", "over"} => r # s /\ call'[r] = call[r]
    BY <1>1
  <2> QED
    BY <1>2, <1>4, <2>1 DEF Told
<1> QED
  BY <1>5, <1>6

\* A span that is left has not been reported, and is exported if it is forwarded.
LEMMA ToldLeave ==
  ASSUME SpanInv, ToldOnce, Told, NEW t \in Threads, Busy(t), Redacting(top[t]),
         NEW place \in {"forwarding", "dropped"}, Leave(t, place), UNCHANGED <<quiet, outcomes>>,
         \/ place = "dropped" /\ exported' = exported
         \/ place = "forwarding" /\ exported' = exported \cup {top[t]}
  PROVE  ToldOnce' /\ Told'
<1>1. PICK s \in Spans : top[t] = s
  BY HoldsOwn
<1>2. call'[s].at = place /\ \A r \in Spans \ {s} : call'[r] = call[r]
  BY <1>1, LeaveCall DEF Places
<1>3. \A i \in DOMAIN outcomes : outcomes[i].span \in Spans /\ outcomes[i].span # s
  BY <1>1, OutcomesAreOfSpans DEF Redacting
<1>4. \A r \in Spans : ReportsOf(r)' = ReportsOf(r)
  BY DEF ReportsOf
<1>5. ToldOnce'
  BY <1>1, <1>2, <1>3 DEF ToldOnce
<1>6. Told'
  <2>1. \A r \in Spans : call'[r].at \in {"reporting", "over"} => call'[r] = call[r]
    BY <1>2
  <2> QED
    BY <1>4, <2>1 DEF Told
<1> QED
  BY <1>5, <1>6

\* A span is reported: for the first time, and as what it was.
LEMMA ToldReport ==
  ASSUME SpanInv, Quiet, ToldOnce, Told, NEW t \in Threads, Busy(t), ~reporting[t],
         call[top[t]].at \in {"forwarding", "dropped"}, GoTo(t, "reporting"), UNCHANGED <<quiet, exported>>,
         outcomes' = Append(outcomes, [span |-> top[t], values |-> call[top[t]].values,
                                       dropped |-> (call[top[t]].at = "dropped")])
  PROVE  ToldOnce' /\ Told'
<1>1. PICK s \in Spans : top[t] = s /\ s # Nobody
  BY SpanAssumption DEF Busy, SpanInv, SpanTypeOK
<1>2. call'[s].at = "reporting" /\ \A r \in Spans \ {s} : call'[r] = call[r]
  BY <1>1, GoToCall DEF Places, SpanInv, SpanTypeOK
<1>3. s \notin quiet
  BY <1>1 DEF Quiet, Hushes
<1>4. \A i \in DOMAIN outcomes : outcomes[i].span \in Spans /\ outcomes[i].span # s
  BY <1>1, OutcomesAreOfSpans
<1>5. call[s].at = "dropped" <=> s \notin exported
  BY <1>1 DEF ToldOnce, SpanInv, Final
<1> DEFINE outcome == [span |-> s, values |-> call[s].values, dropped |-> (call[s].at = "dropped")]
<1>6. outcome.span = s /\ (outcome.dropped <=> s \notin exported)
  BY <1>5
<1>7. outcomes' = Append(outcomes, outcome) /\ outcomes \in Seq(Outcome)
  BY <1>1 DEF SpanInv, SpanTypeOK
<1> HIDE DEF outcome
<1>8. /\ DOMAIN outcomes = 1 .. Len(outcomes) /\ Len(outcomes) \in Nat
      /\ DOMAIN outcomes' = 1 .. Len(outcomes) + 1
      /\ outcomes'[Len(outcomes) + 1] = outcome
      /\ \A i \in DOMAIN outcomes : outcomes'[i] = outcomes[i]
  BY <1>7
<1>9. \A i \in DOMAIN outcomes' : i \in DOMAIN outcomes \/ i = Len(outcomes) + 1
  BY <1>8
<1>10. ToldOnce'
  <2>1. \A i \in DOMAIN outcomes' : /\ outcomes'[i].span \notin quiet
                                    /\ outcomes'[i].dropped <=> outcomes'[i].span \notin exported
    BY <1>3, <1>6, <1>8, <1>9 DEF ToldOnce
  <2>2. \A i, j \in DOMAIN outcomes' : outcomes'[i].span = outcomes'[j].span => i = j
    BY <1>4, <1>6, <1>8, <1>9 DEF ToldOnce
  <2>3. \A r \in Spans : call'[r].at = "forwarding" => r \in exported
    BY <1>2 DEF ToldOnce
  <2> QED
    BY <2>1, <2>2, <2>3 DEF ToldOnce
<1>11. Told'
  <2>1. \A r \in Spans : ReportsOf(r) # {} => ReportsOf(r)' # {}
    <3>1. \A r \in Spans : ReportsOf(r) \subseteq ReportsOf(r)'
      BY <1>8 DEF ReportsOf
    <3> QED
      BY <3>1
  <2>2. ReportsOf(s)' # {}
    <3>1. Len(outcomes) + 1 \in ReportsOf(s)'
      BY <1>6, <1>8 DEF ReportsOf
    <3> QED
      BY <3>1
  <2>3. \A r \in Spans \ {s} : call'[r] = call[r]
    BY <1>2
  <2> QED
    BY <2>1, <2>2, <2>3 DEF Told
<1> QED
  BY <1>10, <1>11

\* Every step keeps the invariant.
LEMMA AloneNextInv == AloneInv /\ [SpanNext]_spanVars => AloneInv'
<1> SUFFICES ASSUME AloneInv, [SpanNext]_spanVars PROVE AloneInv'
  OBVIOUS
<1>0. SpanInv /\ PaysForItsOwn /\ Quiet /\ ToldOnce /\ Told
  BY DEF AloneInv
<1>i. SpanInv'
  BY <1>0, SpanNextInv
<1> SUFFICES PaysForItsOwn' /\ Quiet' /\ ToldOnce' /\ Told'
  BY <1>i DEF AloneInv
<1>1. CASE UNCHANGED spanVars
  <2>1. \A s \in Spans : ReportsOf(s)' = ReportsOf(s) /\ Begun(s)' = Begun(s)
    BY <1>1 DEF spanVars, ReportsOf, Begun
  <2> QED
    BY <1>0, <1>1, <2>1 DEF spanVars, PaysForItsOwn, Quiet, Hushes, Live, LiveIn, ToldOnce, Told
<1>2. ASSUME NEW t \in Threads, NEW s \in Spans, OnEnd(t, s)
      PROVE  PaysForItsOwn' /\ Quiet' /\ ToldOnce' /\ Told'
  <2>1. /\ budget' = budget /\ became' = became
        /\ call[s].at = "open" /\ call'[s].at = "walking" /\ \A r \in Spans \ {s} : call'[r] = call[r]
    BY <1>0, <1>2 DEF OnEnd, NoCall, SpanInv, SpanTypeOK
  <2>2. PaysForItsOwn'
    BY <1>0, <2>1, PaysKept
  <2> QED
    BY <1>0, <1>2, <2>2, QuietOpen, ToldOpen
<1>3. ASSUME NEW t \in Threads, Busy(t), Redacting(top[t]), Redacting(top[t])', NEW s \in Spans, top[t] = s,
             \A r \in Spans \ {s} : call'[r] = call[r], call'[s].caller = call[s].caller,
             UNCHANGED <<top, quiet, exported, reporting, outcomes>>
      PROVE  Quiet' /\ ToldOnce' /\ Told'
  <2>1. /\ call'[s].at \in {"walking", "scanning", "unwritable", "warning"}
        /\ call[s].at \in {"walking", "scanning", "unwritable", "warning"}
    BY <1>3 DEF Redacting
  <2>2. Quiet'
    BY <1>0, <1>3, <2>1, QuietMove
  <2>3. ToldOnce' /\ Told'
    BY <1>0, <1>3, <2>1, ToldKept
  <2> QED
    BY <2>2, <2>3
<1>4. ASSUME NEW t \in Threads, NEW kind \in Kinds, MaskText(t, kind)
      PROVE  PaysForItsOwn' /\ Quiet' /\ ToldOnce' /\ Told'
  <2>1. PICK s \in Spans : top[t] = s /\ Busy(t) /\ call[s].at = "walking"
    BY <1>0, <1>4 DEF MaskText, At, Busy, SpanInv, SpanTypeOK
  <2>2. /\ UNCHANGED <<top, quiet, exported, reporting, outcomes>>
        /\ \/ \E place \in {"walking", "unwritable"} : GoTo(t, place)
           \/ call' = [call EXCEPT ![top[t]].at = "scanning", ![top[t]].text = kind, ![top[t]].leaf = held[t]]
    BY <1>4 DEF MaskText, Masked
  <2>3. /\ call'[s].at \in {"walking", "scanning", "unwritable"} /\ call'[s].caller = call[s].caller
        /\ \A r \in Spans \ {s} : call'[r] = call[r]
    <3>1. call \in [Spans -> Call] /\ call[s] \in Call
      BY <1>0 DEF SpanInv, SpanTypeOK
    <3>2. CASE \E place \in {"walking", "unwritable"} : GoTo(t, place)
      BY <2>1, <3>1, <3>2, GoToCall DEF Places
    <3>3. CASE call' = [call EXCEPT ![top[t]].at = "scanning", ![top[t]].text = kind, ![top[t]].leaf = held[t]]
      <4>1. call' = [call EXCEPT ![s] = [call[s] EXCEPT !.at = "scanning", !.text = kind, !.leaf = held[t]]]
        BY <2>1, <3>1, <3>3
      <4> QED
        BY <3>1, <4>1 DEF Call
    <3> QED
      BY <2>2, <3>2, <3>3
  <2>4. Redacting(top[t]) /\ Redacting(top[t])'
    BY <2>1, <2>2, <2>3 DEF Redacting
  <2>5. Quiet' /\ ToldOnce' /\ Told'
    BY <1>3, <2>1, <2>2, <2>3, <2>4
  <2> QED
    BY <1>0, <1>4, <2>5, MaskTextPays
<1>5. ASSUME NEW t \in Threads, CoreAnswers(t)
      PROVE  PaysForItsOwn' /\ Quiet' /\ ToldOnce' /\ Told'
  <2>1. PICK s \in Spans : top[t] = s /\ Busy(t) /\ call[s].at = "scanning"
    BY <1>0, <1>5 DEF CoreAnswers, At, Busy, SpanInv, SpanTypeOK
  <2>2. /\ UNCHANGED <<top, quiet, exported, reporting, outcomes>>
        /\ \E place \in {"walking", "unwritable"} : GoTo(t, place)
    BY <1>5 DEF CoreAnswers, Masked
  <2>3. /\ call'[s].at \in {"walking", "unwritable"} /\ call'[s].caller = call[s].caller
        /\ \A r \in Spans \ {s} : call'[r] = call[r]
    BY <1>0, <2>1, <2>2, GoToCall DEF Places, SpanInv, SpanTypeOK
  <2>4. Redacting(top[t]) /\ Redacting(top[t])'
    BY <2>1, <2>2, <2>3 DEF Redacting
  <2>5. Quiet' /\ ToldOnce' /\ Told'
    BY <1>3, <2>1, <2>2, <2>3, <2>4
  <2> QED
    BY <1>0, <1>5, <2>5, CoreAnswersPays
<1>6. ASSUME NEW t \in Threads, Busy(t), call[top[t]].at \in {"walking", "unwritable"},
             NEW place \in {"unwritable", "warning"}, GoTo(t, place),
             UNCHANGED <<top, budget, quiet, exported, reporting, outcomes, became>>
      PROVE  PaysForItsOwn' /\ Quiet' /\ ToldOnce' /\ Told'
  <2>1. PICK s \in Spans : top[t] = s
    BY <1>0, <1>6 DEF Busy, SpanInv, SpanTypeOK
  <2>2. /\ call'[s].at = place /\ call'[s].caller = call[s].caller
        /\ \A r \in Spans \ {s} : call'[r] = call[r]
    BY <1>0, <1>6, <2>1, GoToCall DEF Places, SpanInv, SpanTypeOK
  <2>3. Redacting(top[t]) /\ Redacting(top[t])'
    BY <1>6, <2>1, <2>2 DEF Redacting
  <2>4. PaysForItsOwn'
    BY <1>0, <1>6, <2>1, <2>2, PaysKept
  <2> QED
    BY <1>3, <1>6, <2>1, <2>2, <2>3, <2>4
<1>7. ASSUME NEW t \in Threads, Busy(t), call[top[t]].at \in {"walking", "unwritable", "warning"},
             NEW place \in {"forwarding", "dropped"}, Leave(t, place),
             UNCHANGED <<top, budget, quiet, reporting, outcomes, became>>,
             \/ place = "dropped" /\ exported' = exported
             \/ place = "forwarding" /\ exported' = exported \cup {top[t]}
      PROVE  PaysForItsOwn' /\ Quiet' /\ ToldOnce' /\ Told'
  <2>1. PICK s \in Spans : top[t] = s
    BY <1>0, <1>7 DEF Busy, SpanInv, SpanTypeOK
  <2>2. Redacting(top[t])
    BY <1>7 DEF Redacting
  <2>3. /\ call'[s].at = place /\ call'[s].caller = call[s].caller
        /\ \A r \in Spans \ {s} : call'[r] = call[r]
    BY <1>0, <1>7, <2>1, <2>2, LeaveCall DEF Places
  <2>4. PaysForItsOwn'
    BY <1>0, <1>7, <2>1, <2>3, PaysKept
  <2>5. Quiet'
    BY <1>0, <1>7, <2>1, <2>3, QuietMove
  <2> QED
    BY <1>0, <1>7, <2>2, <2>4, <2>5, ToldLeave
<1>8. ASSUME NEW t \in Threads, Busy(t), Return(t), call[top[t]].at # "scanning",
             UNCHANGED <<budget, quiet, exported, outcomes, became>>,
             call[top[t]].at = "reporting" \/ top[t] \in quiet \/ WarningsRaise,
             \/ call[top[t]].at # "reporting" /\ reporting' = reporting
             \/ call[top[t]].at = "reporting" /\ reporting' = [reporting EXCEPT ![t] = FALSE]
      PROVE  PaysForItsOwn' /\ Quiet' /\ ToldOnce' /\ Told'
  <2>1. PICK s \in Spans : top[t] = s
    BY <1>0, <1>8 DEF Busy, SpanInv, SpanTypeOK
  <2>2. call'[s].at = "over" /\ \A r \in Spans \ {s} : call'[r] = call[r]
    BY <1>0, <1>8, <2>1, GoToCall DEF Places, SpanInv, SpanTypeOK, Return
  <2>3. PaysForItsOwn'
    BY <1>0, <1>8, <2>1, <2>2, PaysKept
  <2>4. Quiet'
    BY <1>0, <1>8, QuietReturn
  <2>5. ToldOnce' /\ Told'
    BY <1>0, <1>8, <2>1, <2>2, ToldKept
  <2> QED
    BY <2>3, <2>4, <2>5
<1>9. ASSUME NEW t \in Threads, UnexpectedShape(t) PROVE PaysForItsOwn' /\ Quiet' /\ ToldOnce' /\ Told'
  BY <1>6, <1>9 DEF UnexpectedShape, At
<1>10. ASSUME NEW t \in Threads, LookWarned(t) PROVE PaysForItsOwn' /\ Quiet' /\ ToldOnce' /\ Told'
  <2>1. CASE Leave(t, "dropped")
    BY <1>7, <1>10, <2>1 DEF LookWarned, At
  <2>2. CASE GoTo(t, "warning")
    BY <1>6, <1>10, <2>2 DEF LookWarned, At
  <2> QED
    BY <1>10, <2>1, <2>2 DEF LookWarned
<1>11. ASSUME NEW t \in Threads, Warn(t) PROVE PaysForItsOwn' /\ Quiet' /\ ToldOnce' /\ Told'
  <2>1. CASE Leave(t, "dropped") /\ UNCHANGED top
    BY <1>7, <1>11, <2>1 DEF Warn, At
  <2>2. CASE WarningsRaise /\ Return(t)
    BY <1>8, <1>11, <2>2 DEF Warn, At
  <2> QED
    BY <1>11, <2>1, <2>2 DEF Warn
<1>12. ASSUME NEW t \in Threads, Forward(t) PROVE PaysForItsOwn' /\ Quiet' /\ ToldOnce' /\ Told'
  BY <1>7, <1>12 DEF Forward, Exports, At
<1>13. ASSUME NEW t \in Threads, Report(t) PROVE PaysForItsOwn' /\ Quiet' /\ ToldOnce' /\ Told'
  <2>1. Busy(t) /\ call[top[t]].at \in {"forwarding", "dropped"}
    BY <1>13 DEF Report, At
  <2>2. CASE MayReport(t)
    <3>1. /\ ~reporting[t] /\ reporting' = [reporting EXCEPT ![t] = TRUE] /\ GoTo(t, "reporting")
          /\ UNCHANGED <<top, budget, quiet, exported, became>>
      BY <1>13, <2>2 DEF Report, MayReport
    <3>2. At(t, "dropped") = (call[top[t]].at = "dropped")
      BY <2>1 DEF At
    <3>3. outcomes' = Append(outcomes, [span |-> top[t], values |-> call[top[t]].values,
                                        dropped |-> (call[top[t]].at = "dropped")])
      BY <1>13, <2>2, <3>2 DEF Report
    <3>4. Quiet'
      BY <1>0, <2>1, <3>1, QuietTold
    <3>5. ToldOnce' /\ Told'
      BY <1>0, <2>1, <3>1, <3>3, ToldReport
    <3>6. PaysForItsOwn'
      <4>1. top[t] \in Spans /\ call \in [Spans -> Call]
        BY <1>0, <2>1 DEF Busy, SpanInv, SpanTypeOK
      <4>2. call'[top[t]].at = "reporting" /\ \A r \in Spans \ {top[t]} : call'[r] = call[r]
        BY <3>1, <4>1, GoToCall DEF Places
      <4> QED
        BY <1>0, <2>1, <3>1, <4>2, PaysKept
    <3> QED
      BY <3>4, <3>5, <3>6
  <2>3. CASE ~MayReport(t)
    <3>1. top[t] \in quiet
      BY <1>0, <2>1, <2>3 DEF MayReport, Quiet, Hushes
    <3> QED
      BY <1>8, <1>13, <2>1, <2>3, <3>1 DEF Report
  <2> QED
    BY <2>2, <2>3
<1>14. ASSUME NEW t \in Threads, Notified(t) PROVE PaysForItsOwn' /\ Quiet' /\ ToldOnce' /\ Told'
  BY <1>8, <1>14 DEF Notified, At
<1> QED
  BY <1>1, <1>2, <1>4, <1>5, <1>9, <1>10, <1>11, <1>12, <1>13, <1>14 DEF SpanNext

\* The invariant holds initially.
LEMMA AloneInitInv == SpanInit => AloneInv
<1> SUFFICES ASSUME SpanInit PROVE AloneInv
  OBVIOUS
<1>1. SpanInv
  BY SpanInitInv
<1>2. PaysForItsOwn
  <2>1. ASSUME NEW s \in Spans PROVE budget[s].spent["leaves"] = 0 /\ ~budget[s].exhausted /\ Begun(s) = 0
    BY DEF SpanInit, FreshBudget, Begun, NoCall, NoCounts, Becomings, Meters
  <2> QED
    BY <2>1 DEF PaysForItsOwn
<1>3. Quiet
  BY DEF SpanInit, Quiet, Hushes, Live, LiveIn, NoCall
<1>4. ToldOnce /\ Told
  BY DEF SpanInit, ToldOnce, Told, NoCall
<1> QED
  BY <1>1, <1>2, <1>3, <1>4 DEF AloneInv

\* A span spends what its own texts cost, and is past its budget for no text but
\* one of its own, however spans end inside one another: PaysForItsOwn.
THEOREM EachPaysForItsOwn == SpanSpec => []PaysForItsOwn
<1>1. AloneInv => PaysForItsOwn
  BY DEF AloneInv
<1> QED
  BY <1>1, AloneInitInv, AloneNextInv, PTL DEF SpanSpec

\* Unless a warning can raise out of onEnd, a span also ends with exactly one
\* report, or none if an observer's own work ended it: EndsAsIfAlone.
THEOREM EndsAlone ==
  ASSUME ~WarningsRaise
  PROVE  SpanSpec => []EndsAsIfAlone
<1>1. ASSUME AloneInv
      PROVE  EndsAsIfAlone
  <2>1. ASSUME NEW s \in Spans, call[s].at = "over", s \in quiet
        PROVE  ReportsOf(s) = {}
    BY <1>1, <2>1 DEF AloneInv, ToldOnce, ReportsOf
  <2>2. ASSUME NEW s \in Spans, call[s].at = "over", s \notin quiet
        PROVE  \E i \in DOMAIN outcomes : ReportsOf(s) = {i} /\ (outcomes[i].dropped <=> s \notin exported)
    <3>1. ReportsOf(s) # {}
      BY <1>1, <2>2 DEF AloneInv, Told
    <3>2. PICK i \in DOMAIN outcomes : outcomes[i].span = s
      BY <3>1 DEF ReportsOf
    <3>3. ReportsOf(s) = {i}
      BY <1>1, <3>2 DEF AloneInv, ToldOnce, ReportsOf
    <3>4. outcomes[i].dropped <=> s \notin exported
      BY <1>1, <3>2 DEF AloneInv, ToldOnce
    <3> QED
      BY <3>2, <3>3, <3>4
  <2>3. OneOutcomePerSpan
    BY <2>1, <2>2 DEF OneOutcomePerSpan
  <2> QED
    BY <1>1, <2>3 DEF AloneInv, EndsAsIfAlone
<1> QED
  BY <1>1, AloneInitInv, AloneNextInv, PTL DEF SpanSpec
==============================================================================

------------------------- MODULE ObservatoryProofs -------------------------
(* The Observatory's counter is exact and bounded, no chain is sent twice  *)
(* or again once accepted, and consent is asked anew, for every set of     *)
(* chains and every limit.                                                 *)
EXTENDS Observatory, TLAPS

Entry == [chain : Chain, bound : BOOLEAN]
Queue == [already : SUBSET Chain, delayed : Seq(Entry), outstanding : Nat, flying : Seq(Chain),
          thrown : Nat]

(* What submitChain and the answers preserve of a queue.                   *)
Sound(q) ==
  /\ q \in Queue
  /\ Len(q.delayed) <= MAX_DELAYED
  /\ q.outstanding = Len(q.flying) + q.thrown
  /\ q.outstanding <= MAX_OUTSTANDING + 1

Inv ==
  /\ Sound(queue)
  /\ private_ok \in BOOLEAN /\ cache_submitted \in BOOLEAN
  /\ accepted \subseteq Chain /\ disowned \subseteq Chain

(* What to show of a queue made of its parts.                              *)
LEMMA SoundParts ==
  ASSUME NEW al \in SUBSET Chain, NEW de \in Seq(Entry), NEW ou \in Nat, NEW fl \in Seq(Chain),
         NEW th \in Nat,
         Len(de) <= MAX_DELAYED, ou = Len(fl) + th, ou <= MAX_OUTSTANDING + 1
  PROVE  Sound([already |-> al, delayed |-> de, outstanding |-> ou, flying |-> fl,
                thrown |-> th])
BY DEF Sound, Queue

(* A sound queue has these parts.                                          *)
LEMMA PartsOf ==
  ASSUME NEW q, Sound(q)
  PROVE  \E al \in SUBSET Chain, de \in Seq(Entry), ou \in Nat, fl \in Seq(Chain), th \in Nat :
           q = [already |-> al, delayed |-> de, outstanding |-> ou, flying |-> fl,
                thrown |-> th]
BY DEF Sound, Queue

(* submitChain looks at the counter before it raises it, so it is at most  *)
(* one above the limit afterwards.                                         *)
LEMMA SubmitSound ==
  ASSUME NEW q, Sound(q), NEW c \in Chain
  PROVE  \A r \in submitChain(q, c) : Sound(r)
<1>1. Sound(Delay(q, c))
  <2>1. CASE Len(q.delayed) < MAX_DELAYED /\ ~IsDelayed(q, c)
    <3> DEFINE e == [chain |-> c, bound |-> FALSE]
    <3>1. e \in Entry
      BY DEF Entry
    <3>2. /\ Append(q.delayed, e) \in Seq(Entry)
          /\ Len(Append(q.delayed, e)) = Len(q.delayed) + 1
      BY <3>1 DEF Sound, Queue
    <3>3. Len(q.delayed) + 1 <= MAX_DELAYED
      BY <2>1, ObservatoryConstants DEF Sound, Queue
    <3> HIDE DEF e
    <3>4. Delay(q, c) = [q EXCEPT !.delayed = Append(@, e)]
      BY <2>1 DEF Delay, e
    <3> QED BY <3>2, <3>3, <3>4 DEF Sound, Queue
  <2>2. CASE ~(Len(q.delayed) < MAX_DELAYED /\ ~IsDelayed(q, c))
    BY <2>2 DEF Delay
  <2> QED BY <2>1, <2>2
<1>2. CASE q.outstanding <= MAX_OUTSTANDING
  <2>1. /\ Append(q.flying, c) \in Seq(Chain)
        /\ Len(Append(q.flying, c)) = Len(q.flying) + 1
    BY DEF Sound, Queue
  <2>2. Sound(Send(q, c))
    <3>1. /\ q.already \cup {c} \in SUBSET Chain /\ q.delayed \in Seq(Entry)
          /\ q.outstanding + 1 \in Nat /\ q.thrown \in Nat
          /\ q.outstanding + 1 <= MAX_OUTSTANDING + 1
          /\ q.outstanding + 1 = Len(Append(q.flying, c)) + q.thrown
          /\ Len(q.delayed) <= MAX_DELAYED
      BY <1>2, <2>1, ObservatoryConstants DEF Sound, Queue
    <3> QED BY <2>1, <3>1, SoundParts DEF Send
  <2>3. Sound(SendThrows(q, c))
    <3>1. /\ q.already \cup {c} \in SUBSET Chain /\ q.delayed \in Seq(Entry)
          /\ q.flying \in Seq(Chain)
          /\ q.outstanding + 1 \in Nat /\ q.thrown + 1 \in Nat
          /\ q.outstanding + 1 <= MAX_OUTSTANDING + 1
          /\ q.outstanding + 1 = Len(q.flying) + (q.thrown + 1)
          /\ Len(q.delayed) <= MAX_DELAYED
      BY <1>2, ObservatoryConstants DEF Sound, Queue
    <3> QED BY <3>1, SoundParts DEF SendThrows
  <2>4. ~(q.outstanding > MAX_OUTSTANDING)
    BY <1>2, ObservatoryConstants DEF Sound, Queue
  <2> QED BY <2>2, <2>3, <2>4 DEF submitChain
<1>3. CASE ~(q.outstanding <= MAX_OUTSTANDING)
  <2>1. q.outstanding > MAX_OUTSTANDING
    BY <1>3, ObservatoryConstants DEF Sound, Queue
  <2> QED BY <1>1, <2>1 DEF submitChain
<1> QED BY <1>2, <1>3

(* An answered request leaves the queue and the counter together.          *)
LEMMA PoppedSound ==
  ASSUME NEW q, Sound(q), NEW i \in DOMAIN q.flying
  PROVE  Sound(Popped(q, i))
<1> DEFINE rest == RemoveAt(q.flying, i)
<1>1. /\ q.flying \in Seq(Chain)
      /\ i \in 1 .. Len(q.flying)
      /\ Len(q.flying) \in Nat
  BY DEF Sound, Queue
<1>2. /\ rest \in Seq(Chain)
      /\ Len(rest) = Len(q.flying) - 1
  <2>1. /\ SubSeq(q.flying, 1, i - 1) \in Seq(Chain)
        /\ Len(SubSeq(q.flying, 1, i - 1)) = i - 1
    BY <1>1
  <2>2. /\ SubSeq(q.flying, i + 1, Len(q.flying)) \in Seq(Chain)
        /\ Len(SubSeq(q.flying, i + 1, Len(q.flying))) = Len(q.flying) - i
    BY <1>1
  <2>3. rest = SubSeq(q.flying, 1, i - 1) \o SubSeq(q.flying, i + 1, Len(q.flying))
    BY DEF RemoveAt
  <2>4. \A s, t \in Seq(Chain) : s \o t \in Seq(Chain) /\ Len(s \o t) = Len(s) + Len(t)
    OBVIOUS
  <2> HIDE DEF rest
  <2>5. rest \in Seq(Chain) /\ Len(rest) = (i - 1) + (Len(q.flying) - i)
    BY <2>1, <2>2, <2>3, <2>4
  <2> QED BY <1>1, <2>5
<1> HIDE DEF rest
<1>3. Popped(q, i) = [already |-> q.already, delayed |-> q.delayed,
                      outstanding |-> q.outstanding - 1, flying |-> rest,
                      thrown |-> q.thrown]
  BY DEF Popped, rest
<1>4. /\ q.already \in SUBSET Chain /\ q.delayed \in Seq(Entry)
      /\ q.outstanding - 1 \in Nat /\ q.thrown \in Nat
      /\ q.outstanding - 1 = Len(rest) + q.thrown
      /\ q.outstanding - 1 <= MAX_OUTSTANDING + 1
      /\ Len(q.delayed) <= MAX_DELAYED
  BY <1>1, <1>2, ObservatoryConstants DEF Sound, Queue
<1>5. Sound([already |-> q.already, delayed |-> q.delayed,
             outstanding |-> q.outstanding - 1, flying |-> rest, thrown |-> q.thrown])
  BY <1>2, <1>4, SoundParts
<1> QED BY <1>3, <1>5

LEMMA ForgetSound ==
  ASSUME NEW q, Sound(q), NEW c
  PROVE  Sound(Forget(q, c))
BY DEF Sound, Queue, Forget

LEMMA RetryFirstSound ==
  ASSUME NEW q, Sound(q), CanRetry(q), NEW r \in RetryFirst(q)
  PROVE  Sound(r)
<1>1. q.delayed # <<>> /\ q.delayed[1].chain \in Chain
  <2>1. q.delayed \in Seq(Entry) /\ q.delayed # <<>>
    BY DEF Sound, Queue, CanRetry
  <2>2. q.delayed[1] \in Entry
    BY <2>1
  <2> QED BY <2>1, <2>2 DEF Entry
<1> PICK s \in submitChain(q, q.delayed[1].chain) :
      r = IF s.thrown = q.thrown THEN [s EXCEPT !.delayed = Tail(@)] ELSE s
  BY DEF RetryFirst
<1>2. Sound(s)
  BY <1>1, SubmitSound
<1>3. IsDelayed(q, q.delayed[1].chain)
  BY <1>1 DEF IsDelayed, Sound, Queue
<1>4. s.delayed = q.delayed
  <2>1. Delay(q, q.delayed[1].chain) = q
    BY <1>3 DEF Delay
  <2>2. /\ Send(q, q.delayed[1].chain).delayed = q.delayed
        /\ SendThrows(q, q.delayed[1].chain).delayed = q.delayed
    BY DEF Send, SendThrows, Sound, Queue
  <2> QED BY <2>1, <2>2 DEF submitChain
<1> PICK al \in SUBSET Chain, de \in Seq(Entry), ou \in Nat, fl \in Seq(Chain), th \in Nat :
      s = [already |-> al, delayed |-> de, outstanding |-> ou, flying |-> fl, thrown |-> th]
  BY <1>2, PartsOf
<1>5. CASE s.thrown = q.thrown
  <2>1. r = [already |-> al, delayed |-> Tail(de), outstanding |-> ou, flying |-> fl,
             thrown |-> th]
    BY <1>5
  <2>2. /\ Tail(de) \in Seq(Entry) /\ Len(Tail(de)) <= MAX_DELAYED
        /\ ou = Len(fl) + th /\ ou <= MAX_OUTSTANDING + 1
    <3>1. de # <<>>
      BY <1>1, <1>4
    <3> QED BY <1>2, <3>1, ObservatoryConstants DEF Sound
  <2>3. Sound([already |-> al, delayed |-> Tail(de), outstanding |-> ou, flying |-> fl,
               thrown |-> th])
    BY <2>2, SoundParts
  <2> QED BY <2>1, <2>3
<1>6. CASE s.thrown # q.thrown
  BY <1>2, <1>6
<1> QED BY <1>5, <1>6

LEMMA RetrySound ==
  ASSUME NEW q, Sound(q), NEW r \in Retry(q)
  PROVE  Sound(r)
<1>1. CASE CanRetry(q)
  <2> PICK s \in RetryFirst(q) :
        r \in IF CanRetry(s) /\ s.thrown = q.thrown THEN RetryFirst(s) ELSE {s}
    BY <1>1 DEF Retry
  <2>1. Sound(s)
    BY <1>1, RetryFirstSound
  <2> QED BY <2>1, RetryFirstSound
<1>2. CASE ~CanRetry(q)
  BY <1>2 DEF Retry
<1> QED BY <1>1, <1>2

LEMMA PlanRetrySound ==
  ASSUME NEW q, Sound(q), NEW c \in Chain
  PROVE  Sound(PlanRetry(q, c))
<1> DEFINE d == [i \in DOMAIN q.delayed |->
                   IF q.delayed[i].chain = c THEN [chain |-> c, bound |-> TRUE] ELSE q.delayed[i]]
<1>1. [chain |-> c, bound |-> TRUE] \in Entry
  BY DEF Entry
<1>2. q.delayed \in Seq(Entry) /\ DOMAIN q.delayed = 1 .. Len(q.delayed) /\ Len(q.delayed) \in Nat
  BY DEF Sound, Queue
<1>3. \A i \in 1 .. Len(q.delayed) : d[i] \in Entry
  <2> TAKE i \in 1 .. Len(q.delayed)
  <2>1. q.delayed[i] \in Entry
    BY <1>2
  <2>2. d[i] = IF q.delayed[i].chain = c THEN [chain |-> c, bound |-> TRUE] ELSE q.delayed[i]
    BY <1>2
  <2> HIDE DEF d
  <2> QED BY <1>1, <2>1, <2>2
<1>4. d \in Seq(Entry) /\ Len(d) = Len(q.delayed)
  <2>1. d = [i \in 1 .. Len(q.delayed) |-> d[i]]
    BY <1>2
  <2> HIDE DEF d
  <2>2. d \in [1 .. Len(q.delayed) -> Entry]
    BY <1>3, <2>1
  <2>3. \A n \in Nat : \A f \in [1 .. n -> Entry] : f \in Seq(Entry) /\ Len(f) = n
    OBVIOUS
  <2> QED BY <1>2, <2>2, <2>3
<1>5. PlanRetry(q, c) = IF Len(q.delayed) < MAX_DELAYED THEN [q EXCEPT !.delayed = d] ELSE q
  BY DEF PlanRetry
<1> HIDE DEF d
<1> PICK al \in SUBSET Chain, de \in Seq(Entry), ou \in Nat, fl \in Seq(Chain), th \in Nat :
      q = [already |-> al, delayed |-> de, outstanding |-> ou, flying |-> fl, thrown |-> th]
  BY PartsOf
<1>6. [q EXCEPT !.delayed = d] = [already |-> al, delayed |-> d, outstanding |-> ou,
                                  flying |-> fl, thrown |-> th]
  OBVIOUS
<1>7. Sound([q EXCEPT !.delayed = d])
  <2>1. Len(d) <= MAX_DELAYED /\ ou = Len(fl) + th /\ ou <= MAX_OUTSTANDING + 1
    BY <1>4 DEF Sound
  <2>2. Sound([already |-> al, delayed |-> d, outstanding |-> ou, flying |-> fl, thrown |-> th])
    BY <1>4, <2>1, SoundParts
  <2> QED BY <1>6, <2>2
<1> QED BY <1>5, <1>7

LEMMA BecomeSound ==
  ASSUME NEW q, Sound(q), Become(q)
  PROVE  Sound(queue')
BY DEF Become, Sound, Queue, queue

LEMMA AnsweredKeepsInv ==
  ASSUME Inv, Answered
  PROVE  Inv'
<1> PICK i \in DOMAIN inFlight : Succeeds(i) \/ WarnedOf(i) \/ Fails(i)
  BY DEF Answered
<1> DEFINE c == inFlight[i]
           p == Popped(queue, i)
<1>1. queue.flying = inFlight /\ inFlight \in Seq(Chain) /\ c \in Chain
  BY DEF Inv, Sound, Queue, queue
<1>2. Sound(p)
  BY <1>1, PoppedSound DEF Inv
<1>3. Sound(Forget(p, c))
  BY <1>2, ForgetSound
<1>4. StillDisowned(p) \subseteq Chain
  BY DEF Inv, StillDisowned
<1>5. \A b \in BOOLEAN : Settle(c, b) => accepted' \subseteq Chain
  BY <1>1 DEF Inv, Settle
<1>6. CASE Succeeds(i)
  <2>0. PICK r \in Retry(IF cache_submitted THEN p ELSE Forget(p, c)) : Become(r)
    BY <1>6 DEF Succeeds
  <2>1. Sound(r)
    BY <1>2, <1>3, RetrySound
  <2>2. Become(r) /\ Settle(c, cache_submitted) /\ disowned' = StillDisowned(p) /\ UNCHANGED prefs
    BY <1>6, <2>0 DEF Succeeds
  <2> HIDE DEF p, c
  <2>3. Sound(queue')
    BY <2>1, <2>2, BecomeSound
  <2> QED BY <1>4, <1>5, <2>2, <2>3 DEF Inv, prefs
<1>7. CASE WarnedOf(i)
  <2>1. Become(p) /\ Settle(c, TRUE) /\ disowned' = StillDisowned(p) /\ UNCHANGED prefs
    BY <1>7 DEF WarnedOf
  <2> HIDE DEF p, c
  <2>2. Sound(queue')
    BY <1>2, <2>1, BecomeSound
  <2> QED BY <1>4, <1>5, <2>1, <2>2 DEF Inv, prefs
<1>8. CASE Fails(i)
  <2> DEFINE r == PlanRetry(Forget(p, c), c)
  <2>1. Sound(r)
    BY <1>1, <1>3, PlanRetrySound
  <2>2. Become(r) /\ disowned' = StillDisowned(p) /\ UNCHANGED <<prefs, accepted>>
    BY <1>8 DEF Fails
  <2> HIDE DEF r, p, c
  <2>3. Sound(queue')
    BY <2>1, <2>2, BecomeSound
  <2> QED BY <1>4, <2>2, <2>3 DEF Inv, prefs
<1> QED BY <1>6, <1>7, <1>8

LEMMA InvInductive == Spec => []Inv
<1>1. Init => Inv
  BY ObservatoryConstants DEF Init, Inv, Sound, Queue, queue
<1>2. Inv /\ [Next]_vars => Inv'
  <2> SUFFICES ASSUME Inv, [Next]_vars PROVE Inv'
    OBVIOUS
  <2>1. ASSUME NEW c \in Chain, Examine(c) PROVE Inv'
    <3>1. (\E q \in submitChain(queue, c) : Become(q)) /\ UNCHANGED <<prefs, history>>
      BY <2>1 DEF Examine
    <3>2. Sound(queue')
      BY <3>1, SubmitSound, BecomeSound DEF Inv
    <3> QED BY <3>1, <3>2 DEF Inv, prefs, history
  <2>2. CASE Answered
    BY <2>2, AnsweredKeepsInv
  <2>3. CASE CookiesCleared
    <3>1. Range(inFlight) \subseteq Chain
      BY DEF Inv, Sound, Queue, queue, Range
    <3> QED BY <2>3, <3>1, ObservatoryConstants
          DEF CookiesCleared, Inv, Sound, Queue, queue, prefs
  <2>4. ASSUME NEW ok \in BOOLEAN, NEW cache \in BOOLEAN, SetPrefs(ok, cache) PROVE Inv'
    BY <2>4 DEF SetPrefs, Inv, Sound, Queue, queue, history
  <2>5. CASE UNCHANGED vars
    BY <2>5 DEF vars, Inv, Sound, queue, prefs, history
  <2> QED BY <2>1, <2>2, <2>3, <2>4, <2>5 DEF Next
<1> QED BY <1>1, <1>2, PTL DEF Spec

(* Every variable keeps its type and no more than MAX_DELAYED submissions  *)
(* are delayed.                                                            *)
THEOREM ObservatoryIsTyped == Spec => []TypeOK
<1>1. Inv => TypeOK
  BY DEF Inv, Sound, Queue, queue, Entry, TypeOK
<1> QED BY <1>1, InvInductive, PTL

(* However answers, retries and clears interleave, the counter is the      *)
(* number of XHRs in progress and of calls of send() that threw, and       *)
(* exceeds MAX_OUTSTANDING by one at most.                                 *)
THEOREM OutstandingIsExact == Spec => []OutstandingExact
<1>1. Inv => OutstandingExact
  BY DEF Inv, Sound, queue, OutstandingExact
<1> QED BY <1>1, InvInductive, PTL

-----------------------------------------------------------------------------
(* Which chains are in flight.                                             *)

(* A chain in flight is marked as submitted, and there once, unless it is  *)
(* one of the disowned; an accepted chain is marked, and not in flight.    *)
Once(q, accept, disown) ==
  /\ \A i, j \in DOMAIN q.flying : i # j /\ q.flying[i] = q.flying[j] => q.flying[i] \in disown
  /\ Range(q.flying) \ disown \subseteq q.already
  /\ accept \subseteq q.already /\ accept \cap Range(q.flying) = {}

OnceInv == Once(queue, accepted, disowned)

(* What a call begins, it begins with consent.                             *)
AsksConsent(q, r) ==
  \A c \in Private : ~private_ok /\ c \notin Range(q.flying) => c \notin Range(r.flying)

(* Putting off changes neither what is in flight nor what is marked.       *)
LEMMA DelayKeeps ==
  ASSUME NEW q, Sound(q), NEW c
  PROVE  Delay(q, c).flying = q.flying /\ Delay(q, c).already = q.already
BY DEF Delay, Sound, Queue

LEMMA SendRange ==
  ASSUME NEW q, Sound(q), NEW c \in Chain
  PROVE  /\ Range(Send(q, c).flying) = Range(q.flying) \cup {c}
         /\ Send(q, c).already = q.already \cup {c}
         /\ Send(q, c).flying = Append(q.flying, c)
         /\ SendThrows(q, c).flying = q.flying
         /\ SendThrows(q, c).already = q.already \cup {c}
<1>0. SendThrows(q, c).flying = q.flying /\ SendThrows(q, c).already = q.already \cup {c}
  BY DEF SendThrows
<1>1. Send(q, c).flying = Append(q.flying, c) /\ Send(q, c).already = q.already \cup {c}
  BY DEF Send
<1>2. q.flying \in Seq(Chain)
  BY DEF Sound, Queue
<1>3. Range(Append(q.flying, c)) = Range(q.flying) \cup {c}
  <2>1. /\ Append(q.flying, c) \in Seq(Chain) /\ Len(q.flying) \in Nat
        /\ Len(Append(q.flying, c)) = Len(q.flying) + 1
        /\ \A i \in 1 .. Len(q.flying) : Append(q.flying, c)[i] = q.flying[i]
        /\ Append(q.flying, c)[Len(q.flying) + 1] = c
    BY <1>2
  <2> QED BY <1>2, <2>1 DEF Range
<1> QED BY <1>0, <1>1, <1>3

LEMMA SubmitOnce ==
  ASSUME NEW q, Sound(q), NEW c \in Chain, NEW accept, NEW disown, Once(q, accept, disown),
         NEW r \in submitChain(q, c)
  PROVE  Once(r, accept, disown) /\ AsksConsent(q, r)
<1>1. CASE shouldSubmit(q, c) /\ ~(q.outstanding > MAX_OUTSTANDING)
  <2>1. r = Send(q, c) \/ r = SendThrows(q, c)
    BY <1>1 DEF submitChain
  <2>2. c \notin q.already /\ (c \in Private => private_ok)
    BY <1>1 DEF shouldSubmit
  <2>3. /\ Range(Send(q, c).flying) = Range(q.flying) \cup {c}
        /\ Send(q, c).already = q.already \cup {c}
        /\ Send(q, c).flying = Append(q.flying, c)
        /\ SendThrows(q, c).flying = q.flying
        /\ SendThrows(q, c).already = q.already \cup {c}
    BY SendRange
  <2>4. c \in Range(q.flying) => c \in disown
    BY <2>2 DEF Once
  <2>5. /\ q.flying \in Seq(Chain) /\ Len(q.flying) \in Nat
        /\ DOMAIN Append(q.flying, c) = 1 .. Len(q.flying) + 1
        /\ \A i \in 1 .. Len(q.flying) : Append(q.flying, c)[i] = q.flying[i]
        /\ Append(q.flying, c)[Len(q.flying) + 1] = c
    BY DEF Sound, Queue
  <2>6. \A i \in 1 .. Len(q.flying) : q.flying[i] = c => c \in disown
    BY <2>4, <2>5 DEF Range
  <2>7. ASSUME NEW i \in DOMAIN Append(q.flying, c), NEW j \in DOMAIN Append(q.flying, c),
               i # j, Append(q.flying, c)[i] = Append(q.flying, c)[j]
        PROVE  Append(q.flying, c)[i] \in disown
    <3>1. CASE i \in 1 .. Len(q.flying) /\ j \in 1 .. Len(q.flying)
      BY <2>5, <2>7, <3>1 DEF Once
    <3>2. CASE i = Len(q.flying) + 1 \/ j = Len(q.flying) + 1
      BY <2>5, <2>6, <2>7, <3>2
    <3> QED BY <2>5, <3>1, <3>2
  <2>8. CASE r = Send(q, c)
    BY <2>2, <2>3, <2>7, <2>8 DEF Once, AsksConsent
  <2>9. CASE r = SendThrows(q, c)
    BY <2>3, <2>9 DEF Once, AsksConsent
  <2> QED BY <2>1, <2>8, <2>9
<1>2. CASE ~(shouldSubmit(q, c) /\ ~(q.outstanding > MAX_OUTSTANDING))
  BY <1>2, DelayKeeps DEF submitChain, Once, AsksConsent
<1> QED BY <1>1, <1>2

LEMMA RetryFirstOnce ==
  ASSUME NEW q, Sound(q), CanRetry(q), NEW accept, NEW disown, Once(q, accept, disown),
         NEW r \in RetryFirst(q)
  PROVE  Once(r, accept, disown) /\ AsksConsent(q, r)
<1> DEFINE c == q.delayed[1].chain
<1> PICK s \in submitChain(q, c) :
      r = IF s.thrown = q.thrown THEN [s EXCEPT !.delayed = Tail(@)] ELSE s
  BY DEF RetryFirst
<1>1. c \in Chain
  <2>1. q.delayed \in Seq(Entry) /\ q.delayed # <<>>
    BY DEF Sound, Queue, CanRetry
  <2>2. q.delayed[1] \in Entry
    BY <2>1
  <2> QED BY <2>2 DEF Entry
<1> HIDE DEF c
<1>2. Sound(s) /\ Once(s, accept, disown) /\ AsksConsent(q, s)
  BY <1>1, SubmitSound, SubmitOnce
<1>3. r.flying = s.flying /\ r.already = s.already
  BY <1>2 DEF Sound, Queue
<1> QED BY <1>2, <1>3 DEF Once, AsksConsent

LEMMA RetryOnce ==
  ASSUME NEW q, Sound(q), NEW accept, NEW disown, Once(q, accept, disown), NEW r \in Retry(q)
  PROVE  Once(r, accept, disown) /\ AsksConsent(q, r)
<1>1. CASE CanRetry(q)
  <2> PICK s \in RetryFirst(q) :
        r \in IF CanRetry(s) /\ s.thrown = q.thrown THEN RetryFirst(s) ELSE {s}
    BY <1>1 DEF Retry
  <2>1. Sound(s) /\ Once(s, accept, disown) /\ AsksConsent(q, s)
    BY <1>1, RetryFirstSound, RetryFirstOnce
  <2>2. CASE r \in RetryFirst(s) /\ CanRetry(s)
    <3>1. Once(r, accept, disown) /\ AsksConsent(s, r)
      BY <2>1, <2>2, RetryFirstOnce
    <3> QED BY <2>1, <3>1 DEF AsksConsent
  <2>3. CASE r = s
    BY <2>1, <2>3
  <2> QED BY <2>2, <2>3
<1>2. CASE ~CanRetry(q)
  BY <1>2 DEF Retry, AsksConsent
<1> QED BY <1>1, <1>2

(* The answered request is the chain's only one, or the chain is disowned. *)
LEMMA PoppedOnce ==
  ASSUME Inv, OnceInv, NEW i \in DOMAIN inFlight
  PROVE  LET c == inFlight[i]
             q == Popped(queue, i)
         IN /\ Once(q, accepted, StillDisowned(q))
            /\ c \in Range(q.flying) => c \in StillDisowned(q)
            /\ c \notin accepted
            /\ c \notin disowned => c \in q.already /\ c \notin Range(q.flying)
            /\ Range(q.flying) \subseteq Range(inFlight)
<1> DEFINE c == inFlight[i]
           q == Popped(queue, i)
           f == RemoveAt(inFlight, i)
<1>0. inFlight \in Seq(Chain) /\ i \in 1 .. Len(inFlight) /\ Len(inFlight) \in Nat
      /\ DOMAIN inFlight = 1 .. Len(inFlight)
  BY DEF Inv, Sound, Queue, queue
<1>1. /\ Len(f) = Len(inFlight) - 1 /\ f \in Seq(Chain)
      /\ \A k \in 1 .. Len(f) : f[k] = IF k < i THEN inFlight[k] ELSE inFlight[k + 1]
  <2>1. f = SubSeq(inFlight, 1, i - 1) \o SubSeq(inFlight, i + 1, Len(inFlight))
    BY DEF RemoveAt
  <2> DEFINE a == SubSeq(inFlight, 1, i - 1)
             b == SubSeq(inFlight, i + 1, Len(inFlight))
  <2>2. /\ a \in Seq(Chain) /\ Len(a) = i - 1
        /\ \A k \in 1 .. i - 1 : a[k] = inFlight[k]
    BY <1>0
  <2>3. /\ b \in Seq(Chain) /\ Len(b) = Len(inFlight) - i
        /\ \A k \in 1 .. Len(inFlight) - i : b[k] = inFlight[i + k]
    BY <1>0
  <2>4. \A u, v \in Seq(Chain) :
          /\ u \o v \in Seq(Chain) /\ Len(u \o v) = Len(u) + Len(v)
          /\ \A k \in 1 .. Len(u) + Len(v) :
               (u \o v)[k] = IF k <= Len(u) THEN u[k] ELSE v[k - Len(u)]
    OBVIOUS
  <2> HIDE DEF f, a, b
  <2>5. /\ f \in Seq(Chain) /\ Len(f) = Len(a) + Len(b)
        /\ \A k \in 1 .. Len(a) + Len(b) : f[k] = IF k <= Len(a) THEN a[k] ELSE b[k - Len(a)]
    BY <2>1, <2>2, <2>3, <2>4 DEF a, b
  <2>6. Len(f) = Len(inFlight) - 1
    BY <1>0, <2>2, <2>3, <2>5
  <2>7. ASSUME NEW k \in 1 .. Len(f)
        PROVE  f[k] = IF k < i THEN inFlight[k] ELSE inFlight[k + 1]
    <3>1. CASE k < i
      BY <1>0, <2>2, <2>3, <2>5, <2>6, <3>1
    <3>2. CASE ~(k < i)
      <4>1. k - (i - 1) \in 1 .. Len(inFlight) - i /\ i + (k - (i - 1)) = k + 1
        BY <1>0, <2>6, <3>2
      <4>2. f[k] = b[k - (i - 1)]
        BY <1>0, <2>2, <2>3, <2>5, <2>6, <3>2
      <4>3. b[k - (i - 1)] = inFlight[i + (k - (i - 1))]
        BY <2>3, <4>1
      <4> QED BY <3>2, <4>1, <4>2, <4>3
    <3> QED BY <3>1, <3>2
  <2> QED BY <2>5, <2>6, <2>7
<1>2. q.flying = f /\ q.already = already_submitted /\ queue.flying = inFlight
      /\ queue.already = already_submitted
  BY DEF Popped, queue
<1> HIDE DEF f, q, c
<1> DEFINE from(k) == IF k < i THEN k ELSE k + 1
<1>3. \A k \in DOMAIN f : from(k) \in DOMAIN inFlight /\ from(k) # i /\ f[k] = inFlight[from(k)]
  BY <1>0, <1>1
<1>4. Range(f) \subseteq Range(inFlight)
  BY <1>3 DEF Range
<1>5. \A k, j \in DOMAIN f : k # j /\ f[k] = f[j] => f[k] \in disowned
  <2> SUFFICES ASSUME NEW k \in DOMAIN f, NEW j \in DOMAIN f, k # j, f[k] = f[j]
               PROVE  f[k] \in disowned
    OBVIOUS
  <2>1. from(k) # from(j)
    BY <1>0, <1>1
  <2> HIDE DEF from
  <2> QED BY <1>2, <1>3, <2>1 DEF OnceInv, Once
<1>6. c \in Range(f) => c \in disowned
  <2> SUFFICES ASSUME NEW k \in DOMAIN f, c = f[k] PROVE c \in disowned
    BY DEF Range
  <2> HIDE DEF from
  <2> QED BY <1>2, <1>3 DEF OnceInv, Once, c
<1>7. c \in Range(inFlight)
  BY DEF Range, c
<1>8. StillDisowned(q) = disowned \cap Range(f)
  BY <1>2 DEF StillDisowned
<1>9. \A k \in DOMAIN f : f[k] \in Range(f)
  BY DEF Range
<1>10. Range(inFlight) \ disowned \subseteq already_submitted /\ accepted \subseteq already_submitted
       /\ accepted \cap Range(inFlight) = {}
  BY <1>2 DEF OnceInv, Once
<1>11. Once(q, accepted, StillDisowned(q))
  BY <1>2, <1>4, <1>5, <1>8, <1>9, <1>10 DEF Once
<1>12. /\ c \in Range(q.flying) => c \in StillDisowned(q)
       /\ c \notin accepted
       /\ c \notin disowned => c \in q.already /\ c \notin Range(q.flying)
       /\ Range(q.flying) \subseteq Range(inFlight)
  BY <1>2, <1>4, <1>6, <1>7, <1>8, <1>10
<1> QED BY <1>11, <1>12 DEF q, c

(* Forgetting a chain that is in flight no more, or disowned.              *)
LEMMA ForgetOnce ==
  ASSUME NEW q, Sound(q), NEW c, NEW accept, NEW disown, Once(q, accept, disown),
         c \notin accept, c \in Range(q.flying) => c \in disown
  PROVE  /\ Once(Forget(q, c), accept, disown)
         /\ Forget(q, c).flying = q.flying
<1>1. Forget(q, c).flying = q.flying /\ Forget(q, c).already = q.already \ {c}
  BY DEF Forget, Sound, Queue
<1> QED BY <1>1 DEF Once

LEMMA PlanRetryKeeps ==
  ASSUME NEW q, Sound(q), NEW c
  PROVE  PlanRetry(q, c).flying = q.flying /\ PlanRetry(q, c).already = q.already
BY DEF PlanRetry, Sound, Queue

LEMMA BecomeOnce ==
  ASSUME NEW q, Become(q), Once(q, accepted', disowned')
  PROVE  OnceInv' /\ (AsksConsent(queue, q) => AsksConsent(queue, queue'))
<1>1. queue'.flying = q.flying /\ queue'.already = q.already
  BY DEF Become, queue
<1> QED BY <1>1 DEF OnceInv, Once, AsksConsent

LEMMA AnsweredOnce ==
  ASSUME Inv, OnceInv, Answered
  PROVE  OnceInv' /\ AsksConsent(queue, queue')
<1> PICK i \in DOMAIN inFlight : Succeeds(i) \/ WarnedOf(i) \/ Fails(i)
  BY DEF Answered
<1> DEFINE c == inFlight[i]
           p == Popped(queue, i)
           d == StillDisowned(p)
<1>1. queue.flying = inFlight /\ c \in Chain
  BY DEF Inv, Sound, Queue, queue
<1>2. Sound(p) /\ Sound(Forget(p, c))
  BY <1>1, PoppedSound, ForgetSound DEF Inv
<1>3. /\ Once(p, accepted, d)
      /\ c \in Range(p.flying) => c \in d
      /\ c \notin accepted
      /\ c \notin disowned => c \in p.already /\ c \notin Range(p.flying)
      /\ Range(p.flying) \subseteq Range(inFlight)
  BY PoppedOnce
<1> HIDE DEF c, p, d
<1>4. AsksConsent(queue, p) /\ Once(Forget(p, c), accepted, d) /\ Forget(p, c).flying = p.flying
  BY <1>1, <1>2, <1>3, ForgetOnce DEF AsksConsent
<1>5. ASSUME Settle(c, TRUE) PROVE Once(p, accepted', d)
  BY <1>3, <1>5 DEF Settle, Once
<1>6. CASE Succeeds(i)
  <2> DEFINE q == IF cache_submitted THEN p ELSE Forget(p, c)
  <2>0. PICK r \in Retry(q) : Become(r)
    BY <1>6 DEF Succeeds, c, p, d
  <2>1. Become(r) /\ Settle(c, cache_submitted) /\ disowned' = d
    BY <1>6, <2>0 DEF Succeeds, c, p, d
  <2>2. Once(q, accepted', d) /\ Sound(q)
    <3>1. CASE cache_submitted
      <4>1. Settle(c, TRUE)
        BY <2>1, <3>1 DEF Settle
      <4> QED BY <1>2, <1>5, <3>1, <4>1
    <3>2. CASE ~cache_submitted
      <4>1. accepted' = accepted
        BY <2>1, <3>2 DEF Settle
      <4> QED BY <1>2, <1>4, <3>2, <4>1
    <3> QED BY <3>1, <3>2
  <2>3. q.flying = p.flying
    BY <1>4
  <2> HIDE DEF q
  <2>4. Once(r, accepted', d) /\ AsksConsent(q, r)
    BY <2>2, RetryOnce
  <2>5. AsksConsent(queue, r)
    BY <1>4, <2>3, <2>4 DEF AsksConsent
  <2> QED BY <2>1, <2>4, <2>5, BecomeOnce
<1>7. CASE WarnedOf(i)
  <2>1. Become(p) /\ Settle(c, TRUE) /\ disowned' = d
    BY <1>7 DEF WarnedOf, c, p, d
  <2> QED BY <1>4, <1>5, <2>1, BecomeOnce
<1>8. CASE Fails(i)
  <2> DEFINE r == PlanRetry(Forget(p, c), c)
  <2>1. Become(r) /\ disowned' = d /\ accepted' = accepted
    BY <1>8 DEF Fails, c, p, d
  <2>2. r.flying = p.flying /\ r.already = Forget(p, c).already
    BY <1>2, <1>4, PlanRetryKeeps
  <2> HIDE DEF r
  <2>3. Once(r, accepted, d) /\ AsksConsent(queue, r)
    BY <1>4, <2>2 DEF Once, AsksConsent
  <2> QED BY <2>1, <2>3, BecomeOnce
<1> QED BY <1>6, <1>7, <1>8

LEMMA OnceStep ==
  ASSUME Inv, OnceInv, [Next]_vars
  PROVE  OnceInv' /\ AsksConsent(queue, queue')
<1>1. ASSUME NEW c \in Chain, Examine(c) PROVE OnceInv' /\ AsksConsent(queue, queue')
  <2>1. PICK q \in submitChain(queue, c) : Become(q)
    BY <1>1 DEF Examine
  <2>2. UNCHANGED <<accepted, disowned>>
    BY <1>1 DEF Examine, history
  <2>3. Once(q, accepted, disowned) /\ AsksConsent(queue, q)
    BY SubmitOnce DEF Inv, OnceInv
  <2> QED BY <2>1, <2>2, <2>3, BecomeOnce
<1>2. CASE Answered
  BY <1>2, AnsweredOnce
<1>3. CASE CookiesCleared
  <2>1. inFlight' = inFlight /\ already_submitted' = {} /\ accepted' = {}
        /\ disowned' = Range(inFlight)
    BY <1>3 DEF CookiesCleared
  <2>2. \A i \in DOMAIN inFlight : inFlight[i] \in Range(inFlight)
    BY DEF Range
  <2> QED BY <2>1, <2>2 DEF OnceInv, Once, AsksConsent, queue
<1>4. ASSUME NEW ok \in BOOLEAN, NEW cache \in BOOLEAN, SetPrefs(ok, cache)
      PROVE  OnceInv' /\ AsksConsent(queue, queue')
  BY <1>4 DEF SetPrefs, history, OnceInv, Once, AsksConsent, queue
<1>5. CASE UNCHANGED vars
  BY <1>5 DEF vars, history, OnceInv, Once, AsksConsent, queue
<1> QED BY <1>1, <1>2, <1>3, <1>4, <1>5 DEF Next

LEMMA OnceInductive == Spec => []OnceInv
<1>1. Init => OnceInv
  BY DEF Init, OnceInv, Once, queue, Range
<1>2. Inv /\ OnceInv /\ [Next]_vars => OnceInv'
  BY OnceStep
<1> QED BY <1>1, <1>2, InvInductive, PTL DEF Spec

(* ssl-observatory.js 707: whatever is answered, retried, cleared or shown *)
(* again, a chain has one request in flight, unless the cookies were       *)
(* cleared since the first one was begun.                                  *)
THEOREM OneRequestEach == Spec => []OneRequestPerChain
<1>1. OnceInv => OneRequestPerChain
  BY DEF OnceInv, Once, queue, OneRequestPerChain
<1> QED BY <1>1, OnceInductive, PTL

(* ssl-observatory.js 563, 663: what the server has accepted is not sent   *)
(* again until the cookies are cleared.                                    *)
THEOREM AcceptedIsFinal == Spec => []AcceptedStaysAccepted
<1>1. OnceInv => AcceptedStaysAccepted
  BY DEF OnceInv, Once, queue, AcceptedStaysAccepted
<1> QED BY <1>1, OnceInductive, PTL

(* ssl-observatory.js 544-561, 576: no step, the retries included, begins  *)
(* a request for a private chain without the user's consent.               *)
THEOREM ConsentIsAsked == Spec => ConsentAskedAnew
<1>1. Inv /\ OnceInv /\ [Next]_vars =>
        [\A c \in Private :
           ~private_ok /\ c \notin Range(inFlight) => c \notin Range(inFlight')]_vars
  <2> SUFFICES ASSUME Inv, OnceInv, [Next]_vars, NEW c \in Private,
                      ~private_ok, c \notin Range(inFlight)
               PROVE  c \notin Range(inFlight')
    OBVIOUS
  <2>1. AsksConsent(queue, queue')
    BY OnceStep
  <2> QED BY <2>1 DEF AsksConsent, queue
<1> QED BY <1>1, InvInductive, OnceInductive, PTL DEF Spec, ConsentAskedAnew
=============================================================================

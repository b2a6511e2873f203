--------------------------- MODULE Service_proofs ---------------------------
(***************************************************************************)
(* For any number of Starts, any configuration of the fetcher and any      *)
(* number of rotations, failures, panics and crashes.                      *)
(***************************************************************************)
EXTENDS Service, TLAPS

USE DEF Loops

\* What a client's fetch is at, whatever the loops do.
FetchFacts(f, c) ==
    \* The proxy has not refused the credentials that the retry goes out with.
    /\ f.try = 2 /\ f.pc \in {"send", "sent"} /\ ~config.garbles /\ ~f.moved => proxy
    /\ f.pc = "wait" => config.garbles
    /\ f.why = "refused" => f.pc = "failed" /\ (f.moved \/ c \in cancelled)
    /\ f.pc = "accepted" => Valid(f) /\ (config.key = "resolved" => f.body.whole)
    /\ config.key = "refused" => f.pc \in {"none", "failed"}

FetchInv == \A c \in Clients : FetchFacts(fetch[c], c)

\* Which channel and which fetch a loop has, and what the loop of a late tick can be at.
LoopFacts(l) ==
    /\ InState(l, {"spawned"}) => service.done # Nobody
    /\ ~InState(l, {"none", "spawned", "over"}) => loop[l].done # Nobody
    /\ ~InState(l, {"manifest", "write", "entry"}) => At(l, {"none"})
    /\ InState(l, {"manifest", "write"}) => fetch[l].res = "manifest"
    /\ InState(l, {"write"}) => At(l, {"accepted"})
    /\ loop[l].late => /\ ~InState(l, {"none", "write", "entry"}) /\ l \in cancelled
                       /\ At(l, {"none", "send", "failed"})

LoopInv == \A l \in Loops : LoopFacts(l)

\* Without a rushed Start each goroutine closes its own channel, when it is over.
ChannelInv ==
    ~rushed => /\ \A l \in Loops : InState(l, {"spawned"}) => service.done = l
               /\ \A l \in Loops : ~InState(l, {"none", "spawned", "over"}) => loop[l].done = l
               /\ \A l \in closed : InState(l, {"over"})

IInv == TypeOK /\ OnePass /\ FetchInv /\ LoopInv /\ ChannelInv /\ StopMeansOver /\ Genuine
-----------------------------------------------------------------------------
(***************************************************************************)
(* The fetcher.                                                            *)
(***************************************************************************)
LEMMA BodiesHave ==
    /\ Nothing \in Bodies /\ Nothing.rev = 0 /\ Nothing.whole = FALSE
    /\ \A b \in Bodies : b.rev \in Revisions \cup {0} /\ b.whole \in BOOLEAN
<1>1. Nothing \in Bodies /\ Nothing.rev = 0 /\ Nothing.whole = FALSE
  BY DEF Nothing, Bodies
<1>2. ASSUME NEW b \in Bodies PROVE b.rev \in Revisions \cup {0} /\ b.whole \in BOOLEAN
  <2>1. CASE b = Nothing
    BY <1>1, <2>1
  <2>2. CASE b \in [rev : Revisions, whole : BOOLEAN]
    BY <2>2
  <2> QED
    BY <1>2, <2>1, <2>2 DEF Bodies
<1> QED
  BY <1>1, <1>2

LEMMA FetchesHave ==
    /\ NoFetch \in Fetches
    /\ \A f \in Fetches : f.body \in Bodies /\ f.try \in 1..2 /\ f.moved \in BOOLEAN
<1>1. NoFetch \in Fetches
  BY BodiesHave DEF NoFetch, Fetches, Resources
<1> QED
  BY <1>1 DEF Fetches

Whys == {"none", "key", "cancelled", "refused", "garbled", "error", "mismatch", "invalid"}

\* g is f but for the fields that may differ.
Same(g, f, but) == /\ g \in Fetches
                   /\ "pc" \in but \/ g.pc = f.pc
                   /\ "res" \in but \/ g.res = f.res
                   /\ "url" \in but \/ g.url = f.url
                   /\ "try" \in but \/ g.try = f.try
                   /\ "body" \in but \/ g.body = f.body
                   /\ "moved" \in but \/ g.moved = f.moved
                   /\ "why" \in but \/ g.why = f.why

LEMMA FieldEdits ==
    ASSUME NEW f \in Fetches
    PROVE  /\ \A v \in {"send", "sent", "wait", "accepted", "failed"} : Same([f EXCEPT !.pc = v], f, {"pc"}) /\ [f EXCEPT !.pc = v].pc = v
           /\ \A v \in {"body", "sig"} : Same([f EXCEPT !.url = v], f, {"url"}) /\ [f EXCEPT !.url = v].url = v
           /\ \A v \in 1..2 : Same([f EXCEPT !.try = v], f, {"try"}) /\ [f EXCEPT !.try = v].try = v
           /\ \A v \in Bodies : Same([f EXCEPT !.body = v], f, {"body"}) /\ [f EXCEPT !.body = v].body = v
           /\ \A v \in BOOLEAN : Same([f EXCEPT !.moved = v], f, {"moved"}) /\ [f EXCEPT !.moved = v].moved = v
           /\ \A v \in Whys : Same([f EXCEPT !.why = v], f, {"why"}) /\ [f EXCEPT !.why = v].why = v
<1>1. \A v \in {"send", "sent", "wait", "accepted", "failed"} : Same([f EXCEPT !.pc = v], f, {"pc"}) /\ [f EXCEPT !.pc = v].pc = v
  BY DEF Same, Fetches, Whys
<1>2. \A v \in {"body", "sig"} : Same([f EXCEPT !.url = v], f, {"url"}) /\ [f EXCEPT !.url = v].url = v
  BY DEF Same, Fetches, Whys
<1>3. \A v \in 1..2 : Same([f EXCEPT !.try = v], f, {"try"}) /\ [f EXCEPT !.try = v].try = v
  BY DEF Same, Fetches, Whys
<1>4. \A v \in Bodies : Same([f EXCEPT !.body = v], f, {"body"}) /\ [f EXCEPT !.body = v].body = v
  BY DEF Same, Fetches, Whys
<1>5. \A v \in BOOLEAN : Same([f EXCEPT !.moved = v], f, {"moved"}) /\ [f EXCEPT !.moved = v].moved = v
  BY DEF Same, Fetches, Whys
<1>6. \A v \in Whys : Same([f EXCEPT !.why = v], f, {"why"}) /\ [f EXCEPT !.why = v].why = v
  BY DEF Same, Fetches, Whys
<1> QED
  BY <1>1, <1>2, <1>3, <1>4, <1>5, <1>6

LEMMA FailedHas ==
    ASSUME NEW f \in Fetches, NEW w \in Whys
    PROVE  Same(Failed(f, w), f, {"pc", "why"}) /\ Failed(f, w).pc = "failed" /\ Failed(f, w).why = w
<1> DEFINE g == [f EXCEPT !.pc = "failed"]
<1>1. Same(g, f, {"pc"}) /\ g.pc = "failed"
  BY FieldEdits
<1>a. g \in Fetches
  BY <1>1 DEF Same
<1>2. Same([g EXCEPT !.why = w], g, {"why"}) /\ [g EXCEPT !.why = w].why = w
  <2> HIDE DEF g
  <2> QED
    BY <1>a, FieldEdits
<1>3. Failed(f, w) = [g EXCEPT !.why = w]
  BY DEF Failed
<1> HIDE DEF g
<1> QED
  BY <1>1, <1>2, <1>3 DEF Same

\* The retry after a 407, after the delay, and the delay.
LEMMA RetryHas ==
    ASSUME NEW f \in Fetches
    PROVE  /\ LET g == [f EXCEPT !.pc = "send", !.try = 2, !.moved = FALSE]
              IN Same(g, f, {"pc", "try", "moved"}) /\ g.pc = "send" /\ g.try = 2 /\ g.moved = FALSE
           /\ LET g == [f EXCEPT !.pc = "send", !.try = 2]
              IN Same(g, f, {"pc", "try"}) /\ g.pc = "send" /\ g.try = 2
           /\ LET g == [f EXCEPT !.pc = "wait", !.moved = FALSE]
              IN Same(g, f, {"pc", "moved"}) /\ g.pc = "wait" /\ g.moved = FALSE
<1> DEFINE g == [f EXCEPT !.pc = "send"]
           h == [g EXCEPT !.try = 2]
           i == [h EXCEPT !.moved = FALSE]
           j == [f EXCEPT !.pc = "wait"]
           k == [j EXCEPT !.moved = FALSE]
<1>1. Same(g, f, {"pc"}) /\ g.pc = "send" /\ Same(j, f, {"pc"}) /\ j.pc = "wait"
  BY FieldEdits
<1>a. g \in Fetches /\ j \in Fetches
  BY <1>1 DEF Same
<1>2. Same(h, g, {"try"}) /\ h.try = 2
  <2> HIDE DEF g
  <2>1. 2 \in 1..2
    OBVIOUS
  <2>2. \A v \in 1..2 : Same([g EXCEPT !.try = v], g, {"try"}) /\ [g EXCEPT !.try = v].try = v
    BY <1>a, FieldEdits
  <2> QED
    BY <2>1, <2>2
<1>b. h \in Fetches
  BY <1>2 DEF Same
<1>3. Same(i, h, {"moved"}) /\ i.moved = FALSE
  <2> HIDE DEF h
  <2> QED
    BY <1>b, FieldEdits
<1>4. Same(k, j, {"moved"}) /\ k.moved = FALSE
  <2> HIDE DEF j
  <2> QED
    BY <1>a, FieldEdits
<1>5. /\ [f EXCEPT !.pc = "send", !.try = 2, !.moved = FALSE] = i
      /\ [f EXCEPT !.pc = "send", !.try = 2] = h
      /\ [f EXCEPT !.pc = "wait", !.moved = FALSE] = k
  OBVIOUS
<1> HIDE DEF g, h, i, j, k
<1> QED
  BY <1>1, <1>2, <1>3, <1>4, <1>5 DEF Same

\* What a step of a fetch f makes of it.
Moved(f, g, c) ==
    /\ f.pc \in {"send", "sent", "wait"} /\ g.res = f.res
    /\ g.pc # "failed" => g.why = f.why
    /\ \/ g.pc = "failed" /\ g.why # "refused"
       \/ /\ f.pc = "sent" /\ ~proxy /\ ~config.garbles /\ (f.try = 2 \/ c \in cancelled)
          /\ g.pc = "failed" /\ g.moved = f.moved
       \/ /\ f.pc = "send" /\ c \notin cancelled
          /\ g.pc = "sent" /\ g.moved = f.moved /\ g.try = f.try
       \/ f.pc = "sent" /\ g.pc = "accepted" /\ Valid(g) /\ (config.key = "resolved" => g.body.whole)
       \/ f.pc = "sent" /\ g.pc = "send" /\ (g.try = 1 \/ proxy')
       \/ f.pc = "sent" /\ g.pc = "wait" /\ config.garbles
       \/ f.pc = "wait" /\ g.pc = "send"

LEMMA FetchStepMoves ==
    ASSUME FetchTypeOK, NEW c \in Clients, FetchStep(c)
    PROVE  /\ UNCHANGED <<config, upstream, cancelled>> /\ events' \in 0..MaxEvents /\ proxy' \in BOOLEAN
           /\ proxy => proxy'
           /\ \E g \in Fetches : fetch' = [fetch EXCEPT ![c] = g] /\ Moved(fetch[c], g, c)
<1> USE DEF FetchTypeOK, At
<1> DEFINE f == fetch[c]
<1>1. f \in Fetches
  OBVIOUS
<1>2. /\ UNCHANGED <<config, upstream, cancelled>> /\ events' \in 0..MaxEvents /\ proxy' \in BOOLEAN
      /\ proxy => proxy'
  <2>1. UNCHANGED <<config, upstream, cancelled>> /\ (UNCHANGED proxy \/ proxy' = TRUE)
    BY DEF FetchStep, Send, Answer, Refused, Garbled, Waited, Fails, Aborted, world
  <2>2. UNCHANGED events \/ Event
    BY DEF FetchStep, Send, Answer, Refused, Garbled, Waited, Fails, Aborted
  <2>3. events' \in 0..MaxEvents
    BY <2>2, FetchAssumption DEF Event
  <2>4. proxy' \in BOOLEAN /\ (proxy => proxy')
    BY <2>1
  <2> QED
    BY <2>1, <2>3, <2>4
<1>3. \A w \in Whys : Same(Failed(f, w), f, {"pc", "why"}) /\ Failed(f, w).pc = "failed" /\ Failed(f, w).why = w
  BY <1>1, FailedHas
<1>4. /\ "key" \in Whys /\ "cancelled" \in Whys /\ "refused" \in Whys /\ "garbled" \in Whys /\ "error" \in Whys
      /\ "mismatch" \in Whys /\ "invalid" \in Whys
  BY DEF Whys
<1>5. Same([f EXCEPT !.pc = "sent"], f, {"pc"}) /\ [f EXCEPT !.pc = "sent"].pc = "sent"
  BY <1>1, FieldEdits
<1>6. \E g \in Fetches : fetch' = [fetch EXCEPT ![c] = g] /\ Moved(f, g, c)
  <2>1. CASE Send(c)
    <3>1. CASE c \in cancelled
      <4> DEFINE h == Failed(f, "cancelled")
      <4>1. Same(h, f, {"pc", "why"}) /\ h.pc = "failed" /\ h.why = "cancelled"
        BY <1>3, <1>4
      <4>2. f.pc = "send" /\ fetch' = [fetch EXCEPT ![c] = h]
        BY <2>1, <3>1 DEF Send
      <4> HIDE DEF h
      <4>3. h \in Fetches /\ h.res = f.res
        BY <4>1 DEF Same
      <4>4. Moved(f, h, c)
        BY <4>1, <4>2, <4>3 DEF Moved
      <4> QED
        BY <4>2, <4>3, <4>4
    <3>2. CASE c \notin cancelled
      <4> DEFINE g == [f EXCEPT !.pc = "sent"]
      <4>1. f.pc = "send" /\ fetch' = [fetch EXCEPT ![c] = g]
        BY <2>1, <3>2 DEF Send
      <4>2. Same(g, f, {"pc"}) /\ g.pc = "sent"
        BY <1>5
      <4> HIDE DEF g
      <4>3. g \in Fetches /\ g.res = f.res /\ g.why = f.why /\ g.moved = f.moved /\ g.try = f.try
        BY <4>2 DEF Same
      <4>4. Moved(f, g, c)
        BY <3>2, <4>1, <4>2, <4>3 DEF Moved
      <4> QED
        BY <4>1, <4>3, <4>4
    <3> QED
      BY <3>1, <3>2
  <2>2. CASE Answer(c)
    <3> DEFINE b == [f EXCEPT !.body = Served(f)]
    <3>1. Same(b, f, {"body"}) /\ b \in Fetches
      <4>1. Served(f) \in Bodies
        BY DEF Served, Bodies
      <4>2. Same(b, f, {"body"})
        BY <1>1, <4>1, FieldEdits
      <4> QED
        BY <4>2 DEF Same
    <3>2. ASSUME NEW x \in Fetches, x.res = f.res, x.why = f.why, config.key = "resolved" => x.body.whole,
                 Answered(f) = Taken(x)
          PROVE  Answered(f) \in Fetches /\ Moved(f, Answered(f), c)
      <4>1. CASE Valid(x)
        <5>1. Same([x EXCEPT !.pc = "accepted"], x, {"pc"}) /\ [x EXCEPT !.pc = "accepted"].pc = "accepted"
          BY FieldEdits
        <5> QED
          BY <2>2, <3>2, <4>1, <5>1 DEF Answer, Taken, Same, Moved, Valid
      <4>2. CASE ~Valid(x)
        <5>1. Same(Failed(x, "invalid"), x, {"pc", "why"}) /\ Failed(x, "invalid").pc = "failed"
              /\ Failed(x, "invalid").why = "invalid"
          BY <1>4, FailedHas
        <5> QED
          BY <2>2, <3>2, <4>2, <5>1 DEF Answer, Taken, Same, Moved
      <4> QED
        BY <4>1, <4>2
    <3>3. CASE f.url = "sig" /\ Verified(f)
      BY <1>1, <2>2, <3>2, <3>3 DEF Answer, Answered, Verified
    <3>4. CASE f.url = "sig" /\ ~Verified(f)
      BY <1>1, <1>3, <1>4, <2>2, <3>4 DEF Answer, Answered, Same, Moved
    <3>5. CASE f.url # "sig" /\ config.key = "none"
      <4>1. config.key # "resolved"
        BY <3>5
      <4>2. Answered(f) = Taken(b)
        BY <3>5 DEF Answered
      <4> HIDE DEF b
      <4> QED
        BY <1>1, <2>2, <3>1, <3>2, <4>1, <4>2 DEF Answer, Same
    <3>6. CASE f.url # "sig" /\ config.key # "none"
      <4> DEFINE u == [b EXCEPT !.url = "sig"]
                 p == [u EXCEPT !.pc = "send"]
                 t == [p EXCEPT !.try = 1]
                 m == [t EXCEPT !.moved = FALSE]
      <4>1. Same(u, b, {"url"}) /\ u \in Fetches
        BY <3>1, FieldEdits DEF Same
      <4>2. Same(p, u, {"pc"}) /\ p \in Fetches /\ p.pc = "send"
        <5> HIDE DEF u
        <5>1. Same(p, u, {"pc"}) /\ p.pc = "send"
          BY <4>1, FieldEdits
        <5> QED
          BY <5>1 DEF Same
      <4>3. Same(t, p, {"try"}) /\ t \in Fetches /\ t.try = 1
        <5> HIDE DEF p
        <5>1. \A v \in 1..2 : Same([p EXCEPT !.try = v], p, {"try"}) /\ [p EXCEPT !.try = v].try = v
          BY <4>2, FieldEdits
        <5>2. Same(t, p, {"try"}) /\ t.try = 1
          BY <5>1, 1 \in 1..2
        <5> QED
          BY <5>2 DEF Same
      <4>4. Same(m, t, {"moved"}) /\ m \in Fetches
        <5> HIDE DEF t
        <5>1. Same(m, t, {"moved"})
          BY <4>3, FieldEdits
        <5> QED
          BY <5>1 DEF Same
      <4>5. Answered(f) = m
        BY <3>6 DEF Answered
      <4>6. fetch' = [fetch EXCEPT ![c] = m]
        BY <2>2, <4>5 DEF Answer
      <4> HIDE DEF b, u, p, t, m
      <4>7. m.res = f.res /\ m.why = f.why /\ m.pc = "send" /\ m.try = 1
        BY <3>1, <4>1, <4>2, <4>3, <4>4 DEF Same
      <4>8. f.pc = "sent"
        BY <2>2 DEF Answer
      <4> HIDE DEF f
      <4> QED
        BY <4>4, <4>6, <4>7, <4>8 DEF Moved
    <3> QED
      BY <1>1, <3>3, <3>4, <3>5, <3>6
  <2>3. CASE Refused(c)
    <3> DEFINE g == [f EXCEPT !.pc = "send", !.try = 2, !.moved = FALSE]
    <3>1. Same(g, f, {"pc", "try", "moved"}) /\ g.pc = "send"
      BY <1>1, RetryHas
    <3>2. CASE f.try = 2 \/ (~config.owns /\ c \in cancelled)
      <4>1. fetch' = [fetch EXCEPT ![c] = Failed(f, "refused")] /\ f.pc = "sent" /\ ~proxy /\ ~config.garbles
        BY <2>3, <3>2 DEF Refused
      <4>2. Same(Failed(f, "refused"), f, {"pc", "why"}) /\ Failed(f, "refused").pc = "failed"
        BY <1>3, <1>4
      <4> HIDE DEF f
      <4> QED
        BY <3>2, <4>1, <4>2 DEF Same, Moved
    <3>3. CASE ~(f.try = 2 \/ (~config.owns /\ c \in cancelled))
      <4>1. fetch' = [fetch EXCEPT ![c] = g] /\ proxy'
        BY <2>3, <3>3 DEF Refused
      <4> HIDE DEF g
      <4> QED
        BY <1>1, <2>3, <3>1, <4>1 DEF Refused, Same, Moved
    <3> QED
      BY <3>2, <3>3
  <2>4. CASE Garbled(c)
    <3> DEFINE g == [f EXCEPT !.pc = "wait", !.moved = FALSE]
    <3>1. Same(g, f, {"pc", "moved"}) /\ g.pc = "wait"
      BY <1>1, RetryHas
    <3>2. CASE fetch' = [fetch EXCEPT ![c] = g]
      <4> HIDE DEF g
      <4> QED
        BY <1>1, <2>4, <3>1, <3>2 DEF Garbled, Same, Moved
    <3>3. CASE fetch' = [fetch EXCEPT ![c] = Failed(f, "garbled")]
      <4> DEFINE h == Failed(f, "garbled")
      <4>1. Same(h, f, {"pc", "why"}) /\ h.pc = "failed" /\ h.why = "garbled"
        BY <1>3, <1>4
      <4>2. f.pc = "sent" /\ fetch' = [fetch EXCEPT ![c] = h]
        BY <2>4, <3>3 DEF Garbled
      <4> HIDE DEF h
      <4>3. h \in Fetches /\ h.res = f.res
        BY <4>1 DEF Same
      <4>4. Moved(f, h, c)
        BY <4>1, <4>2, <4>3 DEF Moved
      <4> QED
        BY <4>2, <4>3, <4>4
    <3> QED
      BY <2>4, <3>2, <3>3 DEF Garbled
  <2>5. CASE Waited(c)
    <3> DEFINE g == [f EXCEPT !.pc = "send", !.try = 2]
    <3>1. Same(g, f, {"pc", "try"}) /\ g.pc = "send"
      BY <1>1, RetryHas
    <3>2. CASE fetch' = [fetch EXCEPT ![c] = g]
      <4> HIDE DEF g
      <4> QED
        BY <1>1, <2>5, <3>1, <3>2 DEF Waited, Same, Moved
    <3>3. CASE fetch' = [fetch EXCEPT ![c] = Failed(f, "garbled")]
      <4> DEFINE h == Failed(f, "garbled")
      <4>1. Same(h, f, {"pc", "why"}) /\ h.pc = "failed" /\ h.why = "garbled"
        BY <1>3, <1>4
      <4>2. f.pc = "wait" /\ fetch' = [fetch EXCEPT ![c] = h]
        BY <2>5, <3>3 DEF Waited
      <4> HIDE DEF h
      <4>3. h \in Fetches /\ h.res = f.res
        BY <4>1 DEF Same
      <4>4. Moved(f, h, c)
        BY <4>1, <4>2, <4>3 DEF Moved
      <4> QED
        BY <4>2, <4>3, <4>4
    <3>4. fetch' = [fetch EXCEPT ![c].pc = "send", ![c].try = 2] => fetch' = [fetch EXCEPT ![c] = g]
      OBVIOUS
    <3> QED
      BY <2>5, <3>2, <3>3, <3>4 DEF Waited
  <2>6. CASE Fails(c)
    BY <1>1, <1>3, <1>4, <2>6 DEF Fails, Same, Moved
  <2>7. CASE Aborted(c)
    BY <1>1, <1>3, <1>4, <2>7 DEF Aborted, Same, Moved
  <2> QED
    BY <2>1, <2>2, <2>3, <2>4, <2>5, <2>6, <2>7 DEF FetchStep
<1> QED
  BY <1>2, <1>6

LEMMA FetchStepKeeps ==
    ASSUME FetchTypeOK, FetchInv, NEW c \in Clients, FetchStep(c)
    PROVE  /\ FetchTypeOK' /\ FetchInv'
           /\ UNCHANGED <<config, upstream, cancelled>>
           /\ At(c, {"send", "sent", "wait"}) /\ ~At(c, {"none"})'
           /\ fetch'[c].res = fetch[c].res
           /\ \A d \in Clients \ {c} : fetch'[d] = fetch[d]
           /\ At(c, {"send"}) /\ c \in cancelled => At(c, {"failed"})'
<1> DEFINE f == fetch[c]
<1>1. f \in Fetches /\ f.moved \in BOOLEAN /\ f.try \in 1..2 /\ \A d \in Clients : FetchFacts(fetch[d], d)
  BY FetchesHave DEF FetchInv, FetchTypeOK
<1>2. PICK g \in Fetches : fetch' = [fetch EXCEPT ![c] = g] /\ Moved(f, g, c)
  BY FetchStepMoves
<1>3. UNCHANGED <<config, upstream, cancelled>> /\ (proxy => proxy') /\ events' \in 0..MaxEvents /\ proxy' \in BOOLEAN
  BY FetchStepMoves
<1>4. fetch'[c] = g /\ (\A d \in Clients \ {c} : fetch'[d] = fetch[d]) /\ fetch' \in [Clients -> Fetches]
  BY <1>2 DEF FetchTypeOK
<1>5. \A d \in Clients \ {c} : FetchFacts(fetch[d], d)'
  BY <1>1, <1>3, <1>4 DEF FetchFacts, Valid
<1>6. FetchFacts(g, c)'
  BY <1>1, <1>2, <1>3 DEF FetchFacts, Valid, Moved
<1>7. FetchInv'
  BY <1>4, <1>5, <1>6 DEF FetchInv, FetchFacts, Valid
<1> QED
  BY <1>2, <1>3, <1>4, <1>7 DEF FetchTypeOK, At, Moved

LEMMA FetchingHas ==
    ASSUME NEW res \in Resources
    PROVE  LET g == Fetching(res)
           IN /\ g \in Fetches /\ g.res = res /\ g.try = 1 /\ g.why # "refused"
              /\ g.pc = IF config.key = "refused" THEN "failed" ELSE "send"
<1> DEFINE f == [NoFetch EXCEPT !.res = res, !.pc = "send"]
<1>1. f \in Fetches /\ f.res = res /\ f.try = 1 /\ f.why = "none" /\ f.pc = "send"
  <2> DEFINE e == [NoFetch EXCEPT !.res = res]
  <2>1. e \in Fetches /\ e.res = res
    BY FetchesHave DEF Fetches
  <2>2. e.try = 1 /\ e.why = "none"
    BY DEF NoFetch
  <2>3. f = [e EXCEPT !.pc = "send"]
    OBVIOUS
  <2> HIDE DEF e, f
  <2>4. Same([e EXCEPT !.pc = "send"], e, {"pc"}) /\ [e EXCEPT !.pc = "send"].pc = "send"
    BY <2>1, FieldEdits
  <2> QED
    BY <2>1, <2>2, <2>3, <2>4 DEF Same
<1>2. Fetching(res) = IF config.key = "refused" THEN Failed(f, "key") ELSE f
  BY DEF Fetching
<1> HIDE DEF f
<1>3. Same(Failed(f, "key"), f, {"pc", "why"}) /\ Failed(f, "key").pc = "failed" /\ Failed(f, "key").why = "key"
  <2>1. "key" \in Whys
    BY DEF Whys
  <2> QED
    BY <1>1, <2>1, FailedHas
<1> QED
  BY <1>1, <1>2, <1>3 DEF Same

\* A fetch that begins, or that is over, asks nothing of the proxy.
LEMMA BeginsWell ==
    ASSUME NEW c \in Clients
    PROVE  FetchFacts(NoFetch, c) /\ \A res \in Resources : FetchFacts(Fetching(res), c)
<1>1. FetchFacts(NoFetch, c)
  BY DEF FetchFacts, NoFetch
<1>2. ASSUME NEW res \in Resources PROVE FetchFacts(Fetching(res), c)
  BY FetchingHas DEF FetchFacts
<1> QED
  BY <1>1, <1>2
-----------------------------------------------------------------------------
(***************************************************************************)
(* What each step does to the goroutine that takes it.                     *)
(***************************************************************************)
Goroutines == [pc : {"none", "spawned", "lock", "checkmode", "select", "exit", "over"} \cup Passing,
               first : BOOLEAN, done : Loops \cup {Nobody}, late : BOOLEAN]

Becomes(l, pcs, done, late) ==
    /\ loop' \in [Loops -> Goroutines]
    /\ loop'[l].pc \in pcs /\ loop'[l].done = done /\ (loop'[l].late => late)
    /\ \A k \in Loops \ {l} : loop'[k] = loop[k]

LEMMA ToBecomes ==
    ASSUME loop \in [Loops -> Goroutines], NEW l \in Loops,
           NEW pc \in {"none", "spawned", "lock", "checkmode", "select", "exit", "over"} \cup Passing, To(l, pc)
    PROVE  Becomes(l, {pc}, loop[l].done, loop[l].late)
BY DEF Becomes, To, Goroutines

LEMMA PassEndsBecomes ==
    ASSUME loop \in [Loops -> Goroutines], NEW l \in Loops, PassEnds(l)
    PROVE  Becomes(l, {"checkmode", "select"}, loop[l].done, FALSE) /\ tickMu' = Nobody
<1> DEFINE pc == IF loop[l].first THEN "checkmode" ELSE "select"
           f == [loop[l] EXCEPT !.pc = pc]
           g == [f EXCEPT !.first = FALSE]
           h == [g EXCEPT !.late = FALSE]
<1>1. pc \in {"checkmode", "select"}
  OBVIOUS
<1>2. f \in Goroutines /\ f.pc = pc /\ f.done = loop[l].done
  <2> HIDE DEF pc
  <2> QED
    BY <1>1 DEF Goroutines
<1>3. g \in Goroutines /\ g.pc = pc /\ g.done = f.done
  <2> HIDE DEF f, pc
  <2> QED
    BY <1>2 DEF Goroutines
<1>4. h \in Goroutines /\ h.pc = pc /\ h.done = g.done /\ h.late = FALSE
  <2> HIDE DEF g, pc
  <2> QED
    BY <1>3 DEF Goroutines
<1>5. loop' = [loop EXCEPT ![l] = h] /\ tickMu' = Nobody
  BY DEF PassEnds
<1> HIDE DEF f, g, h, pc
<1> QED
  BY <1>1, <1>2, <1>3, <1>4, <1>5 DEF Becomes

LEMMA Moves ==
    ASSUME TypeOK, NEW l \in Loops
    PROVE  /\ Start(l) => Becomes(l, {"spawned"}, loop[l].done, loop[l].late)
           /\ Enter(l) => Becomes(l, {"lock"}, service.done, loop[l].late)
           /\ Lock(l) => Becomes(l, {"mode"}, loop[l].done, l \in cancelled)
           /\ CheckMode(l) => Becomes(l, {"select", "exit"}, loop[l].done, loop[l].late)
           /\ TickFires(l) => Becomes(l, {"lock"}, loop[l].done, loop[l].late)
           /\ Leave(l) \/ Panic(l) => Becomes(l, {"exit"}, loop[l].done, loop[l].late)
           /\ ReadMode(l) => \/ UNCHANGED fetch /\ tickMu' = Nobody /\ Becomes(l, {"checkmode", "select"}, loop[l].done, FALSE)
                             \/ /\ fetch' = [fetch EXCEPT ![l] = Fetching("manifest")] /\ UNCHANGED tickMu
                                /\ Becomes(l, {"manifest"}, loop[l].done, loop[l].late)
           /\ FetchFailed(l) \/ Install(l) => /\ Becomes(l, {"checkmode", "select"}, loop[l].done, FALSE)
                                              /\ tickMu' = Nobody
           /\ CacheManifest(l) => \/ Becomes(l, {"write"}, loop[l].done, loop[l].late) /\ InState(l, {"manifest"}) /\ UNCHANGED fetch
                                  \/ /\ Becomes(l, {"entry"}, loop[l].done, loop[l].late)
                                     /\ fetch' = [fetch EXCEPT ![l] = Fetching("entry")]
           /\ Exit(l) => Crash \/ /\ Becomes(l, {"over"}, Nobody, FALSE) /\ UNCHANGED <<fetch, cancelled, tickMu>>
                                  /\ closed' = closed \cup {loop[l].done}
<1>1. loop \in [Loops -> Goroutines] /\ service.done \in Loops \cup {Nobody}
  BY DEF TypeOK, Goroutines, Fields
<1>2. Start(l) => Becomes(l, {"spawned"}, loop[l].done, loop[l].late)
  BY <1>1, ToBecomes DEF Start
<1>3. ASSUME Enter(l) PROVE Becomes(l, {"lock"}, service.done, loop[l].late)
  <2>1. loop' = [loop EXCEPT ![l] = [@ EXCEPT !.pc = "lock", !.done = service.done]]
    BY <1>3 DEF Enter
  <2> QED
    BY <1>1, <2>1 DEF Becomes, Goroutines
<1>4. ASSUME Lock(l) PROVE Becomes(l, {"mode"}, loop[l].done, l \in cancelled)
  <2>1. loop' = [loop EXCEPT ![l] = [@ EXCEPT !.pc = "mode", !.late = l \in cancelled]]
    BY <1>4 DEF Lock
  <2>2. (l \in cancelled) \in BOOLEAN /\ "mode" \in Passing
    BY DEF Passing
  <2> QED
    BY <1>1, <2>1, <2>2 DEF Becomes, Goroutines
<1>5. CheckMode(l) => Becomes(l, {"select", "exit"}, loop[l].done, loop[l].late)
  BY <1>1, ToBecomes DEF CheckMode, Becomes
<1>6. TickFires(l) => Becomes(l, {"lock"}, loop[l].done, loop[l].late)
  BY <1>1, ToBecomes DEF TickFires
<1>7. Leave(l) \/ Panic(l) => Becomes(l, {"exit"}, loop[l].done, loop[l].late)
  BY <1>1, ToBecomes DEF Leave, Panic
<1>8. ReadMode(l) => \/ UNCHANGED fetch /\ tickMu' = Nobody /\ Becomes(l, {"checkmode", "select"}, loop[l].done, FALSE)
                     \/ /\ fetch' = [fetch EXCEPT ![l] = Fetching("manifest")] /\ UNCHANGED tickMu
                        /\ Becomes(l, {"manifest"}, loop[l].done, loop[l].late)
  BY <1>1, ToBecomes, PassEndsBecomes DEF ReadMode, Passing
<1>9. FetchFailed(l) \/ Install(l) => Becomes(l, {"checkmode", "select"}, loop[l].done, FALSE) /\ tickMu' = Nobody
  BY <1>1, PassEndsBecomes DEF FetchFailed, Install
<1>10. CacheManifest(l) => \/ Becomes(l, {"write"}, loop[l].done, loop[l].late) /\ InState(l, {"manifest"}) /\ UNCHANGED fetch
                           \/ /\ Becomes(l, {"entry"}, loop[l].done, loop[l].late)
                              /\ fetch' = [fetch EXCEPT ![l] = Fetching("entry")]
  BY <1>1, ToBecomes DEF CacheManifest, Passing
<1>11. ASSUME Exit(l)
       PROVE  Crash \/ /\ Becomes(l, {"over"}, Nobody, FALSE) /\ UNCHANGED <<fetch, cancelled, tickMu>>
                       /\ closed' = closed \cup {loop[l].done}
  <2>1. CASE Crash
    BY <2>1
  <2>2. CASE loop[l].done \notin closed /\ closed' = closed \cup {loop[l].done} /\ loop' = [loop EXCEPT ![l] = Over]
             /\ UNCHANGED <<fetchVars, service, tickMu, stop, rushed>>
    <3>1. Over \in Goroutines /\ Over.pc = "over" /\ Over.done = Nobody /\ Over.late = FALSE
      BY DEF Over, Unstarted, Goroutines
    <3> QED
      BY <1>1, <2>2, <3>1 DEF Becomes, fetchVars
  <2> QED
    BY <1>11, <2>1, <2>2 DEF Exit
<1> QED
  BY <1>2, <1>3, <1>4, <1>5, <1>6, <1>7, <1>8, <1>9, <1>10, <1>11
-----------------------------------------------------------------------------
(***************************************************************************)
(* Each part of the invariant, over every step.                            *)
(***************************************************************************)
LEMMA TypeKept == TypeOK /\ FetchInv /\ LoopInv /\ [Next]_vars => TypeOK'
<1> SUFFICES ASSUME TypeOK, FetchInv, LoopInv, [Next]_vars PROVE TypeOK'
  OBVIOUS
<1> USE DEF TypeOK, FetchTypeOK
<1>t. loop \in [Loops -> Goroutines]
  BY DEF Goroutines
<1>e. Event => events' \in 0..MaxEvents
  BY FetchAssumption DEF Event
<1>c. Crash => /\ service' \in Fields /\ stop' = "none" /\ loop' \in [Loops -> Goroutines] /\ tickMu' = Nobody
               /\ fetch' \in [Clients -> Fetches] /\ closed' = {} /\ cancelled' = {} /\ rushed' = FALSE
  <2>1. Over \in Goroutines
    BY DEF Over, Unstarted, Goroutines
  <2> QED
    BY <1>t, <2>1, FetchesHave DEF Crash, NoService, Fields
<1>r. /\ Fetching("manifest") \in Fetches /\ Fetching("entry") \in Fetches /\ NoFetch \in Fetches
  BY FetchingHas, FetchesHave DEF Resources
<1>1. ASSUME NEW l \in Loops, Start(l) PROVE TypeOK'
  BY <1>1, Moves DEF Start, Becomes, Goroutines, Fields, fetchVars, diskVars
<1>2. ASSUME NEW l \in Loops, Enter(l) \/ CheckMode(l) \/ TickFires(l) \/ Leave(l) PROVE TypeOK'
  <2>1. loop' \in [Loops -> Goroutines]
    <3>1. Enter(l) => loop' \in [Loops -> Goroutines]
      BY Moves DEF Becomes
    <3>2. CheckMode(l) => loop' \in [Loops -> Goroutines]
      BY Moves DEF Becomes
    <3>3. TickFires(l) \/ Leave(l) => loop' \in [Loops -> Goroutines]
      BY Moves DEF Becomes
    <3> QED
      BY <1>2, <3>1, <3>2, <3>3
  <2>2. UNCHANGED <<fetchVars, service, closed, tickMu, stop, rushed, mode, diskVars>>
    BY <1>2 DEF Enter, CheckMode, TickFires, Leave
  <2> QED
    BY <2>1, <2>2 DEF Goroutines, fetchVars, diskVars
<1>3. ASSUME NEW l \in Loops, Lock(l) PROVE TypeOK'
  BY <1>3, Moves DEF Lock, Becomes, Goroutines, fetchVars, diskVars
<1>4. ASSUME NEW l \in Loops, ReadMode(l) PROVE TypeOK'
  BY <1>4, <1>r, Moves DEF ReadMode, Becomes, Goroutines, world, diskVars
<1>5. ASSUME NEW l \in Loops, FetchOn(l) PROVE TypeOK'
  BY <1>5, FetchStepKeeps DEF FetchOn, lifeVars, diskVars
<1>6. ASSUME NEW l \in Loops, FetchFailed(l) PROVE TypeOK'
  BY <1>6, <1>r, Moves DEF FetchFailed, Becomes, Goroutines, world, diskVars
<1>7. ASSUME NEW l \in Loops, CacheManifest(l) PROVE TypeOK'
  <2>1. cache' \in Revisions \cup {Torn, NoCache}
    BY <1>7, BodiesHave, FetchesHave DEF CacheManifest, Torn
  <2>2. events' \in 0..MaxEvents
    BY <1>7, <1>e DEF CacheManifest
  <2> QED
    BY <1>7, <1>r, <2>1, <2>2, Moves DEF CacheManifest, Becomes, Goroutines, world
<1>8. ASSUME NEW l \in Loops, Install(l) PROVE TypeOK'
  <2>1. installed' \in Bodies
    BY <1>8, FetchesHave DEF Install
  <2> QED
    BY <1>8, <1>r, <2>1, Moves DEF Install, Becomes, Goroutines, world
<1>9. ASSUME NEW l \in Loops, Exit(l) PROVE TypeOK'
  <2>1. CASE Crash /\ UNCHANGED <<config, world, events, mode, diskVars>>
    BY <2>1, <1>c DEF Goroutines, world, diskVars
  <2>2. CASE loop[l].done \notin closed /\ closed' = closed \cup {loop[l].done} /\ loop' = [loop EXCEPT ![l] = Over]
             /\ UNCHANGED <<fetchVars, service, tickMu, stop, rushed, mode, diskVars>>
    <3>1. Over \in Goroutines
      BY DEF Over, Unstarted, Goroutines
    <3>2. loop[l].done \in Loops
      BY <1>9 DEF Exit, InState, LoopInv, LoopFacts
    <3> QED
      BY <1>t, <2>2, <3>1, <3>2 DEF Goroutines, fetchVars, diskVars
  <2> QED
    BY <1>9, <2>1, <2>2 DEF Exit
<1>10. ASSUME NEW l \in Loops, Panic(l) PROVE TypeOK'
  BY <1>10, <1>e, <1>r, Moves DEF Panic, Becomes, Goroutines, world, diskVars
<1>11. ASSUME StopCalled \/ StopReturns \/ StopDeadline PROVE TypeOK'
  BY <1>11 DEF StopCalled, StopReturns, StopDeadline, Fields, fetchVars, world, diskVars
<1>12. ASSUME ContextEnds PROVE TypeOK'
  BY <1>12, <1>e DEF ContextEnds, world, lifeVars, diskVars
<1>13. ASSUME Killed PROVE TypeOK'
  BY <1>13, <1>c, <1>e DEF Killed, Goroutines, world, diskVars
<1>14. ASSUME SetMode PROVE TypeOK'
  BY <1>14, <1>e DEF SetMode, world, diskVars
<1>15. ASSUME World PROVE TypeOK'
  <2>1. CASE Publish
    BY <2>1, <1>15, FetchAssumption DEF World, Publish, Revisions, lifeVars, diskVars
  <2>2. CASE Rotate
    <3>1. fetch' \in [Clients -> Fetches]
      <4>1. ASSUME NEW c \in Clients PROVE [fetch[c] EXCEPT !.moved = @ \/ At(c, {"send", "sent", "wait"})] \in Fetches
        <5>1. (fetch[c].moved \/ At(c, {"send", "sent", "wait"})) \in BOOLEAN
          OBVIOUS
        <5>2. \A v \in BOOLEAN : Same([fetch[c] EXCEPT !.moved = v], fetch[c], {"moved"})
          BY FieldEdits
        <5>3. \A v \in BOOLEAN : [fetch[c] EXCEPT !.moved = v] \in Fetches
          BY <5>2 DEF Same
        <5> QED
          BY <5>1, <5>3
      <4> QED
        BY <2>2, <4>1 DEF Rotate
    <3> QED
      BY <2>2, <3>1, <1>15, <1>e DEF World, Rotate, lifeVars, diskVars
  <2>3. CASE Refresh
    BY <2>3, <1>15 DEF World, Refresh, lifeVars, diskVars
  <2> QED
    BY <1>15, <2>1, <2>2, <2>3 DEF World
<1>16. ASSUME UNCHANGED vars PROVE TypeOK'
  BY <1>16 DEF vars, fetchVars, lifeVars, diskVars
<1> QED
  BY <1>1, <1>2, <1>3, <1>4, <1>5, <1>6, <1>7, <1>8, <1>9, <1>10, <1>11, <1>12, <1>13, <1>14, <1>15, <1>16
     DEF Next, Goes

LEMMA OnePassKept == TypeOK /\ OnePass /\ [Next]_vars => OnePass'
<1> SUFFICES ASSUME TypeOK, OnePass, [Next]_vars PROVE OnePass'
  OBVIOUS
<1> USE DEF OnePass, InState
<1>1. Nobody \notin Loops
  BY LoopsAssumption DEF Nobody
<1>2. Crash => OnePass'
  BY DEF Crash, Over, Unstarted, Passing
<1>3. ASSUME NEW l \in Loops, Start(l) \/ Enter(l) \/ CheckMode(l) \/ TickFires(l) \/ Leave(l) PROVE OnePass'
  BY <1>3, Moves DEF Start, Enter, CheckMode, TickFires, Leave, Becomes, Passing
<1>4. ASSUME NEW l \in Loops, Lock(l) PROVE OnePass'
  BY <1>1, <1>4, Moves DEF Lock, Becomes
<1>5. ASSUME NEW l \in Loops, ReadMode(l) PROVE OnePass'
  BY <1>5, Moves DEF ReadMode, Becomes, Passing
<1>6. ASSUME NEW l \in Loops, FetchOn(l) PROVE OnePass'
  BY <1>6 DEF FetchOn, lifeVars
<1>7. ASSUME NEW l \in Loops, FetchFailed(l) \/ Install(l) PROVE OnePass'
  BY <1>7, Moves DEF FetchFailed, Install, Becomes, Passing
<1>8. ASSUME NEW l \in Loops, CacheManifest(l) PROVE OnePass'
  BY <1>8, Moves DEF CacheManifest, Becomes, Passing
<1>9. ASSUME NEW l \in Loops, Exit(l) PROVE OnePass'
  BY <1>2, <1>9, Moves DEF Becomes, Passing
<1>10. ASSUME NEW l \in Loops, Panic(l) PROVE OnePass'
  BY <1>10, Moves DEF Panic, Becomes, Passing
<1>11. ASSUME StopCalled \/ ContextEnds \/ StopReturns \/ StopDeadline \/ SetMode \/ World \/ UNCHANGED vars PROVE OnePass'
  BY <1>11 DEF StopCalled, ContextEnds, StopReturns, StopDeadline, SetMode, World, vars, lifeVars
<1>12. ASSUME Killed PROVE OnePass'
  BY <1>2, <1>12 DEF Killed
<1> QED
  BY <1>3, <1>4, <1>5, <1>6, <1>7, <1>8, <1>9, <1>10, <1>11, <1>12 DEF Next, Goes

LEMMA FetchKept == TypeOK /\ FetchInv /\ [Next]_vars => FetchInv'
<1> SUFFICES ASSUME TypeOK, FetchInv, [Next]_vars PROVE FetchInv'
  OBVIOUS
<1> USE DEF Valid
<1>t. FetchTypeOK /\ fetch \in [Clients -> Fetches]
  BY DEF TypeOK, FetchTypeOK
<1>f. \A c \in Clients : FetchFacts(fetch[c], c) /\ fetch[c] \in Fetches
  BY <1>t DEF FetchInv
\* A fetch begins or ends and the rest goes on.
<1>b. ASSUME UNCHANGED <<config, proxy, cancelled>>, NEW l \in Loops, NEW g \in Fetches, FetchFacts(g, l),
             fetch' = [fetch EXCEPT ![l] = g]
      PROVE  FetchInv'
  <2>1. ASSUME NEW c \in Clients PROVE FetchFacts(fetch[c], c)'
    <3>1. fetch'[c] = IF c = l THEN g ELSE fetch[c]
      BY <1>t, <1>b
    <3> QED
      BY <1>b, <1>f, <3>1 DEF FetchFacts
  <2> QED
    BY <2>1 DEF FetchInv
<1>c. Crash /\ UNCHANGED config => FetchInv'
  BY DEF Crash, FetchInv, FetchFacts, NoFetch
<1>r. /\ Fetching("manifest") \in Fetches /\ Fetching("entry") \in Fetches /\ NoFetch \in Fetches
      /\ \A l \in Loops : /\ FetchFacts(NoFetch, l) /\ FetchFacts(Fetching("manifest"), l)
                          /\ FetchFacts(Fetching("entry"), l)
  BY FetchingHas, FetchesHave, BeginsWell DEF Resources
<1>u. UNCHANGED <<config, proxy, cancelled, fetch>> => FetchInv'
  BY <1>f DEF FetchInv, FetchFacts
<1>1. ASSUME NEW l \in Loops, FetchOn(l) PROVE FetchInv'
  BY <1>1, <1>t, FetchStepKeeps DEF FetchOn
<1>2. ASSUME NEW l \in Loops, ReadMode(l) PROVE FetchInv'
  BY <1>2, <1>b, <1>r, <1>u DEF ReadMode, world
<1>3. ASSUME NEW l \in Loops, CacheManifest(l) PROVE FetchInv'
  BY <1>3, <1>b, <1>r, <1>u DEF CacheManifest, world
<1>4. ASSUME NEW l \in Loops, FetchFailed(l) \/ Install(l) \/ Panic(l) PROVE FetchInv'
  BY <1>4, <1>b, <1>r DEF FetchFailed, Install, Panic, world
<1>5. ASSUME NEW l \in Loops, Start(l) \/ Enter(l) \/ Lock(l) \/ CheckMode(l) \/ TickFires(l) \/ Leave(l) PROVE FetchInv'
  BY <1>5, <1>u DEF Start, Enter, Lock, CheckMode, TickFires, Leave, fetchVars
<1>6. ASSUME NEW l \in Loops, Exit(l) PROVE FetchInv'
  BY <1>6, <1>c, <1>u DEF Exit, fetchVars
<1>7. ASSUME StopCalled \/ ContextEnds PROVE FetchInv'
  <2>1. UNCHANGED <<config, proxy, fetch>> /\ cancelled \subseteq cancelled'
    BY <1>7 DEF StopCalled, ContextEnds, world
  <2> QED
    BY <1>f, <2>1 DEF FetchInv, FetchFacts
<1>8. ASSUME StopReturns \/ StopDeadline \/ SetMode \/ UNCHANGED vars PROVE FetchInv'
  BY <1>8, <1>u DEF StopReturns, StopDeadline, SetMode, fetchVars, world, vars
<1>9. ASSUME Killed PROVE FetchInv'
  BY <1>9, <1>c DEF Killed
<1>10. ASSUME World PROVE FetchInv'
  <2>1. CASE Publish
    BY <1>u, <2>1 DEF Publish
  <2>2. CASE Rotate
    <3>1. ASSUME NEW c \in Clients PROVE FetchFacts(fetch[c], c)'
      <4> DEFINE v == fetch[c].moved \/ At(c, {"send", "sent", "wait"})
                 g == [fetch[c] EXCEPT !.moved = v]
      <4>1. v \in BOOLEAN /\ fetch'[c] = g /\ UNCHANGED <<config, cancelled>>
        BY <2>2, FetchesHave DEF Rotate
      <4>2. \A w \in BOOLEAN : Same([fetch[c] EXCEPT !.moved = w], fetch[c], {"moved"}) /\ [fetch[c] EXCEPT !.moved = w].moved = w
        BY <1>f, FieldEdits
      <4> HIDE DEF v
      <4>3. Same(g, fetch[c], {"moved"}) /\ g.moved = v
        BY <4>1, <4>2
      <4> HIDE DEF g
      <4>4. /\ g.pc = fetch[c].pc /\ g.res = fetch[c].res /\ g.try = fetch[c].try
            /\ g.body = fetch[c].body /\ g.why = fetch[c].why
        BY <4>3 DEF Same
      <4>5. fetch[c].moved => g.moved
        BY <4>3 DEF v
      <4>6. g.pc \in {"send", "sent"} => g.moved
        BY <4>3, <4>4 DEF v, At
      <4> QED
        BY <1>f, <4>1, <4>4, <4>5, <4>6 DEF FetchFacts
    <3> QED
      BY <3>1 DEF FetchInv
  <2>3. CASE Refresh
    BY <1>f, <2>3 DEF Refresh, FetchInv, FetchFacts
  <2> QED
    BY <1>10, <2>1, <2>2, <2>3 DEF World
<1> QED
  BY <1>1, <1>2, <1>3, <1>4, <1>5, <1>6, <1>7, <1>8, <1>9, <1>10 DEF Next, Goes

LEMMA LoopKept == TypeOK /\ FetchInv /\ LoopInv /\ [Next]_vars => LoopInv'
<1> SUFFICES ASSUME TypeOK, FetchInv, LoopInv, [Next]_vars PROVE LoopInv'
  OBVIOUS
<1> USE DEF InState, At
<1>t. FetchTypeOK /\ fetch \in [Clients -> Fetches] /\ loop \in [Loops -> Goroutines] /\ service.done \in Loops \cup {Nobody}
  BY DEF TypeOK, FetchTypeOK, Goroutines, Fields
<1>f. \A l \in Loops : LoopFacts(l)
  BY DEF LoopInv
<1>r. LET m == Fetching("manifest")  e == Fetching("entry")
      IN /\ m \in Fetches /\ m.res = "manifest" /\ m.pc \in {"send", "failed"}
         /\ e \in Fetches /\ e.pc \in {"send", "failed"}
         /\ NoFetch \in Fetches /\ NoFetch.pc = "none"
  BY FetchingHas, FetchesHave DEF Resources, NoFetch
\* The facts about a goroutine depend on its own state, its fetch and its context.
<1>o. ASSUME NEW k \in Loops, UNCHANGED <<loop[k], fetch[k]>>, cancelled \subseteq cancelled',
             service'.done = service.done \/ ~InState(k, {"spawned"})
      PROVE  LoopFacts(k)'
  BY <1>f, <1>o DEF LoopFacts
<1>c. Crash => LoopInv'
  BY <1>f, <1>r DEF Crash, LoopInv, LoopFacts, Over, Unstarted
<1>1. ASSUME NEW l \in Loops, Start(l) PROVE LoopInv'
  <2>1. Becomes(l, {"spawned"}, loop[l].done, loop[l].late) /\ service'.done = l /\ UNCHANGED <<fetch, cancelled>>
        /\ loop[l].pc = "none"
    BY <1>1, Moves DEF Start, fetchVars
  <2>2. Nobody \notin Loops
    BY LoopsAssumption DEF Nobody
  <2> QED
    BY <1>f, <2>1, <2>2 DEF Becomes, LoopInv, LoopFacts
<1>2. ASSUME NEW l \in Loops, Enter(l) PROVE LoopInv'
  <2>1. Becomes(l, {"lock"}, service.done, loop[l].late) /\ UNCHANGED <<fetch, cancelled, service>> /\ loop[l].pc = "spawned"
    BY <1>2, Moves DEF Enter, fetchVars
  <2> QED
    BY <1>f, <2>1 DEF Becomes, LoopInv, LoopFacts
<1>3. ASSUME NEW l \in Loops, Lock(l) PROVE LoopInv'
  <2>1. Becomes(l, {"mode"}, loop[l].done, l \in cancelled) /\ UNCHANGED <<fetch, cancelled, service>> /\ loop[l].pc = "lock"
    BY <1>3, Moves DEF Lock, fetchVars
  <2> QED
    BY <1>f, <2>1 DEF Becomes, LoopInv, LoopFacts
<1>4. ASSUME NEW l \in Loops, CheckMode(l) \/ TickFires(l) \/ Leave(l) PROVE LoopInv'
  <2>1. Becomes(l, {"select", "exit", "lock"}, loop[l].done, loop[l].late) /\ UNCHANGED <<fetch, cancelled, service>>
        /\ loop[l].pc \in {"checkmode", "select"}
    BY <1>4, Moves DEF CheckMode, TickFires, Leave, fetchVars, Becomes
  <2> QED
    BY <1>f, <2>1 DEF Becomes, LoopInv, LoopFacts
<1>5. ASSUME NEW l \in Loops, ReadMode(l) PROVE LoopInv'
  <2>1. UNCHANGED <<cancelled, service>> /\ loop[l].pc = "mode"
    BY <1>5 DEF ReadMode
  <2>2. CASE UNCHANGED fetch /\ Becomes(l, {"checkmode", "select"}, loop[l].done, FALSE)
    BY <1>f, <2>1, <2>2 DEF Becomes, LoopInv, LoopFacts
  <2>3. CASE fetch' = [fetch EXCEPT ![l] = Fetching("manifest")] /\ Becomes(l, {"manifest"}, loop[l].done, loop[l].late)
    BY <1>f, <1>r, <1>t, <2>1, <2>3 DEF Becomes, LoopInv, LoopFacts
  <2> QED
    BY <1>5, <2>2, <2>3, Moves
<1>6. ASSUME NEW l \in Loops, FetchOn(l) PROVE LoopInv'
  <2>1. UNCHANGED <<loop, service, cancelled>> /\ loop[l].pc \in {"manifest", "entry"}
    BY <1>6, <1>t, FetchStepKeeps DEF FetchOn, lifeVars
  <2>2. /\ fetch[l].pc \in {"send", "sent", "wait"} /\ fetch'[l].res = fetch[l].res
        /\ \A d \in Clients \ {l} : fetch'[d] = fetch[d]
        /\ fetch[l].pc = "send" /\ l \in cancelled => fetch'[l].pc = "failed"
    BY <1>6, <1>t, FetchStepKeeps DEF FetchOn
  <2> QED
    BY <1>f, <2>1, <2>2 DEF LoopInv, LoopFacts
<1>7. ASSUME NEW l \in Loops, FetchFailed(l) \/ Install(l) PROVE LoopInv'
  <2>1. /\ Becomes(l, {"checkmode", "select"}, loop[l].done, FALSE) /\ UNCHANGED <<cancelled, service>>
        /\ loop[l].pc \in {"manifest", "entry"} /\ fetch' = [fetch EXCEPT ![l] = NoFetch]
    BY <1>7, Moves DEF FetchFailed, Install
  <2> QED
    BY <1>f, <1>r, <1>t, <2>1 DEF Becomes, LoopInv, LoopFacts
<1>8. ASSUME NEW l \in Loops, CacheManifest(l) PROVE LoopInv'
  <2>1. /\ UNCHANGED <<cancelled, service>> /\ loop[l].pc \in {"manifest", "write"}
        /\ loop[l].pc = "manifest" => fetch[l].pc = "accepted"
    BY <1>8 DEF CacheManifest
  <2>2. ~loop[l].late
    BY <1>f, <2>1 DEF LoopFacts
  <2>3. CASE Becomes(l, {"write"}, loop[l].done, loop[l].late) /\ loop[l].pc = "manifest" /\ UNCHANGED fetch
    BY <1>f, <2>1, <2>2, <2>3 DEF Becomes, LoopInv, LoopFacts
  <2>4. CASE Becomes(l, {"entry"}, loop[l].done, loop[l].late) /\ fetch' = [fetch EXCEPT ![l] = Fetching("entry")]
    BY <1>f, <1>r, <1>t, <2>1, <2>2, <2>4 DEF Becomes, LoopInv, LoopFacts
  <2> QED
    BY <1>8, <2>1, <2>3, <2>4, Moves
<1>9. ASSUME NEW l \in Loops, Exit(l) PROVE LoopInv'
  <2>1. CASE Becomes(l, {"over"}, Nobody, FALSE) /\ UNCHANGED <<fetch, cancelled>> /\ ~Crash
    <3>1. UNCHANGED service /\ loop[l].pc = "exit"
      BY <1>9, <2>1 DEF Exit
    <3> QED
      BY <1>f, <2>1, <3>1 DEF Becomes, LoopInv, LoopFacts
  <2> QED
    BY <1>9, <1>c, <2>1, Moves
<1>10. ASSUME NEW l \in Loops, Panic(l) PROVE LoopInv'
  <2>1. /\ Becomes(l, {"exit"}, loop[l].done, loop[l].late) /\ UNCHANGED <<cancelled, service>>
        /\ loop[l].pc \in Passing /\ fetch' = [fetch EXCEPT ![l] = NoFetch]
    BY <1>10, Moves DEF Panic
  <2> QED
    BY <1>f, <1>r, <1>t, <2>1 DEF Becomes, LoopInv, LoopFacts, Passing
<1>11. ASSUME StopCalled \/ ContextEnds \/ StopReturns \/ StopDeadline \/ SetMode \/ UNCHANGED vars PROVE LoopInv'
  <2>1. UNCHANGED <<loop, fetch, service>> /\ cancelled \subseteq cancelled'
    BY <1>11 DEF StopCalled, ContextEnds, StopReturns, StopDeadline, SetMode, vars, fetchVars, lifeVars
  <2> QED
    BY <1>o, <2>1 DEF LoopInv
<1>12. ASSUME Killed PROVE LoopInv'
  BY <1>c, <1>12 DEF Killed
<1>13. ASSUME World PROVE LoopInv'
  <2>1. UNCHANGED <<loop, service, cancelled>>
    BY <1>13 DEF World, Publish, Rotate, Refresh, lifeVars
  <2>2. ASSUME NEW c \in Loops PROVE fetch'[c].pc = fetch[c].pc /\ fetch'[c].res = fetch[c].res
    <3>1. CASE Rotate
      <4> DEFINE v == fetch[c].moved \/ At(c, {"send", "sent", "wait"})
      <4>1. v \in BOOLEAN /\ fetch'[c] = [fetch[c] EXCEPT !.moved = v]
        BY <1>t, <3>1, FetchesHave DEF Rotate
      <4> HIDE DEF v
      <4> QED
        BY <1>t, <4>1 DEF Fetches
    <3> QED
      BY <1>13, <3>1 DEF World, Publish, Refresh
  <2> QED
    BY <1>f, <2>1, <2>2 DEF LoopInv, LoopFacts
<1> QED
  BY <1>1, <1>2, <1>3, <1>4, <1>5, <1>6, <1>7, <1>8, <1>9, <1>10, <1>11, <1>12, <1>13 DEF Next, Goes

\* The channels, and what a Stop that returned has seen.
LEMMA ChannelsKept == TypeOK /\ ChannelInv /\ StopMeansOver /\ [Next]_vars => ChannelInv' /\ StopMeansOver'
<1> SUFFICES ASSUME TypeOK, ChannelInv, StopMeansOver, [Next]_vars PROVE ChannelInv' /\ StopMeansOver'
  OBVIOUS
<1> USE DEF ChannelInv, StopMeansOver, InState
<1>t. loop \in [Loops -> Goroutines] /\ closed \subseteq Loops /\ service.done \in Loops \cup {Nobody}
  BY DEF TypeOK, Goroutines, Fields
<1>c. Crash => ChannelInv' /\ StopMeansOver'
  BY DEF Crash, Over, Unstarted
<1>1. ASSUME NEW l \in Loops, Start(l) PROVE ChannelInv' /\ StopMeansOver'
  <2>1. /\ Becomes(l, {"spawned"}, loop[l].done, loop[l].late) /\ service'.done = l /\ UNCHANGED closed
        /\ loop[l].pc = "none" /\ stop' = "none" /\ rushed' = (rushed \/ \E k \in Loops : InState(k, {"spawned"}))
    BY <1>1, Moves DEF Start
  <2>2. StopMeansOver'
    BY <2>1
  <2>3. /\ loop'[l].pc = "spawned" /\ loop[l].pc = "none" /\ service'.done = l /\ closed' = closed
        /\ \A k \in Loops \ {l} : loop'[k] = loop[k]
    BY <2>1 DEF Becomes
  <2>4. ~rushed' => ~rushed /\ \A k \in Loops : loop[k].pc # "spawned"
    BY <2>1
  <2>5. ChannelInv'
    <3> SUFFICES ASSUME ~rushed' PROVE ChannelInv'
      OBVIOUS
    <3>1. \A k \in Loops : loop'[k].pc = "spawned" => service'.done = k
      BY <2>3, <2>4
    <3>2. \A k \in Loops : loop'[k].pc \notin {"none", "spawned", "over"} => loop'[k].done = k
      BY <2>3, <2>4
    <3>3. \A k \in closed' : loop'[k].pc = "over"
      BY <1>t, <2>3, <2>4
    <3> QED
      BY <3>1, <3>2, <3>3
  <2> QED
    BY <2>2, <2>5
<1>2. ASSUME NEW l \in Loops, Enter(l) PROVE ChannelInv' /\ StopMeansOver'
  <2>1. /\ Becomes(l, {"lock"}, service.done, loop[l].late) /\ UNCHANGED <<service, closed, stop, rushed>>
        /\ loop[l].pc = "spawned"
    BY <1>2, Moves DEF Enter
  <2> QED
    BY <1>t, <2>1 DEF Becomes
<1>3. ASSUME NEW l \in Loops,
             Lock(l) \/ CheckMode(l) \/ TickFires(l) \/ Leave(l) \/ ReadMode(l) \/ FetchFailed(l) \/ CacheManifest(l)
             \/ Install(l) \/ Panic(l)
      PROVE  ChannelInv' /\ StopMeansOver'
  <2>1. /\ loop[l].pc \notin {"none", "spawned", "over"} /\ UNCHANGED <<service, closed, stop, rushed>>
    BY <1>3 DEF Lock, CheckMode, TickFires, Leave, ReadMode, FetchFailed, CacheManifest, Install, Panic, Passing
  <2>2. /\ loop' \in [Loops -> Goroutines] /\ loop'[l].done = loop[l].done
        /\ loop'[l].pc \in Passing \cup {"lock", "checkmode", "select", "exit"}
        /\ \A k \in Loops \ {l} : loop'[k] = loop[k]
    BY <1>3, Moves DEF Becomes, Passing
  <2> QED
    BY <1>t, <2>1, <2>2 DEF Passing
<1>4. ASSUME NEW l \in Loops, Exit(l) PROVE ChannelInv' /\ StopMeansOver'
  <2>1. CASE ~Crash
    <3>1. UNCHANGED <<service, stop, rushed>> /\ loop[l].pc = "exit"
      BY <1>4, <2>1 DEF Exit
    <3>2. Becomes(l, {"over"}, Nobody, FALSE) /\ closed' = closed \cup {loop[l].done}
      BY <1>4, <2>1, Moves
    <3> QED
      BY <1>t, <3>1, <3>2 DEF Becomes
  <2> QED
    BY <1>c, <2>1
<1>5. ASSUME NEW l \in Loops, FetchOn(l) PROVE ChannelInv' /\ StopMeansOver'
  BY <1>5 DEF FetchOn, lifeVars
<1>6. ASSUME StopCalled PROVE ChannelInv' /\ StopMeansOver'
  BY <1>6 DEF StopCalled
<1>7. ASSUME StopReturns \/ StopDeadline PROVE ChannelInv' /\ StopMeansOver'
  BY <1>7 DEF StopReturns, StopDeadline
<1>8. ASSUME ContextEnds \/ SetMode \/ World \/ UNCHANGED vars PROVE ChannelInv' /\ StopMeansOver'
  BY <1>8 DEF ContextEnds, SetMode, World, vars, lifeVars
<1>9. ASSUME Killed PROVE ChannelInv' /\ StopMeansOver'
  BY <1>c, <1>9 DEF Killed
<1> QED
  BY <1>1, <1>2, <1>3, <1>4, <1>5, <1>6, <1>7, <1>8, <1>9 DEF Next, Goes

LEMMA GenuineKept == TypeOK /\ FetchInv /\ LoopInv /\ Genuine /\ [Next]_vars => Genuine'
<1> SUFFICES ASSUME TypeOK, FetchInv, LoopInv, Genuine, [Next]_vars PROVE Genuine'
  OBVIOUS
<1> USE DEF Genuine, InState, At
<1>1. UNCHANGED <<config, diskVars>> => Genuine'
  BY DEF diskVars
<1>2. ASSUME NEW l \in Loops, Install(l) PROVE Genuine'
  <2>1. installed' = fetch[l].body /\ UNCHANGED <<config, cache>> /\ fetch[l].pc = "accepted"
    BY <1>2 DEF Install
  <2> QED
    BY <2>1 DEF FetchInv, FetchFacts
<1>3. ASSUME NEW l \in Loops, CacheManifest(l) PROVE Genuine'
  <2>1. UNCHANGED <<config, installed>> /\ fetch[l].pc = "accepted" /\ fetch[l].res = "manifest"
        /\ cache' \in {cache, Torn, fetch[l].body.rev}
    BY <1>3 DEF CacheManifest, LoopInv, LoopFacts
  <2>2. config.key # "refused" /\ fetch[l].body.rev \notin config.broken
    BY <2>1 DEF FetchInv, FetchFacts, Valid
  <2>3. Torn \notin config.broken
    BY DEF TypeOK, FetchTypeOK, Settings, Revisions, Torn
  <2> QED
    BY <2>1, <2>2, <2>3
<1>4. ASSUME NEW l \in Loops, FetchOn(l) PROVE UNCHANGED <<config, diskVars>>
  BY <1>4, FetchStepKeeps DEF FetchOn, TypeOK
<1>5. ASSUME NEW l \in Loops,
             Start(l) \/ Enter(l) \/ Lock(l) \/ CheckMode(l) \/ TickFires(l) \/ Leave(l) \/ ReadMode(l) \/ FetchFailed(l)
             \/ Exit(l) \/ Panic(l)
      PROVE  UNCHANGED <<config, diskVars>>
  BY <1>5 DEF Start, Enter, Lock, CheckMode, TickFires, Leave, ReadMode, FetchFailed, Exit, Panic, fetchVars
<1>6. ASSUME StopCalled \/ ContextEnds \/ StopReturns \/ StopDeadline \/ Killed \/ SetMode \/ UNCHANGED vars
      PROVE  UNCHANGED <<config, diskVars>>
  BY <1>6 DEF StopCalled, ContextEnds, StopReturns, StopDeadline, Killed, SetMode, fetchVars, vars
<1>7. ASSUME World PROVE UNCHANGED <<config, diskVars>>
  BY <1>7 DEF World, Publish, Rotate, Refresh
<1> QED
  BY <1>1, <1>2, <1>3, <1>4, <1>5, <1>6, <1>7 DEF Next, Goes
-----------------------------------------------------------------------------
LEMMA InitHolds == Init => IInv
<1> SUFFICES ASSUME Init PROVE IInv
  OBVIOUS
<1> USE DEF Init, FetchInit
<1>1. TypeOK
  <2>1. FetchTypeOK
    BY FetchAssumption, FetchesHave DEF FetchTypeOK, Revisions
  <2>2. loop \in [Loops -> Goroutines] /\ service \in Fields
    BY DEF Unstarted, Goroutines, Fields, NoService
  <2> QED
    BY <2>1, <2>2, BodiesHave DEF TypeOK, Goroutines
<1>2. FetchInv
  BY BeginsWell DEF FetchInv
<1>3. OnePass /\ LoopInv /\ ChannelInv /\ StopMeansOver
  BY DEF OnePass, LoopInv, LoopFacts, ChannelInv, StopMeansOver, InState, At, Unstarted, NoFetch, Passing
<1>4. Genuine
  BY <1>1, FetchAssumption DEF Genuine, TypeOK, FetchTypeOK, Settings, Revisions, NoCache
<1> QED
  BY <1>1, <1>2, <1>3, <1>4 DEF IInv

LEMMA Inductive == Spec => []IInv
<1>1. IInv /\ [Next]_vars => IInv'
  BY TypeKept, OnePassKept, FetchKept, LoopKept, ChannelsKept, GenuineKept DEF IInv
<1> QED
  BY InitHolds, <1>1, PTL DEF Spec

\* The state keeps its type, whatever the numbers of Starts and revisions.
THEOREM TypeCorrect == Spec => []TypeOK
BY Inductive, PTL DEF IInv

\* Loops of any number of Starts and abandoned Stops never pass at the same
\* time, with any panics (skillinject.go:55-62).
THEOREM PassesAlone == Spec => []OnePass
BY Inductive, PTL DEF IInv

\* A Stop that returned nil has seen the loop of the last Start to its end,
\* after any calls of Start and Stop (service.go:56-69).
THEOREM StopSeesTheEnd == Spec => []StopMeansOver
BY Inductive, PTL DEF IInv

\* A tick that the select chose after the cancellation fetches, caches and
\* installs nothing (skillinject.go:138-143).
THEOREM LateTicksAreEmpty == Spec => []LateTickIsEmpty
<1>1. IInv => LateTickIsEmpty
  BY DEF IInv, LoopInv, LoopFacts, LateTickIsEmpty, InState, At
<1> QED
  BY Inductive, <1>1, PTL

\* Whatever is published, rotated and cut while a fetch is under way: what is
\* installed with a key is whole as signed, and the cache holds no manifest that
\* does not validate (manifest.go:369-426).
THEOREM InstallsGenuine == Spec => []Genuine
BY Inductive, PTL DEF IInv

\* At any request of any fetch, one rotation of the credentials is survived
\* (manifest.go:326-334, proxy.go:27-31).
THEOREM SurvivesARotation == Spec => []OneRotationSurvived
<1>1. IInv => OneRotationSurvived
  BY DEF IInv, FetchInv, FetchFacts, OneRotationSurvived
<1> QED
  BY Inductive, <1>1, PTL

\* Unless a Start came before an earlier goroutine had begun, no goroutine
\* closes a channel that is closed, which would take the daemon down
\* (service.go:46).
THEOREM ClosesOnce == Spec => [](\A l \in Loops : InState(l, {"exit"}) /\ ~rushed => loop[l].done \notin closed)
<1>1. IInv => \A l \in Loops : InState(l, {"exit"}) /\ ~rushed => loop[l].done \notin closed
  BY DEF IInv, ChannelInv, InState
<1> QED
  BY Inductive, <1>1, PTL
=============================================================================

------------------------------- MODULE Fetch -------------------------------
(***************************************************************************)
(* The fetcher of a pass: one resource, and with a key its detached        *)
(* signature, each a GET through a proxy whose credentials rotate.  Between*)
(* any two requests upstream publishes, the proxy rotates, or the context  *)
(* is cancelled.                                                           *)
(***************************************************************************)
EXTENDS Naturals, FiniteSets

CONSTANTS
    Clients,   \* passes that fetch
    Configs,   \* how the fetcher is configured, and what it meets; see Settings
    MaxRev,    \* upstream publishes this many revisions
    MaxEvents  \* bound on rotations, failures, panics, crashes and changes of mode

Revisions == 1..MaxRev
Resources == {"manifest", "entry"}

\* What the key sources and RequireSignedManifest come to: no verification, a
\* key, or an error (a key that does not decode; a required key that is not
\* there).
Keys == {"none", "resolved", "refused"}

\* owns: the fetcher's own refreshing client.  garbles: the proxy refuses with
\* an answer that net/http cannot parse.  broken: revisions whose manifest does
\* not parse or validate.  oversized: whose SKILL.md is over the body limit.
Settings == [key : Keys, owns : BOOLEAN, garbles : BOOLEAN,
             broken : SUBSET Revisions, oversized : SUBSET Revisions]

ASSUME FetchAssumption == /\ MaxRev \in Nat \ {0} /\ MaxEvents \in Nat
                          /\ Configs \subseteq Settings

\* A body: the revision it was served from, and whether it is all of it.
Nothing == [rev |-> 0, whole |-> FALSE]
Bodies == [rev : Revisions, whole : BOOLEAN] \cup {Nothing}

VARIABLES
    config,     \* it never changes
    upstream,   \* the revision published
    proxy,      \* are the credentials that the transport holds the current ones?
    events,
    cancelled,  \* clients whose context is cancelled
    fetch       \* client -> the fetch it is at

fetchVars == <<config, upstream, proxy, events, cancelled, fetch>>
world == <<upstream, proxy>>

\* moved: the credentials were rotated since the proxy refused this request.
Fetches == [pc : {"none", "send", "sent", "wait", "accepted", "failed"},
            res : Resources, url : {"body", "sig"}, try : 1..2, body : Bodies,
            moved : BOOLEAN, why : {"none", "key", "cancelled", "refused", "garbled", "error", "mismatch", "invalid"}]

NoFetch == [pc |-> "none", res |-> "manifest", url |-> "body", try |-> 1, body |-> Nothing,
            moved |-> FALSE, why |-> "none"]

FetchTypeOK == /\ config \in Settings
               /\ upstream \in Revisions
               /\ proxy \in BOOLEAN
               /\ events \in 0..MaxEvents
               /\ cancelled \subseteq Clients
               /\ fetch \in [Clients -> Fetches]

FetchInit == /\ config \in Configs
             /\ upstream = 1
             /\ proxy = TRUE
             /\ events = 0
             /\ cancelled = {}
             /\ fetch = [c \in Clients |-> NoFetch]

Event == events < MaxEvents /\ events' = events + 1
At(c, pcs) == fetch[c].pc \in pcs

Failed(f, why) == [f EXCEPT !.pc = "failed", !.why = why]
-----------------------------------------------------------------------------
\* getOrVerify: nothing is requested without the key there should be.
Fetching(res) == LET f == [NoFetch EXCEPT !.res = res, !.pc = "send"]
                 IN IF config.key = "refused" THEN Failed(f, "key") ELSE f

\* The body as served: cut at the limit without an error.
Served(f) == [rev |-> upstream, whole |-> ~(f.res = "entry" /\ upstream \in config.oversized)]

\* Mutant: whatever the signature.
VerifiedAny(f) == TRUE

\* ed25519.Verify of the body against the signature published now.
Verified(f) == f.body.whole /\ f.body.rev = upstream

\* What fetchManifest checks on top.
Valid(f) == f.res = "manifest" => f.body.rev \notin config.broken

Taken(f) == IF Valid(f) THEN [f EXCEPT !.pc = "accepted"] ELSE Failed(f, "invalid")

\* Mutant: the request does not carry the pass's context.
SendDetached(c) == /\ At(c, {"send"})
                   /\ fetch' = [fetch EXCEPT ![c].pc = "sent"]
                   /\ UNCHANGED <<config, world, events, cancelled>>

\* do: a cancelled context fails before anything is sent.
Send(c) == /\ At(c, {"send"})
           /\ fetch' = [fetch EXCEPT ![c] = IF c \in cancelled THEN Failed(@, "cancelled")
                                            ELSE [@ EXCEPT !.pc = "sent"]]
           /\ UNCHANGED <<config, world, events, cancelled>>

\* A 200: the body, or the signature that is compared with it.
Answered(f) ==
    IF f.url = "sig" THEN IF Verified(f) THEN Taken(f) ELSE Failed(f, "mismatch")
    ELSE IF config.key = "none" THEN Taken([f EXCEPT !.body = Served(f)])
    ELSE [f EXCEPT !.body = Served(f), !.url = "sig", !.pc = "send", !.try = 1, !.moved = FALSE]

\* Over a connection it still has, the proxy asks for no credentials.
Answer(c) == /\ At(c, {"sent"})
             /\ fetch' = [fetch EXCEPT ![c] = Answered(@)]
             /\ UNCHANGED <<config, world, events, cancelled>>

\* Mutant: the refusal is final.
RefusedFinal(c) ==
    /\ At(c, {"sent"}) /\ ~proxy /\ ~config.garbles
    /\ proxy' = TRUE
    /\ fetch' = [fetch EXCEPT ![c] = Failed(@, "refused")]
    /\ UNCHANGED <<config, upstream, events, cancelled>>

\* A 407, which makes the transport read the credentials again; then the
\* request is sent once more, by get or by the transport that it owns.
Refused(c) ==
    /\ At(c, {"sent"}) /\ ~proxy /\ ~config.garbles
    /\ proxy' = TRUE
    /\ fetch' = [fetch EXCEPT ![c] =
         IF @.try = 2 \/ (~config.owns /\ c \in cancelled) THEN Failed(@, "refused")
         ELSE [@ EXCEPT !.pc = "send", !.try = 2, !.moved = FALSE]]
    /\ UNCHANGED <<config, upstream, events, cancelled>>

\* Mutant: such a request is sent again and again.
GarbledAgain(c) ==
    /\ At(c, {"sent"}) /\ ~proxy /\ config.garbles
    /\ fetch' = [fetch EXCEPT ![c].pc = "send", ![c].try = @ + 1]
    /\ UNCHANGED <<config, world, events, cancelled>>

\* A refusal that net/http cannot parse.
Garbled(c) ==
    /\ At(c, {"sent"}) /\ ~proxy /\ config.garbles
    /\ fetch' = [fetch EXCEPT ![c] =
         IF @.try = 2 \/ config.owns \/ c \in cancelled THEN Failed(@, "garbled")
         ELSE [@ EXCEPT !.pc = "wait", !.moved = FALSE]]
    /\ UNCHANGED <<config, world, events, cancelled>>

\* sleepCtx: the delay passes, or the context ends it; with both, either.
Waited(c) == /\ At(c, {"wait"})
             /\ \/ fetch' = [fetch EXCEPT ![c].pc = "send", ![c].try = 2]
                \/ c \in cancelled /\ fetch' = [fetch EXCEPT ![c] = Failed(@, "garbled")]
             /\ UNCHANGED <<config, world, events, cancelled>>

\* Any other error, a timeout, or a status that is not 200.
Fails(c) == /\ At(c, {"sent"})
            /\ Event
            /\ fetch' = [fetch EXCEPT ![c] = Failed(@, "error")]
            /\ UNCHANGED <<config, world, cancelled>>

\* The context is cancelled under a request.
Aborted(c) == /\ At(c, {"sent"}) /\ c \in cancelled
              /\ fetch' = [fetch EXCEPT ![c] = Failed(@, "cancelled")]
              /\ UNCHANGED <<config, world, events, cancelled>>

FetchStep(c) == \/ Send(c) \/ Answer(c) \/ Refused(c) \/ Garbled(c) \/ Waited(c)
                \/ Fails(c) \/ Aborted(c)
-----------------------------------------------------------------------------
Publish == /\ upstream < MaxRev
           /\ upstream' = upstream + 1
           /\ UNCHANGED <<config, proxy, events, cancelled, fetch>>

Rotate == /\ Event
          /\ proxy' = FALSE
          /\ fetch' = [c \in Clients |-> [fetch[c] EXCEPT !.moved = @ \/ At(c, {"send", "sent", "wait"})]]
          /\ UNCHANGED <<config, upstream, cancelled>>

\* The resolver reads the credentials on its own, once its interval is over.
Refresh == /\ ~proxy
           /\ proxy' = TRUE
           /\ UNCHANGED <<config, upstream, events, cancelled, fetch>>
-----------------------------------------------------------------------------
\* One rotation never costs a fetch, at whatever request it comes: a 407 is
\* final only if the credentials changed again after the refusal, or if the
\* pass was cancelled (manifest.go:326-334, proxy.go:27-31).
OneRotationSurvived ==
    \A c \in Clients : fetch[c].why = "refused" => fetch[c].moved \/ c \in cancelled
=============================================================================

------------------------------ MODULE Service ------------------------------
(***************************************************************************)
(* The plugin of the daemon: Start and Stop, the goroutine of each Start   *)
(* with its loop, and the passes, which tickMu keeps apart and which fetch *)
(* (Fetch), cache the manifest and install.  The daemon may stop waiting,  *)
(* start again, crash and come back.                                       *)
(***************************************************************************)
EXTENDS Fetch

CONSTANTS Off     \* modes the user may choose, beside auto

ASSUME OffAssumption == Off \subseteq {"manual", "disabled"}

Loops == Clients   \* the goroutines, in the order of Start: 1, 2, ...
ASSUME LoopsAssumption == Clients \subseteq Nat \ {0}

Nobody == 0
Torn == 0      \* a cached manifest that was truncated, and not yet written
NoCache == MaxRev + 1

VARIABLES
    service,    \* the fields cancel and done: the loop they stand for, or none
    loop,       \* goroutine -> [pc, first: is this the startup tick?, done: the channel it closes, late]
    closed,     \* channels that are closed
    tickMu,     \* the goroutine that holds it
    stop,       \* the daemon's call of Stop
    rushed,     \* history: a Start came before an earlier goroutine had begun
    mode,       \* of the user
    cache,      \* revision of the cached manifest
    installed   \* revision of the SKILL.md installed, and whether it is whole

lifeVars == <<service, loop, closed, tickMu, stop, rushed, mode>>
diskVars == <<cache, installed>>
vars == <<fetchVars, lifeVars, diskVars>>

Passing == {"mode", "manifest", "write", "entry"}
Fields == [cancel : Loops \cup {Nobody}, done : Loops \cup {Nobody}]
Unstarted == [pc |-> "none", first |-> TRUE, done |-> Nobody, late |-> FALSE]
Over == [Unstarted EXCEPT !.pc = "over"]

TypeOK ==
    /\ FetchTypeOK
    /\ service \in Fields
    /\ loop \in [Loops -> [pc : {"none", "spawned", "lock", "checkmode", "select", "exit", "over"} \cup Passing,
                           first : BOOLEAN, done : Loops \cup {Nobody}, late : BOOLEAN]]
    /\ closed \subseteq Loops
    /\ tickMu \in Loops \cup {Nobody}
    /\ stop \in {"none", "waiting", "nil", "deadline"}
    /\ rushed \in BOOLEAN
    /\ mode \in {"auto"} \cup Off
    /\ cache \in Revisions \cup {Torn, NoCache}
    /\ installed \in Bodies

NoService == [cancel |-> Nobody, done |-> Nobody]

Init == /\ FetchInit
        /\ service = NoService
        /\ loop = [l \in Loops |-> Unstarted]
        /\ closed = {}
        /\ tickMu = Nobody
        /\ stop = "none"
        /\ rushed = FALSE
        /\ mode = "auto"
        /\ cache = NoCache
        /\ installed = Nothing

InState(l, pcs) == loop[l].pc \in pcs
To(l, pc) == loop' = [loop EXCEPT ![l].pc = pc]
-----------------------------------------------------------------------------
(***************************************************************************)
(* The daemon's calls.                                                     *)
(***************************************************************************)
\* Start, by a daemon that is not in Stop: at first, and again after a Stop.
Start(l) ==
    /\ InState(l, {"none"}) /\ \A k \in Loops : k < l => ~InState(k, {"none"})
    /\ \/ stop = "none" /\ service = NoService
       \/ stop \in {"nil", "deadline"}
    /\ service' = [cancel |-> l, done |-> l]
    /\ To(l, "spawned")
    /\ stop' = "none"
    /\ rushed' = (rushed \/ \E k \in Loops : InState(k, {"spawned"}))
    /\ UNCHANGED <<fetchVars, closed, tickMu, mode, diskVars>>

\* Stop: cancel, and wait for the channel of the last Start.
StopCalled ==
    /\ stop # "waiting"
    /\ cancelled' = cancelled \cup ({service.cancel} \ {Nobody})
    /\ stop' = IF service.done = Nobody THEN "nil" ELSE "waiting"
    /\ UNCHANGED <<config, world, events, fetch, service, loop, closed, tickMu, rushed, mode, diskVars>>

\* Mutant: Stop does not wait.
StopReturnsAtOnce ==
    /\ stop = "waiting"
    /\ stop' = "nil"
    /\ UNCHANGED <<fetchVars, service, loop, closed, tickMu, rushed, mode, diskVars>>

StopReturns ==
    /\ stop = "waiting" /\ service.done \in closed
    /\ stop' = "nil"
    /\ UNCHANGED <<fetchVars, service, loop, closed, tickMu, rushed, mode, diskVars>>

StopDeadline ==
    /\ stop = "waiting"
    /\ stop' = "deadline"
    /\ UNCHANGED <<fetchVars, service, loop, closed, tickMu, rushed, mode, diskVars>>

\* The context that the daemon gave Start is cancelled.
ContextEnds ==
    /\ stop = "none" /\ service.cancel # Nobody
    /\ cancelled' = {l \in Loops : ~InState(l, {"none", "over"})} \cup cancelled
    /\ Event
    /\ UNCHANGED <<config, world, fetch, lifeVars, diskVars>>

\* The daemon dies, or is killed, and another is started.
Crash ==
    /\ service' = NoService /\ stop' = "none"
    /\ loop' = [l \in Loops |-> IF InState(l, {"none"}) THEN loop[l] ELSE Over]
    /\ tickMu' = Nobody
    /\ fetch' = [l \in Loops |-> NoFetch]
    /\ closed' = {} /\ cancelled' = {} /\ rushed' = FALSE

Killed == /\ service # NoService
          /\ Event
          /\ Crash
          /\ UNCHANGED <<config, world, mode, diskVars>>
-----------------------------------------------------------------------------
(***************************************************************************)
(* The goroutine, and Run.                                                 *)
(***************************************************************************)
\* "defer close(s.done)" takes the field's value here, not in Start.
Enter(l) == /\ InState(l, {"spawned"})
            /\ loop' = [loop EXCEPT ![l].pc = "lock", ![l].done = service.done]
            /\ UNCHANGED <<fetchVars, service, closed, tickMu, stop, rushed, mode, diskVars>>

\* Mutant: a pass without tickMu.
LockNot(l) == /\ InState(l, {"lock"})
              /\ tickMu' = l
              /\ loop' = [loop EXCEPT ![l].pc = "mode", ![l].late = l \in cancelled]
              /\ UNCHANGED <<fetchVars, service, closed, stop, rushed, mode, diskVars>>

Lock(l) == /\ InState(l, {"lock"}) /\ tickMu = Nobody
           /\ tickMu' = l
           /\ loop' = [loop EXCEPT ![l].pc = "mode", ![l].late = l \in cancelled]
           /\ UNCHANGED <<fetchVars, service, closed, stop, rushed, mode, diskVars>>

\* The pass is over: the deferred unlock, and where Run goes on.
PassEnds(l) == /\ tickMu' = Nobody
               /\ loop' = [loop EXCEPT ![l].pc = IF loop[l].first THEN "checkmode" ELSE "select",
                                       ![l].first = FALSE, ![l].late = FALSE]

CheckMode(l) == /\ InState(l, {"checkmode"})
                /\ To(l, IF mode = "auto" THEN "select" ELSE "exit")
                /\ UNCHANGED <<fetchVars, service, closed, tickMu, stop, rushed, mode, diskVars>>

\* The select: either, when both are ready.
TickFires(l) == /\ InState(l, {"select"})
                /\ To(l, "lock")
                /\ UNCHANGED <<fetchVars, service, closed, tickMu, stop, rushed, mode, diskVars>>

Leave(l) == /\ InState(l, {"select"}) /\ l \in cancelled
            /\ To(l, "exit")
            /\ UNCHANGED <<fetchVars, service, closed, tickMu, stop, rushed, mode, diskVars>>

\* The goroutine returns.  Closing a closed channel panics with nobody left to recover.
Exit(l) == /\ InState(l, {"exit"})
           /\ \/ /\ loop[l].done \notin closed
                 /\ closed' = closed \cup {loop[l].done}
                 /\ loop' = [loop EXCEPT ![l] = Over]
                 /\ UNCHANGED <<fetchVars, service, tickMu, stop, rushed>>
              \/ /\ loop[l].done \in closed
                 /\ Crash
                 /\ UNCHANGED <<config, world, events>>
           /\ UNCHANGED <<mode, diskVars>>

\* Mutant: the channel is left open.
PanicUnclosed(l) == /\ InState(l, Passing)
                    /\ Event
                    /\ tickMu' = Nobody
                    /\ To(l, "over")
                    /\ fetch' = [fetch EXCEPT ![l] = NoFetch]
                    /\ UNCHANGED <<config, world, cancelled, service, closed, stop, rushed, mode, diskVars>>

\* A panic in a pass ends Run; the deferred unlock and RecoverPlugin run.
Panic(l) == /\ InState(l, Passing)
            /\ Event
            /\ tickMu' = Nobody
            /\ To(l, "exit")
            /\ fetch' = [fetch EXCEPT ![l] = NoFetch]
            /\ UNCHANGED <<config, world, cancelled, service, closed, stop, rushed, mode, diskVars>>
-----------------------------------------------------------------------------
(***************************************************************************)
(* A pass.                                                                 *)
(***************************************************************************)
\* In disabled mode it prunes, offline; else a new fetcher gets the manifest.
ReadMode(l) ==
    /\ InState(l, {"mode"})
    /\ IF mode = "disabled" THEN PassEnds(l) /\ UNCHANGED fetch
       ELSE /\ To(l, "manifest") /\ UNCHANGED tickMu
            /\ fetch' = [fetch EXCEPT ![l] = Fetching("manifest")]
    /\ UNCHANGED <<config, world, events, cancelled, service, closed, stop, rushed, mode, diskVars>>

\* A step of the manifest's or SKILL.md's fetch.
FetchOn(l) == /\ InState(l, {"manifest", "entry"})
               /\ FetchStep(l)
               /\ UNCHANGED <<lifeVars, diskVars>>

\* Either fetch fails: the tick returns the error.
FetchFailed(l) == /\ InState(l, {"manifest", "entry"}) /\ At(l, {"failed"})
                  /\ PassEnds(l)
                  /\ fetch' = [fetch EXCEPT ![l] = NoFetch]
                  /\ UNCHANGED <<config, world, events, cancelled, service, closed, stop, rushed, mode, diskVars>>

\* Mutant: the manifest is cached once.
CacheManifestOnce(l) ==
    /\ \/ /\ InState(l, {"manifest"}) /\ At(l, {"accepted"})
          /\ \/ cache = NoCache /\ cache' = Torn /\ To(l, "write") /\ UNCHANGED <<events, fetch>>
             \/ /\ cache # NoCache /\ UNCHANGED <<events, cache>>
                /\ To(l, "entry") /\ fetch' = [fetch EXCEPT ![l] = Fetching("entry")]
       \/ /\ InState(l, {"write"})
          /\ cache' = fetch[l].body.rev /\ UNCHANGED events
          /\ To(l, "entry") /\ fetch' = [fetch EXCEPT ![l] = Fetching("entry")]
    /\ UNCHANGED <<config, world, cancelled, service, closed, tickMu, stop, rushed, mode, installed>>

\* writeCache is os.WriteFile: it truncates, then writes.  An error, before or
\* between, is ignored.
CacheManifest(l) ==
    /\ \/ /\ InState(l, {"manifest"}) /\ At(l, {"accepted"})
          /\ \/ cache' = Torn /\ To(l, "write") /\ UNCHANGED <<events, fetch>>
             \/ /\ Event /\ UNCHANGED cache
                /\ To(l, "entry") /\ fetch' = [fetch EXCEPT ![l] = Fetching("entry")]
       \/ /\ InState(l, {"write"})
          /\ \/ cache' = fetch[l].body.rev /\ UNCHANGED events
             \/ Event /\ UNCHANGED cache
          /\ To(l, "entry") /\ fetch' = [fetch EXCEPT ![l] = Fetching("entry")]
    /\ UNCHANGED <<config, world, cancelled, service, closed, tickMu, stop, rushed, mode, installed>>

\* The skill copies; what else a pass installs is SkillInject's.
Install(l) == /\ InState(l, {"entry"}) /\ At(l, {"accepted"})
              /\ installed' = fetch[l].body
              /\ PassEnds(l)
              /\ fetch' = [fetch EXCEPT ![l] = NoFetch]
              /\ UNCHANGED <<config, world, events, cancelled, service, closed, stop, rushed, mode, cache>>
-----------------------------------------------------------------------------
SetMode == /\ \E m \in {"auto"} \cup Off : m # mode /\ mode' = m
           /\ Event
           /\ UNCHANGED <<config, world, cancelled, fetch, service, loop, closed, tickMu, stop, rushed, diskVars>>

World == (Publish \/ Rotate \/ Refresh) /\ UNCHANGED <<lifeVars, diskVars>>

Goes(l) == \/ Enter(l) \/ Lock(l) \/ CheckMode(l) \/ ReadMode(l) \/ FetchOn(l) \/ FetchFailed(l)
           \/ CacheManifest(l) \/ Install(l)

Next == \/ \E l \in Loops : Start(l) \/ Goes(l) \/ TickFires(l) \/ Leave(l) \/ Exit(l) \/ Panic(l)
        \/ StopCalled \/ ContextEnds \/ StopReturns \/ StopDeadline \/ Killed
        \/ SetMode \/ World

\* A goroutine runs, a request ends within its timeout, the mutex is handed on
\* and the select chooses at random: none of them is passed over for ever.
\* The transport reads rotated credentials in the end.
Fairness == /\ \A l \in Loops : /\ WF_vars(Goes(l) \/ TickFires(l) \/ Exit(l))
                                /\ SF_vars(Lock(l)) /\ SF_vars(Leave(l))
            /\ WF_vars(Refresh /\ UNCHANGED <<lifeVars, diskVars>>)

Spec == Init /\ [][Next]_vars /\ Fairness
-----------------------------------------------------------------------------
\* Two loops of one daemon, the second started while Stop has given up on the
\* first, never pass at the same time, whatever panics (skillinject.go:55-62).
OnePass == \A l \in Loops : InState(l, Passing) => tickMu = l

\* A Stop that returned nil has seen the last loop to its end, also if an
\* earlier one was abandoned at its deadline (service.go:56-69); unless a
\* goroutine read the field done only after the next Start had set it.
StopMeansOver == stop = "nil" /\ service.done # Nobody /\ ~rushed => InState(service.done, {"over"})

\* The select may choose the ticker although the context is cancelled; the
\* tick then fetches, caches and installs nothing (skillinject.go:138-143;
\* what it prunes when disabled, 221-226, is SkillInject's subject).
LateTickIsEmpty == \A l \in Loops : loop[l].late => ~InState(l, {"write", "entry"}) /\ ~At(l, {"accepted"})

\* With publications and rotations between a body and its signature, and
\* whatever was cut at the body limit: with a key only whole files as they
\* were signed are installed, and no manifest is cached that Uninstall could
\* not use, except a torn one (manifest.go:369-426).
Genuine == /\ config.key = "resolved" => installed = Nothing \/ installed.whole
           /\ config.key = "refused" => installed = Nothing /\ cache = NoCache
           /\ cache \notin config.broken

\* A cancelled loop closes the channel that Stop waits for, whatever panics,
\* and also while another loop has its pass (service.go:43-51).
Cancelled(l) == l \in cancelled /\ ~rushed
CancelledEnds == \A l \in Loops : Cancelled(l) ~> l \in closed \/ ~Cancelled(l)

\* A loop that goes on in auto mode gets the last revision installed and its
\* manifest cached: no skew between a body and its signature, no rotation, no
\* failed fetch and no torn cache is final.
Ticking == \E l \in Loops : l \notin cancelled /\ ~InState(l, {"none", "spawned", "exit", "over"})
Usable == config.key # "refused" /\ upstream \notin config.broken /\ (upstream \in config.oversized => config.key = "none")
CatchesUp == <>[](mode = "auto" /\ Usable /\ Ticking)
             => /\ <>[](cache \in {upstream, Torn} /\ installed.rev = upstream)
                /\ []<>(cache = upstream)
=============================================================================

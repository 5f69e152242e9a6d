------------------------------ MODULE Session ------------------------------
(***************************************************************************)
(* The turns of one agent session: POST /session/{id}/message, /stop and   *)
(* /archive (server/app.py), the turn generator (server/sessions.py        *)
(* stream_session_turn) and the provider process behind it.  Handlers run  *)
(* on threads of one server process, which may be restarted.               *)
(*                                                                         *)
(* The session's JSONL log is append-only and is read through load_session,*)
(* which folds it: the model keeps that fold (`status`, `natives`) and     *)
(* updates it with every event appended.  Both registered providers can    *)
(* resume natively, so the `stateless` branches are left out.              *)
(***************************************************************************)
EXTENDS Naturals, FiniteSets, Sequences

CONSTANTS
    Requests,    \* message handlers
    Natives,     \* native session ids the provider hands out
    NoNative,
    Bundles,     \* digests of context bundles
    None,        \* no turn, no decision
    MaxTurns,    \* bound: turns reserved
    MaxRestarts  \* bound: server restarts

Terminals == {"done", "failed", "interrupted", "native_missing"}

ASSUME SessionAssumption ==
    /\ NoNative \notin Natives
    /\ None \notin Requests \cup Terminals \cup {"provider", "interrupted"}
    /\ MaxTurns \in Nat /\ MaxRestarts \in Nat

VARIABLES
    provider,  \* "codex" or "opencode", bound when the session is created
    status,    \* load_session: last lifecycle status of the log
    natives,   \* load_session: native ids named by the log
    sent,      \* the sent-contexts ledger: <<native id, digest>>
    active,    \* _ActiveTurnRegistry: the request whose turn is reserved
    rq,        \* what each request holds
    archiver,  \* progress of a POST /archive
    up,        \* is the server up?
    turns,     \* turns reserved so far
    injected,  \* (history) <<native id, digest, turn>> a provider was given
    ended,     \* (history) terminal statuses each turn appended
    stale,     \* (history) did a turn start without the native id of the log?
    restarts

vars == <<provider, status, natives, sent, active, rq, archiver, up, turns,
          injected, ended, stale, restarts>>
log == <<status, natives>>
history == <<injected, ended, stale>>

Statuses == {"idle", "running", "orphaned", "archived"} \cup Terminals

\* A request: where it is, what it read of the Session (native id,
\* running or not), what it sends, and its
\* _ActiveTurn (turn, stop, claim, bound) with the provider stream's state.
Request ==
    [pc : {"idle", "loaded", "refused", "reserved", "leaked", "asked", "running",
           "streaming", "erring", "marking", "closing", "ended"},
     native : Natives \cup {NoNative}, busy : BOOLEAN,
     attached : SUBSET Bundles, sending : SUBSET Bundles,
     turn : 0..MaxTurns, stop : BOOLEAN, claim : {None, "provider", "interrupted"},
     bound : BOOLEAN, killed : BOOLEAN, failed : BOOLEAN, completed : BOOLEAN,
     result : Terminals \cup {None}]

Free ==
    [pc |-> "idle", native |-> NoNative, busy |-> FALSE, attached |-> {}, sending |-> {},
     turn |-> 0, stop |-> FALSE, claim |-> None, bound |-> FALSE, killed |-> FALSE,
     failed |-> FALSE, completed |-> FALSE, result |-> None]

\* A turn is reserved for the request, to run it or only to be given back.
InTurn(r) == rq[r].pc \notin {"idle", "loaded", "refused"}
Refused(r) == rq[r].pc = "refused"
\* load_session raises SessionStateError when the log names two native ids.
Loadable == Cardinality(natives) <= 1
NativeOf(ids) == IF ids = {} THEN NoNative ELSE CHOOSE n \in ids : TRUE
Interruptible == provider = "codex"
CompletesOnEof == provider = "opencode"

-----------------------------------------------------------------------------
(* The message handler                                                     *)

\* agent_session_message: load_session, and archived sessions are refused.
Load(r, bundles) ==
    /\ up /\ rq[r].pc = "idle"
    /\ Loadable /\ status # "archived"
    /\ rq' = [rq EXCEPT ![r] = [Free EXCEPT !.pc = "loaded", !.native = NativeOf(natives),
                                            !.busy = (status = "running"),
                                            !.attached = bundles]]
    /\ UNCHANGED <<provider, log, sent, active, archiver, up, turns, history, restarts>>

\* (mutant AnyTurn) The registry is not consulted.
AnyTurn(r) == TRUE
MayReserve(r) == active = None

\* session_stream_response: reserve, or 409 when a turn is active.
Reserve(r) ==
    /\ rq[r].pc = "loaded" /\ MayReserve(r) /\ ~rq[r].busy /\ turns < MaxTurns
    /\ active' = r
    /\ turns' = turns + 1
    /\ rq' = [rq EXCEPT ![r].pc = "reserved", ![r].turn = turns']
    /\ stale' = (stale \/ {rq[r].native} \ {NoNative} # natives)
    /\ UNCHANGED <<provider, log, sent, archiver, up, injected, ended, restarts>>

Conflict(r) ==
    /\ rq[r].pc = "loaded" /\ ~MayReserve(r)
    /\ rq' = [rq EXCEPT ![r] = Free]
    /\ UNCHANGED <<provider, log, sent, active, archiver, up, turns, history, restarts>>

\* The session was running when it was loaded: reserved, to be released and 409.
Refuse(r) ==
    /\ rq[r].pc = "loaded" /\ MayReserve(r) /\ rq[r].busy
    /\ active' = r
    /\ rq' = [rq EXCEPT ![r].pc = "refused"]
    /\ UNCHANGED <<provider, log, sent, archiver, up, turns, history, restarts>>

\* The client is gone before the response asks event_stream for its first line:
\* a generator that never started has no finally to release the turn.
Leak(r) ==
    /\ rq[r].pc = "reserved"
    /\ rq' = [rq EXCEPT ![r].pc = "leaked"]
    /\ UNCHANGED <<provider, log, sent, active, archiver, up, turns, history, restarts>>

-----------------------------------------------------------------------------
(* stream_session_turn                                                     *)

\* (mutant ResendAll) The ledger is not consulted.
ResendAll(r) == rq[r].attached
\* _context_delivery_plan: what this native session was not sent yet.
Unsent(r) == {b \in rq[r].attached : <<rq[r].native, b>> \notin sent}

Ask(r) ==
    /\ rq[r].pc = "reserved"
    /\ rq' = [rq EXCEPT ![r].pc = "asked", ![r].sending = Unsent(r)]
    /\ UNCHANGED <<provider, log, sent, active, archiver, up, turns, history, restarts>>

Announce(r) ==
    /\ rq[r].pc = "asked"
    /\ status' = "running"
    /\ rq' = [rq EXCEPT ![r].pc = "running"]
    /\ UNCHANGED <<provider, natives, sent, active, archiver, up, turns, history, restarts>>

\* (mutant DeafBind) A stop made before the handle is bound is forgotten.
DeafBind(r) == rq[r].killed
KilledAtBind(r) == rq[r].killed \/ rq[r].stop

\* start_turn or resume_turn, and _ActiveTurnRegistry.bind of its handle.
Spawn(r) ==
    /\ rq[r].pc = "running"
    /\ rq' = [rq EXCEPT ![r].pc = "streaming", ![r].bound = TRUE, ![r].killed = KilledAtBind(r)]
    /\ UNCHANGED <<provider, log, sent, active, archiver, up, turns, history, restarts>>

\* What a provider session has now been given.
Given(r, n) == {<<n, b, rq[r].turn>> : b \in rq[r].sending}

\* The provider has the message and names its session: a new one for
\* start_turn, the one resumed for resume_turn.
Accepted(r, n) ==
    /\ rq[r].pc = "streaming"
    /\ IF rq[r].native = NoNative THEN n \notin natives ELSE n = rq[r].native
    /\ natives' = natives \cup {n}
    /\ status' = IF provider = "codex" THEN "running" ELSE status
    /\ rq' = [rq EXCEPT ![r].native = n]
    /\ injected' = injected \cup Given(r, n)
    /\ UNCHANGED <<provider, sent, active, archiver, up, turns, ended, stale, restarts>>

\* Further events with a lifecycle status: progress, an error, completion.
\* load_session reads codex's `completed` as done.
Says(r, s) ==
    /\ rq[r].pc = "streaming"
    /\ s = "done" => provider = "codex"
    /\ status' = s
    /\ rq' = [rq EXCEPT ![r].failed = @ \/ s = "failed", ![r].completed = @ \/ s = "done"]
    /\ UNCHANGED <<provider, natives, sent, active, archiver, up, turns, history, restarts>>

\* claim_terminal, under the registry's lock: the first decision stands.
Claim(r) ==
    IF rq[r].claim # None THEN rq[r].claim
    ELSE IF rq[r].stop THEN "interrupted" ELSE "provider"

\* (mutant RawOutcome) The provider's own word is taken for the turn's.
RawOutcome(r) == IF rq[r].completed THEN "completed" ELSE "failed"
\* How a stream that ended by itself closes the turn.
Outcome(r) ==
    IF Claim(r) = "interrupted" THEN "interrupted"
    ELSE IF rq[r].failed \/ ~(rq[r].completed \/ CompletesOnEof) THEN "failed"
    ELSE IF rq[r].native = NoNative THEN "native_missing" ELSE "done"

\* A provider that completed has taken the message in, whether or not one of
\* its events said so.
Eof(r) ==
    /\ rq[r].pc = "streaming"
    /\ injected' = injected \cup (IF Outcome(r) = "done" THEN Given(r, rq[r].native) ELSE {})
    /\ rq' = [rq EXCEPT ![r].claim = Claim(r), ![r].result = Outcome(r),
                        ![r].pc = IF Outcome(r) = "done" THEN "marking" ELSE "closing"]
    /\ UNCHANGED <<provider, log, sent, active, archiver, up, turns, ended, stale, restarts>>

\* An exception: the CLI is missing or exits non-zero, the ledger is damaged, a
\* resumed session answers with another native id.
Raise(r) ==
    /\ rq[r].pc \in {"reserved", "asked", "running", "streaming", "marking"}
    /\ rq' = [rq EXCEPT ![r].claim = Claim(r),
                        ![r].result = IF Claim(r) = "interrupted" THEN "interrupted" ELSE "failed",
                        ![r].pc = IF Claim(r) = "interrupted" THEN "closing" ELSE "erring"]
    /\ UNCHANGED <<provider, log, sent, active, archiver, up, turns, history, restarts>>

\* The error event, which load_session reads as failed.
Err(r) ==
    /\ rq[r].pc = "erring"
    /\ status' = "failed"
    /\ \E pc \in {"closing", "ended"} :  \* ended: the client is gone, no status follows
          rq' = [rq EXCEPT ![r].pc = pc]
    /\ UNCHANGED <<provider, natives, sent, active, archiver, up, turns, history, restarts>>

\* (mutant AnyYield) The terminal flag is set after the last yield.
AnyYield(r) == rq[r].pc \in {"asked", "running", "streaming", "ended"}
Unfinished(r) == rq[r].pc \in {"asked", "running", "streaming"}

\* The client goes away: GeneratorExit at a yield, the provider is killed.
Gone(r) ==
    /\ Unfinished(r)
    /\ rq' = [rq EXCEPT ![r].claim = Claim(r), ![r].killed = TRUE, ![r].pc = "closing",
                        ![r].result = IF Claim(r) = "interrupted" THEN "interrupted" ELSE "failed"]
    /\ UNCHANGED <<provider, log, sent, active, archiver, up, turns, history, restarts>>

\* mark_context_sent for what the provider completed with.
Mark(r) ==
    /\ rq[r].pc = "marking"
    /\ sent' = sent \cup {<<rq[r].native, b>> : b \in rq[r].sending}
    /\ rq' = [rq EXCEPT ![r].pc = "closing"]
    /\ UNCHANGED <<provider, log, active, archiver, up, turns, history, restarts>>

Close(r) ==
    /\ rq[r].pc = "closing"
    /\ status' = rq[r].result
    /\ ended' = [ended EXCEPT ![rq[r].turn] = Append(@, rq[r].result)]
    /\ rq' = [rq EXCEPT ![r].pc = "ended"]
    /\ UNCHANGED <<provider, natives, sent, active, archiver, up, turns, injected, stale, restarts>>

Release(r) ==
    /\ rq[r].pc \in {"ended", "refused"}
    /\ active' = IF active = r THEN None ELSE active
    /\ rq' = [rq EXCEPT ![r] = Free]
    /\ UNCHANGED <<provider, log, sent, archiver, up, turns, history, restarts>>

-----------------------------------------------------------------------------
(* /stop, /archive and restarts                                            *)

\* (mutant StopAlways) A stop is accepted after the terminal claim, too.
StopAlways(r) == TRUE
StopInTime(r) == rq[r].claim = None

\* request_stop on the active turn: "stopping".  The refusals change nothing.
Stop ==
    /\ Loadable /\ natives # {} /\ Interruptible
    /\ active # None /\ StopInTime(active)
    /\ ~rq[active].stop
    /\ rq' = [rq EXCEPT ![active].stop = TRUE, ![active].killed = @ \/ rq[active].bound]
    /\ UNCHANGED <<provider, log, sent, active, archiver, up, turns, history, restarts>>

\* agent_session_archive asks the registry, then archive_session loads the
\* log, then appends.
ArchiveAsk ==
    /\ up /\ archiver = "idle" /\ active = None
    /\ archiver' = "clear"
    /\ UNCHANGED <<provider, log, sent, active, rq, up, turns, history, restarts>>

ArchiveLoad ==
    /\ archiver = "clear"
    /\ archiver' = IF Loadable /\ status \notin {"running", "archived"} THEN "loaded" ELSE "idle"
    /\ UNCHANGED <<provider, log, sent, active, rq, up, turns, history, restarts>>

ArchiveAppend ==
    /\ archiver = "loaded"
    /\ status' = "archived"
    /\ archiver' = "idle"
    /\ UNCHANGED <<provider, natives, sent, active, rq, up, turns, history, restarts>>

\* The server dies with its threads, its registry and its providers' pipes.
Crash ==
    /\ up /\ restarts < MaxRestarts
    /\ up' = FALSE /\ restarts' = restarts + 1
    /\ active' = None /\ archiver' = "idle"
    /\ rq' = [r \in Requests |-> Free]
    /\ UNCHANGED <<provider, log, sent, turns, history>>

\* (mutant NoRecovery) Startup leaves the log alone.
NoRecovery == status
\* recover_orphaned_sessions; a log it cannot load is skipped.
Recovered == IF status = "running" /\ Loadable THEN "orphaned" ELSE status

Restart ==
    /\ ~up /\ up' = TRUE
    /\ status' = Recovered
    /\ UNCHANGED <<provider, natives, sent, active, rq, archiver, turns, history, restarts>>

-----------------------------------------------------------------------------
\* create_session has appended the created event.
Init ==
    /\ provider \in {"codex", "opencode"}
    /\ status = "idle" /\ natives = {} /\ sent = {}
    /\ active = None /\ rq = [r \in Requests |-> Free]
    /\ archiver = "idle" /\ up = TRUE
    /\ turns = 0 /\ restarts = 0
    /\ injected = {} /\ ended = [t \in 1..MaxTurns |-> <<>>] /\ stale = FALSE

\* What the server does by itself once a turn is reserved.
TurnStep(r) ==
    \/ Ask(r) \/ Announce(r) \/ Spawn(r)
    \/ Err(r) \/ Mark(r) \/ Close(r) \/ Release(r)

Next ==
    \/ \E r \in Requests :
          \/ \E bundles \in SUBSET Bundles : Load(r, bundles)
          \/ Reserve(r) \/ Conflict(r) \/ Refuse(r) \/ Leak(r)
          \/ TurnStep(r)
          \/ \E n \in Natives : Accepted(r, n)
          \/ \E s \in {"running", "failed", "done"} : Says(r, s)
          \/ Eof(r) \/ Raise(r) \/ Gone(r)
    \/ Stop \/ ArchiveAsk \/ ArchiveLoad \/ ArchiveAppend
    \/ Crash \/ Restart

\* A response that runs asks its generator for line after line, as long as its
\* client reads or leaves, but it may never start (Leak).  Nothing makes a
\* provider finish, nor its pipe close once it is cancelled.
Fairness == \A r \in Requests : WF_vars(TurnStep(r))

Spec == Init /\ [][Next]_vars /\ Fairness

-----------------------------------------------------------------------------
(* Properties                                                              *)

\* Records are well formed, and a turn ends with one of the platform's
\* terminal statuses, never with a provider's own word.
TypeOK ==
    /\ provider \in {"codex", "opencode"} /\ status \in Statuses
    /\ natives \subseteq Natives /\ sent \subseteq Natives \X Bundles
    /\ active \in Requests \cup {None} /\ rq \in [Requests -> Request]
    /\ archiver \in {"idle", "clear", "loaded"} /\ up \in BOOLEAN
    /\ turns \in 0..MaxTurns /\ restarts \in 0..MaxRestarts
    /\ injected \subseteq Natives \X Bundles \X (1..MaxTurns)
    /\ ended \in [1..MaxTurns -> Seq(Terminals)] /\ stale \in BOOLEAN

\* A session has at most one turn reserved, the one its registry names, from
\* reserve to release and through every way a turn can end.
OneTurn == \A r \in Requests : InTurn(r) \/ Refused(r) <=> active = r

\* A stop that was answered "stopping" is what the log says of the turn, even
\* when it raced the provider's completion, an error or a disconnect.
StopHonored ==
    \A r \in Requests :
        rq[r].pc = "ended" /\ rq[r].stop => ended[rq[r].turn] = <<"interrupted">>

\* No turn appends two terminal statuses, whoever ends it.
TerminalOnce == \A t \in 1..MaxTurns : Len(ended[t]) <= 1

\* The log says once how a turn ended, and says of a stopped one that it was
\* stopped (claim_terminal), whoever gets to end it.
EndToldOnce == TerminalOnce /\ StopHonored

\* After a restart no session that can be loaded claims a turn nobody runs.
RunningHasTurn == up /\ Loadable /\ status = "running" => active # None

\* The ledger only names what a provider was given, and a bundle a finished
\* turn delivered is never given to the same native session again.
ContextOnce ==
    /\ \A p \in sent : \E x \in injected : x[1] = p[1] /\ x[2] = p[2]
    /\ \A x, y \in injected :
          x[1] = y[1] /\ x[2] = y[2] /\ x[3] < y[3] => ended[x[3]] # <<"done">>

\* The log stays loadable: as long as every turn starts from the native id the
\* log has, no second one is ever written.
NativeStable == ~stale => Loadable

\* The provider's process is terminated, and has yet to close its pipe.
Cancelled(r) == rq[r].pc = "streaming" /\ rq[r].killed

\* A stop that was answered "stopping" takes effect: it ends the turn or gets to
\* the provider's process, even if it came before there was one to cancel.
\* The turn that leaked is the exception: no stop reaches it.
StopTakesEffect ==
    \A r \in Requests :
        rq[r].stop ~> ~rq[r].stop \/ Cancelled(r) \/ rq[r].pc = "leaked"

\* An archived session is read-only.
ArchivedReadOnly == [][status = "archived" => status' = "archived"]_vars
=============================================================================

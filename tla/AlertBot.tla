------------------------------ MODULE AlertBot ------------------------------
(***************************************************************************)
(* The governance alert bot (summer-earn-gov-alert-bot): it polls every    *)
(* network for the logs of the governor and of the timelock and sends each *)
(* one to a Telegram chat.  A cycle loads the block it has reached on each *)
(* network from a file, goes through the networks one after the other and  *)
(* saves the file at its end.  The scheduler starts a cycle every half     *)
(* hour without waiting for the previous one, so cycles overlap; each has  *)
(* a copy of the state of its own.  The command /check runs a cycle whose  *)
(* messages go to who asked, and which moves and saves nothing.            *)
(*                                                                         *)
(* A step of a cycle is what it does between two awaits.  The network, the *)
(* chat and the process may fail: each kind of fault once.  Which block a  *)
(* node has reached is external: nodes behind a fallback differ.           *)
(*                                                                         *)
(* An operator whose comment starts with `Slip:' is no part of the model:  *)
(* it is a way its successor could go wrong in the code.                   *)
(***************************************************************************)
EXTENDS Integers, Sequences, FiniteSets

CONSTANTS
    NetworkOrder,   \* the networks, in the order they are polled
    Jobs,           \* slots for cycles and checks that run at a time
    Window,         \* blocks a cycle goes back on a network without state (100)
    MaxBlocks,      \* bound: blocks of a network, the first of them empty
    Scopes          \* bounds of a behaviour, one of which is chosen at its start:
                    \*   jobs    the slots that are used
                    \*   kinds   logs of the blocks to come, "proposal" or "call"
                    \*   blocks  how many of them each network gets
                    \*   faults  kinds of faults that may happen
                    \*   most    how many of them

Networks == {NetworkOrder[k] : k \in DOMAIN NetworkOrder}
Faults   == {"rpc", "stale", "telegram", "tx", "crash", "reset", "check"}

ASSUME NetworkAssumption == NetworkOrder \in Seq(Networks) /\ Len(NetworkOrder) > 0
ASSUME BotBounds         ==
    /\ Window \in Nat /\ MaxBlocks \in Nat /\ Jobs \subseteq Nat
    /\ Scopes \subseteq [jobs : SUBSET Jobs, kinds : SUBSET {"proposal", "call"},
                         blocks : [Networks -> 1..MaxBlocks], faults : SUBSET Faults, most : Nat]

VARIABLES
    scope,       \* the bounds of this behaviour
    chain,       \* the log of each block of each network
    up,          \* the process runs
    file,        \* state.json; 0 where a network has no entry
    job,         \* what each cycle or check is doing
    told,        \* messages of each log in the alert chat, counted up to 2
    lost,        \* history: logs no cycle is going to look at again, and why not told
    seen,        \* history: kinds of faults so far; a /check counts as one
    overlapped   \* history: a cycle was started while another one ran

vars == <<scope, chain, up, file, job, told, lost, seen, overlapped>>

Blocks == 1..MaxBlocks
Height(n) == Len(chain[n])

Fault(f) == /\ f \in scope.faults \ seen /\ Cardinality(seen) < scope.most
            /\ seen' = seen \cup {f}

---------------------------------------------------------------------------
(* A job: a cycle of the scheduler, or a /check *)

\* A job about to poll its net-th network, or to save.
JobAt(kind, cursor, net, step) ==
    [kind |-> kind, cursor |-> cursor, net |-> net, step |-> step,
     from |-> 0, latest |-> 0, logs |-> {}, missed |-> {}]

Idle == JobAt("idle", [n \in Networks |-> 0], 1, "block")

\* loadState, and the poller made with it.
Started(k) == JobAt(k, file, 1, "block")

Network(j) == NetworkOrder[job[j].net]

\* The slots are alike: the first free one is used.
Free(j) == /\ up /\ j \in scope.jobs /\ job[j].kind = "idle"
           /\ \A i \in scope.jobs : i < j => job[i].kind # "idle"

At(j, step) == up /\ job[j].kind # "idle" /\ job[j].step = step

\* Going on to the next network, with the cursors c.
NextNetwork(j, c) ==
    JobAt(job[j].kind, c, job[j].net + 1,
          IF job[j].net = Len(NetworkOrder) THEN "save" ELSE "block")

\* Slip: a network without new blocks ends the whole poll.
WithoutNewBlocksStop(j) == [job[j] EXCEPT !.net = Len(NetworkOrder), !.step = "save"]

WithoutNewBlocks(j) == NextNetwork(j, job[j].cursor)

\* Slip: the block the cursor names is polled once more.
FromBlockAgain(j, latest) ==
    LET cursor == job[j].cursor[Network(j)] IN IF cursor # 0 THEN cursor ELSE latest - Window

\* The block after the cursor; without a cursor, some blocks back.
FromBlock(j, latest) ==
    LET cursor == job[j].cursor[Network(j)] IN IF cursor # 0 THEN cursor + 1 ELSE latest - Window

\* The logs of a block range a node has that has reached block h.
LogsUpTo(j, k, h) ==
    {b \in Blocks : /\ job[j].from <= b /\ b <= job[j].latest /\ b <= h
                                /\ chain[Network(j)][b] = k}

---------------------------------------------------------------------------
(* A cycle, step by step *)

StartCycle(j) ==
    /\ Free(j)
    /\ job' = [job EXCEPT ![j] = Started("cycle")]
    /\ overlapped' = (overlapped \/ \E i \in Jobs : job[i].kind = "cycle")
    /\ UNCHANGED <<scope, chain, up, file, told, lost, seen>>

StartCheck(j) ==
    /\ Free(j)
    /\ Fault("check")
    /\ job' = [job EXCEPT ![j] = Started("check")]
    /\ UNCHANGED <<scope, chain, up, file, told, lost, overlapped>>

\* A node that lags behind answers for the chain as it was.
NodeHeight(n, h) == \/ h = Height(n) /\ UNCHANGED seen
                    \/ h \in 0..(Height(n) - 1) /\ Fault("stale")

GetBlockNumber(j, h) ==
    /\ At(j, "block")
    /\ NodeHeight(Network(j), h)
    /\ job' = [job EXCEPT ![j] =
                 IF FromBlock(j, h) > h THEN WithoutNewBlocks(j)
                 ELSE [job[j] EXCEPT !.step = "governor", !.latest = h, !.from = FromBlock(j, h)]]
    /\ UNCHANGED <<scope, chain, up, file, told, lost, overlapped>>

\* getLogs of the governor, or of the timelock once the governor's are told.
GetLogs(j, h, step, kind, next) ==
    /\ At(j, step) /\ job[j].logs = {}
    /\ NodeHeight(Network(j), h)
    /\ LET all == LogsUpTo(j, kind, Height(Network(j)))
           got == LogsUpTo(j, kind, h)
       IN job' = [job EXCEPT ![j].step = next, ![j].logs = got, ![j].missed = @ \cup (all \ got)]
    /\ UNCHANGED <<scope, chain, up, file, told, lost, overlapped>>

GetGovernorLogs(j, h) == GetLogs(j, h, "governor", "proposal", "timelock")
GetTimelockLogs(j, h) == GetLogs(j, h, "timelock", "call", "finish")

\* processGovernorLogs and processTimelockLogs for the first log that is left:
\* what the chat refuses, or a scheduled call whose transaction is not found,
\* is passed over.
TellLog(j) ==
    LET n == Network(j) IN
    /\ up
    /\ \E b \in job[j].logs :
        /\ \A other \in job[j].logs : b <= other
        /\ \/ /\ told' = IF job[j].kind = "check" THEN told
                         ELSE [told EXCEPT ![n][b] = IF @ < 2 THEN @ + 1 ELSE @]
              /\ job' = [job EXCEPT ![j].logs = @ \ {b}]
              /\ UNCHANGED seen
           \/ /\ Fault("telegram") \/ (chain[n][b] = "call" /\ Fault("tx"))
              /\ job' = [job EXCEPT ![j].logs = @ \ {b}, ![j].missed = @ \cup {b}]
              /\ UNCHANGED told
    /\ UNCHANGED <<scope, chain, up, file, lost, overlapped>>

\* A cycle takes the network's cursor to the block it has polled up to; what it
\* missed, and what lies before its first block, is then behind the cursor.
FinishNetwork(j) ==
    LET n == Network(j) IN
    /\ At(j, "finish") /\ job[j].logs = {}
    /\ IF job[j].kind = "check"
       THEN job' = [job EXCEPT ![j] = NextNetwork(j, job[j].cursor)] /\ UNCHANGED lost
       ELSE /\ job' = [job EXCEPT ![j] =
                         NextNetwork(j, [job[j].cursor EXCEPT ![n] = job[j].latest])]
            /\ lost' = [lost EXCEPT ![n] = @ \cup job[j].missed \cup
                          (IF job[j].cursor[n] = 0 THEN 1..(job[j].from - 1) ELSE {})]
    /\ UNCHANGED <<scope, chain, up, file, told, seen, overlapped>>

\* Slip: the cursor moves all the same.
AfterFailureMoved(j) == NextNetwork(j, [job[j].cursor EXCEPT ![Network(j)] = job[j].latest])

\* The error of one network is caught: its cursor stays, the others go on.
AfterFailure(j) == NextNetwork(j, job[j].cursor)

\* getBlockNumber or getLogs throws.
FailNetwork(j) ==
    /\ up /\ job[j].kind # "idle" /\ job[j].step \in {"block", "governor", "timelock"}
    /\ job[j].logs = {}
    /\ Fault("rpc")
    /\ job' = [job EXCEPT ![j] = AfterFailure(j)]
    /\ UNCHANGED <<scope, chain, up, file, told, lost, overlapped>>

\* Slip: only the networks with news are written.
SavedNewsOnly(j) == [n \in Networks |-> IF job[j].cursor[n] # file[n] THEN job[j].cursor[n] ELSE 0]

\* The file is written over with all the cursors the cycle has.
Saved(j) == job[j].cursor

\* The end of poll; a cycle then saves its cursors over what is in the file.
FinishPoll(j) ==
    /\ At(j, "save")
    /\ file' = IF job[j].kind = "check" THEN file ELSE Saved(j)
    /\ job' = [job EXCEPT ![j] = Idle]
    /\ UNCHANGED <<scope, chain, up, told, lost, seen, overlapped>>

---------------------------------------------------------------------------
(* The process and the chains *)

\* The process ends.  The file stays; or it is gone, as saveState was cut off
\* while it wrote, or the next container starts without it.
Stop ==
    /\ up /\ up' = FALSE
    /\ \/ Fault("crash") /\ UNCHANGED file
       \/ Fault("reset") /\ file' = [n \in Networks |-> 0]
    /\ job' = [j \in Jobs |-> Idle]
    /\ UNCHANGED <<scope, chain, told, lost, overlapped>>

Restart ==
    /\ ~up /\ up' = TRUE
    /\ UNCHANGED <<scope, chain, file, job, told, lost, seen, overlapped>>

Mine(n, k) ==
    /\ Height(n) < scope.blocks[n] /\ k \in scope.kinds
    /\ chain' = [chain EXCEPT ![n] = Append(@, k)]
    /\ UNCHANGED <<scope, up, file, job, told, lost, seen, overlapped>>

---------------------------------------------------------------------------
(* Specification *)

Init ==
    /\ scope \in Scopes
    /\ chain = [n \in Networks |-> <<"empty">>]
    /\ up = TRUE
    /\ file = [n \in Networks |-> 0]
    /\ job = [j \in Jobs |-> Idle]
    /\ told = [n \in Networks |-> [b \in Blocks |-> 0]]
    /\ lost = [n \in Networks |-> {}]
    /\ seen = {} /\ overlapped = FALSE

GetFromNode(j) ==
    /\ job[j].step # "save"
    /\ \E h \in 0..Height(Network(j)) :
        GetBlockNumber(j, h) \/ GetGovernorLogs(j, h) \/ GetTimelockLogs(j, h)

\* What a job does when nothing keeps it from going on.
Proceed(j) == GetFromNode(j) \/ TellLog(j) \/ FinishNetwork(j) \/ FinishPoll(j)

Next ==
    \/ \E j \in Jobs : StartCycle(j) \/ StartCheck(j) \/ Proceed(j) \/ FailNetwork(j)
    \/ Stop \/ Restart
    \/ \E n \in Networks, k \in {"proposal", "call"} : Mine(n, k)

\* The scheduler starts one cycle after another, what is awaited is answered,
\* and a process that ended is started again.
Fairness == /\ WF_vars(\E j \in Jobs : StartCycle(j))
            /\ \A j \in Jobs : WF_vars(Proceed(j))
            /\ WF_vars(Restart)

Spec == Init /\ [][Next]_vars
FairSpec == Spec /\ Fairness

---------------------------------------------------------------------------
(* Properties *)

HasLog(n, b) == b <= Height(n) /\ chain[n][b] # "empty"

\* However cycles overlap, fail and are cut off: no cursor, in the file or in a
\* cycle's own copy, passes a log that is neither told nor one of those that
\* were given up (refused by the chat, not found, hidden by a node that lags,
\* or older than where a bot without state begins).
NothingPassedOver ==
    \A n \in Networks, b \in Blocks :
        (HasLog(n, b) /\ (b <= file[n] \/ \E j \in Jobs : b <= job[j].cursor[n])) =>
            told[n][b] > 0 \/ b \in lost[n]

\* A log is told twice only when cycles overlap, a network fails halfway, or the
\* process ends before it has saved: not because a node lags, the chat refuses
\* a message, or somebody checks while a cycle runs.
ToldOnce ==
    (~overlapped /\ seen \cap {"rpc", "crash", "reset"} = {}) =>
        \A n \in Networks, b \in Blocks : told[n][b] < 2

\* The file never goes back, whatever fails, unless a cycle saves over what a
\* later one has saved, or the file is gone.
FileGoesOn ==
    [][(~overlapped /\ "reset" \notin seen') => \A n \in Networks : file'[n] >= file[n]]_vars

\* Every log is told in the end, or given up for one of those reasons: no
\* network is starved by another, and no fault stops the bot for good.  (Block 1 is empty.)
EveryLogSettled ==
    \A n \in Networks, b \in Blocks \ {1} :
        HasLog(n, b) ~> (told[n][b] > 0 \/ b \in lost[n])
=============================================================================

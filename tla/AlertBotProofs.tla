--------------------------- MODULE AlertBotProofs ---------------------------
(***************************************************************************)
(* Proofs about AlertBot for all networks, numbers of cycles that run at a *)
(* time, windows and bounds.                                               *)
(***************************************************************************)
EXTENDS AlertBot, TLAPS

---------------------------------------------------------------------------
(* The inductive invariant *)

LogKinds == {"empty", "proposal", "call"}
Steps    == {"block", "governor", "timelock", "finish", "save"}

JobRecords ==
    [kind : {"idle", "cycle", "check"}, cursor : [Networks -> Nat], net : Nat, step : Steps,
     from : Int, latest : Nat, logs : SUBSET Blocks, missed : SUBSET Blocks]

TypeOK ==
    /\ scope \in Scopes
    /\ chain \in [Networks -> Seq(LogKinds)]
    /\ up \in BOOLEAN /\ overlapped \in BOOLEAN
    /\ file \in [Networks -> Nat]
    /\ job \in [Jobs -> JobRecords]
    /\ told \in [Networks -> [Blocks -> Nat]]
    /\ lost \in [Networks -> SUBSET Int]
    /\ seen \subseteq Faults

Settled(n, b) == told[n][b] > 0 \/ b \in lost[n]

\* Block c of network n exists, and every log up to it is settled.
Reached(n, c) == /\ c <= Height(n)
                 /\ \A b \in Blocks : HasLog(n, b) /\ b <= c => Settled(n, b)

\* A log job j has fetched is told, waits its turn or will be given up.
Fetched(j, k) ==
    \A b \in Blocks :
        (job[j].from <= b /\ b <= job[j].latest /\ chain[Network(j)][b] = k) =>
            \/ told[Network(j)][b] > 0
            \/ b \in job[j].logs
            \/ b \in job[j].missed

\* The block range of job j starts right after its cursor, if it has one.
RangeOK(j) ==
    /\ job[j].latest <= Height(Network(j))
    /\ LET cursor == job[j].cursor[Network(j)]
       IN cursor <= job[j].latest /\ (cursor # 0 => job[j].from = cursor + 1)

\* What a cycle knows at each of its steps.
Progress(j) ==
    /\ job[j].step # "save" => job[j].net \in DOMAIN NetworkOrder
    /\ job[j].logs # {} => job[j].step \in {"timelock", "finish"}
    /\ job[j].step \in {"governor", "timelock", "finish"} => RangeOK(j)
    /\ (job[j].kind = "cycle" /\ job[j].step \in {"timelock", "finish"}) => Fetched(j, "proposal")
    /\ (job[j].kind = "cycle" /\ job[j].step = "finish") => Fetched(j, "call")

JobOK(j) == /\ \A n \in Networks : Reached(n, job[j].cursor[n])
            /\ Progress(j)

IInv == /\ TypeOK
        /\ \A n \in Networks : Reached(n, file[n])
        /\ \A j \in Jobs : JobOK(j)

---------------------------------------------------------------------------
(* What no step takes back *)

\* The chains grow; what is told stays told, what is lost stays lost.
Grows ==
    \A n \in Networks :
        /\ Height(n) <= Height(n)'
        /\ \A b \in 1..Height(n) : chain'[n][b] = chain[n][b]
        /\ \A b \in Blocks : told[n][b] > 0 => told'[n][b] > 0
        /\ lost[n] \subseteq lost'[n]

ReachedNext(n, c) == /\ c <= Height(n)'
                     /\ \A b \in Blocks : HasLog(n, b)' /\ b <= c => Settled(n, b)'

\* Each place of the order names a network.
LEMMA NetworkOfIndex ==
    ASSUME NEW k \in DOMAIN NetworkOrder
    PROVE  NetworkOrder[k] \in Networks
  BY DEF Networks

\* The places of the order.
LEMMA IndexRange == DOMAIN NetworkOrder = 1..Len(NetworkOrder) /\ Len(NetworkOrder) \in Nat \ {0}
  BY NetworkAssumption

\* What is reached stays reached.
LEMMA ReachedStays ==
    ASSUME TypeOK, TypeOK', Grows
    PROVE  \A n \in Networks, c \in Nat : Reached(n, c) => ReachedNext(n, c)
<1> SUFFICES ASSUME NEW n \in Networks, NEW c \in Nat, Reached(n, c)
             PROVE  ReachedNext(n, c)
  OBVIOUS
<1>1. Height(n) \in Nat /\ Height(n)' \in Nat /\ Height(n) <= Height(n)' /\ c <= Height(n)
  BY DEF TypeOK, Height, Grows, Reached
<1>2. ASSUME NEW b \in Blocks, HasLog(n, b)', b <= c
      PROVE  Settled(n, b)'
  <2>1. b \in 1..Height(n)
    BY <1>1, <1>2, BotBounds DEF Blocks
  <2>2. HasLog(n, b)
    BY <1>2, <2>1, <1>1 DEF HasLog, Grows, Blocks
  <2>3. Settled(n, b)
    BY <1>2, <2>2 DEF Reached
  <2> QED
    BY <2>3 DEF Settled, Grows
<1> QED
  BY <1>1, <1>2 DEF ReachedNext

\* A job that does not move keeps what it knows.
LEMMA OthersStay ==
    ASSUME IInv, TypeOK', Grows, NEW i \in Jobs, job'[i] = job[i]
    PROVE  JobOK(i)'
<1> USE DEF IInv, JobOK
<1>1. job[i] \in JobRecords
  BY DEF TypeOK
<1>2. \A n \in Networks : Reached(n, job[i].cursor[n])'
  <2> SUFFICES ASSUME NEW n \in Networks PROVE Reached(n, job[i].cursor[n])'
    OBVIOUS
  <2>1. job[i].cursor[n] \in Nat
    BY <1>1 DEF JobRecords
  <2>2. ReachedNext(n, job[i].cursor[n])
    BY <2>1, ReachedStays
  <2> QED
    BY <2>2 DEF ReachedNext, Reached
<1>3. ASSUME job[i].step \in {"governor", "timelock", "finish"}
      PROVE  /\ Network(i) \in Networks /\ Network(i)' = Network(i)
             /\ Height(Network(i)) \in Nat /\ Height(Network(i))' \in Nat
             /\ job[i].latest \in Nat /\ job[i].latest <= Height(Network(i))
             /\ Height(Network(i)) <= Height(Network(i))'
  <2>1. job[i].net \in DOMAIN NetworkOrder /\ RangeOK(i)
    BY <1>3 DEF Progress
  <2>2. Network(i) \in Networks /\ Network(i)' = Network(i)
    BY <2>1, NetworkOfIndex DEF Network
  <2>3. Height(NetworkOrder[job[i].net]) <= Height(NetworkOrder[job[i].net])'
    BY <2>2 DEF Grows, Network, Height
  <2> QED
    BY <1>1, <2>1, <2>2, <2>3 DEF RangeOK, TypeOK, Height, JobRecords, Network
<1>4. job[i].step \in {"governor", "timelock", "finish"} => RangeOK(i)'
  <2> SUFFICES ASSUME job[i].step \in {"governor", "timelock", "finish"} PROVE RangeOK(i)'
    OBVIOUS
  <2>1. RangeOK(i)
    BY DEF Progress
  <2> QED
    BY <1>3, <2>1 DEF RangeOK
<1>5. ASSUME NEW k \in LogKinds, job[i].step \in {"timelock", "finish"}, Fetched(i, k)
      PROVE  Fetched(i, k)'
  <2> SUFFICES ASSUME NEW b \in Blocks, job[i].from <= b, b <= job[i].latest,
                      chain'[Network(i)][b] = k
               PROVE  told'[Network(i)][b] > 0 \/ b \in job[i].logs \/ b \in job[i].missed
    BY <1>3, <1>5 DEF Fetched
  <2>1. b \in 1..Height(Network(i))
    BY <1>3, <1>5, BotBounds DEF Blocks
  <2>2. chain[Network(i)][b] = k
    BY <1>3, <1>5, <2>1 DEF Grows
  <2>3. told[Network(i)][b] > 0 \/ b \in job[i].logs \/ b \in job[i].missed
    BY <1>5, <2>2 DEF Fetched
  <2> QED
    BY <1>3, <1>5, <2>3 DEF Grows
<1>6. Progress(i)'
  BY <1>4, <1>5 DEF Progress, LogKinds
<1> QED
  BY <1>2, <1>6

\* If the others stay and the job that moves is in order, so is everything.
LEMMA OneMoves ==
    ASSUME IInv, TypeOK', Grows, NEW j \in Jobs,
           \A i \in Jobs \ {j} : job'[i] = job[i],
           \A n \in Networks : Reached(n, file[n])',
           JobOK(j)'
    PROVE  IInv'
<1>1. \A i \in Jobs : JobOK(i)'
  <2> SUFFICES ASSUME NEW i \in Jobs PROVE JobOK(i)'
    OBVIOUS
  <2>1. CASE i = j
    BY <2>1
  <2>2. CASE i # j
    BY <2>2, OthersStay
  <2> QED
    BY <2>1, <2>2
<1> QED
  BY <1>1 DEF IInv

\* The file stays in order when it is not written.
LEMMA FileStays ==
    ASSUME IInv, TypeOK', Grows, file' = file
    PROVE  \A n \in Networks : Reached(n, file[n])'
<1> SUFFICES ASSUME NEW n \in Networks PROVE Reached(n, file[n])'
  OBVIOUS
<1>1. file[n] \in Nat /\ Reached(n, file[n])
  BY DEF IInv, TypeOK
<1>2. ReachedNext(n, file[n])
  BY <1>1, ReachedStays DEF IInv
<1> QED
  BY <1>2 DEF ReachedNext, Reached

---------------------------------------------------------------------------
(* Records of jobs *)

\* An idle job is a record, with the cursors of a missing file.
LEMMA IdleRecord == Idle \in JobRecords /\ Idle.cursor = [n \in Networks |-> 0]
  BY DEF JobAt, Idle, JobRecords, Steps

\* Going on to the next network keeps a job a record.
LEMMA NextNetworkRecord ==
    ASSUME TypeOK, NEW j \in Jobs
    PROVE  \A c \in [Networks -> Nat] :
               /\ NextNetwork(j, c) \in JobRecords
               /\ NextNetwork(j, c).cursor = c
               /\ NextNetwork(j, c).kind = job[j].kind
               /\ NextNetwork(j, c).net = job[j].net + 1
               /\ NextNetwork(j, c).logs = {}
               /\ NextNetwork(j, c).step =
                      IF job[j].net = Len(NetworkOrder) THEN "save" ELSE "block"
<1>1. job[j] \in JobRecords
  BY DEF TypeOK
<1> QED
  BY <1>1 DEF NextNetwork, JobAt, JobRecords, Steps

\* A job that goes on to the next network is in order if its cursors are.
LEMMA GoesOn ==
    ASSUME IInv, TypeOK', NEW j \in Jobs, job[j].step # "save",
           job'[j] = NextNetwork(j, job'[j].cursor),
           \A n \in Networks : Reached(n, job[j].cursor[n])'
    PROVE  JobOK(j)'
<1>1. job[j] \in JobRecords /\ job'[j] \in JobRecords /\ job'[j].cursor \in [Networks -> Nat]
  BY DEF IInv, TypeOK, JobRecords
<1>2. /\ job'[j].net = job[j].net + 1
      /\ job'[j].logs = {}
      /\ job'[j].step = IF job[j].net = Len(NetworkOrder) THEN "save" ELSE "block"
  BY <1>1, NextNetworkRecord DEF IInv
<1>3. job[j].net \in 1..Len(NetworkOrder)
  BY IndexRange DEF IInv, JobOK, Progress
<1>4. job'[j].step # "save" => job'[j].net \in DOMAIN NetworkOrder
  BY <1>2, <1>3, IndexRange
<1>5. Progress(j)'
  BY <1>2, <1>4 DEF Progress
<1> QED
  BY <1>5 DEF JobOK

\* An idle job, and one that has just loaded the file, are in order.
LEMMA IdleOK ==
    ASSUME TypeOK', NEW j \in Jobs, job'[j] = Idle
    PROVE  JobOK(j)'
<1>1. \A n \in Networks : Reached(n, job[j].cursor[n])'
  BY BotBounds DEF JobAt, Idle, Reached, TypeOK, Height, Blocks
<1>2. Progress(j)'
  BY IndexRange DEF Progress, JobAt, Idle
<1> QED
  BY <1>1, <1>2 DEF JobOK

\* A job that has just loaded the file is in order.
LEMMA StartedOK ==
    ASSUME TypeOK', NEW j \in Jobs, NEW k \in {"cycle", "check"}, job'[j] = Started(k),
           file' = file, \A n \in Networks : Reached(n, file[n])'
    PROVE  JobOK(j)'
<1>1. job'[j].cursor = file' /\ job'[j].step = "block" /\ job'[j].net = 1 /\ job'[j].logs = {}
  BY DEF Started, JobAt
<1>2. Progress(j)'
  BY <1>1, IndexRange DEF Progress
<1> QED
  BY <1>1, <1>2 DEF JobOK

\* A step of the process that leaves the chains and the messages alone.
LEMMA NothingTold ==
    ASSUME TypeOK, UNCHANGED <<chain, told, lost>>
    PROVE  Grows
  BY DEF TypeOK, Grows, Height

---------------------------------------------------------------------------
(* The steps *)

\* In a step of job j the other jobs stay.
LEMMA JobsTyped ==
    ASSUME TypeOK, NEW j \in Jobs
    PROVE  \A r \in JobRecords :
               /\ [job EXCEPT ![j] = r] \in [Jobs -> JobRecords]
               /\ [job EXCEPT ![j] = r][j] = r
               /\ \A i \in Jobs \ {j} : [job EXCEPT ![j] = r][i] = job[i]
  BY DEF TypeOK

\* What has been seen stays a set of faults.
LEMMA FaultsTyped ==
    ASSUME TypeOK, seen' = seen \/ \E f \in Faults : Fault(f)
    PROVE  seen' \subseteq Faults
  BY DEF TypeOK, Fault

\* A timer or a command starts a job.
LEMMA Start ==
    ASSUME IInv, NEW j \in Jobs, StartCycle(j) \/ StartCheck(j)
    PROVE  IInv'
<1>1. TypeOK
  BY DEF IInv
<1>2. PICK k \in {"cycle", "check"} : job' = [job EXCEPT ![j] = Started(k)]
  BY DEF StartCycle, StartCheck
<1>3. Started(k) \in JobRecords
  BY <1>1 DEF Started, JobAt, JobRecords, TypeOK, Steps
<1>4. UNCHANGED <<scope, chain, up, file, told, lost>>
  BY DEF StartCycle, StartCheck
<1>5. seen' \subseteq Faults
  BY <1>1, FaultsTyped DEF StartCycle, StartCheck, Faults
<1>6. overlapped' \in BOOLEAN
  BY <1>1 DEF StartCycle, StartCheck, TypeOK
<1>7. TypeOK'
  BY <1>1, <1>2, <1>3, <1>4, <1>5, <1>6, JobsTyped DEF TypeOK
<1>8. Grows
  BY <1>1, <1>4, NothingTold
<1>9. \A n \in Networks : Reached(n, file[n])'
  BY <1>4, <1>7, <1>8, FileStays
<1>10. JobOK(j)'
  BY <1>1, <1>2, <1>3, <1>4, <1>7, <1>9, JobsTyped, StartedOK
<1> QED
  BY <1>1, <1>2, <1>3, <1>7, <1>8, <1>9, <1>10, JobsTyped, OneMoves

\* The network of a job that polls, and its height.
LEMMA Polled ==
    ASSUME IInv, NEW j \in Jobs, job[j].step # "save"
    PROVE  /\ Network(j) \in Networks
           /\ Height(Network(j)) \in Nat
           /\ job[j].cursor[Network(j)] \in Nat
           /\ job[j] \in JobRecords
<1>1. job[j].net \in DOMAIN NetworkOrder /\ job[j] \in JobRecords
  BY DEF IInv, TypeOK, JobOK, Progress
<1>2. Network(j) \in Networks
  BY <1>1, NetworkOfIndex DEF Network
<1> QED
  BY <1>1, <1>2 DEF IInv, TypeOK, Height, JobRecords

\* The cursors of a job that keeps them, when the chains and messages stay.
LEMMA CursorsStay ==
    ASSUME IInv, TypeOK', Grows, NEW j \in Jobs, job'[j].cursor = job[j].cursor
    PROVE  \A n \in Networks : Reached(n, job[j].cursor[n])'
<1> SUFFICES ASSUME NEW n \in Networks PROVE Reached(n, job[j].cursor[n])'
  OBVIOUS
<1>1. job[j].cursor[n] \in Nat /\ Reached(n, job[j].cursor[n])
  BY DEF IInv, TypeOK, JobRecords, JobOK
<1>2. ReachedNext(n, job[j].cursor[n])
  BY <1>1, ReachedStays DEF IInv
<1> QED
  BY <1>2 DEF ReachedNext, Reached

\* A job goes on to the next network with the cursors it has.
LEMMA Skip ==
    ASSUME IInv, NEW j \in Jobs, job[j].step # "save",
           job' = [job EXCEPT ![j] = NextNetwork(j, job[j].cursor)],
           seen' = seen \/ \E f \in Faults : Fault(f),
           UNCHANGED <<scope, chain, up, file, told, lost, overlapped>>
    PROVE  IInv'
<1>1. TypeOK /\ job[j] \in JobRecords /\ job[j].cursor \in [Networks -> Nat]
  BY DEF IInv, TypeOK, JobRecords
<1>2. /\ NextNetwork(j, job[j].cursor) \in JobRecords
      /\ NextNetwork(j, job[j].cursor).cursor = job[j].cursor
  BY <1>1, NextNetworkRecord
<1>3. job' \in [Jobs -> JobRecords] /\ job'[j] = NextNetwork(j, job[j].cursor)
  BY <1>1, <1>2, JobsTyped
<1>4. TypeOK'
  BY <1>1, <1>3, FaultsTyped DEF TypeOK
<1>5. Grows
  BY <1>1, NothingTold
<1>6. \A n \in Networks : Reached(n, file[n])'
  BY <1>4, <1>5, FileStays
<1>7. \A n \in Networks : Reached(n, job[j].cursor[n])'
  BY <1>2, <1>3, <1>4, <1>5, CursorsStay
<1>8. JobOK(j)'
  BY <1>2, <1>3, <1>4, <1>7, GoesOn
<1> QED
  BY <1>1, <1>2, <1>4, <1>5, <1>6, <1>8, JobsTyped, OneMoves

\* A job learns the height of its network.
LEMMA BlockNumber ==
    ASSUME IInv, NEW j \in Jobs, NEW h \in 0..Height(Network(j)), GetBlockNumber(j, h)
    PROVE  IInv'
<1>1. /\ job[j].step = "block" /\ job[j].step # "save" /\ job[j].logs = {}
      /\ TypeOK
  BY DEF GetBlockNumber, At, IInv, JobOK, Progress
<1>2. /\ Network(j) \in Networks /\ Height(Network(j)) \in Nat
      /\ job[j].cursor[Network(j)] \in Nat /\ job[j] \in JobRecords
  BY <1>1, Polled
<1>3. /\ UNCHANGED <<scope, chain, up, file, told, lost, overlapped>>
      /\ seen' = seen \/ \E f \in Faults : Fault(f)
  BY DEF GetBlockNumber, NodeHeight, Faults
<1>4. CASE FromBlock(j, h) > h
  <2>1. job' = [job EXCEPT ![j] = NextNetwork(j, job[j].cursor)]
    BY <1>4 DEF GetBlockNumber, WithoutNewBlocks
  <2> QED
    BY <1>1, <1>3, <2>1, Skip
<1>5. CASE ~(FromBlock(j, h) > h)
  <2> DEFINE r == [job[j] EXCEPT !.step = "governor", !.latest = h, !.from = FromBlock(j, h)]
  <2>1. h \in Nat /\ FromBlock(j, h) \in Int
    BY <1>2, BotBounds DEF FromBlock
  <2>2. /\ r \in JobRecords /\ r.step = "governor" /\ r.latest = h /\ r.from = FromBlock(j, h)
        /\ r.cursor = job[j].cursor /\ r.net = job[j].net /\ r.logs = {}
    BY <1>1, <1>2, <2>1 DEF JobRecords, Steps
  <2>3. job' = [job EXCEPT ![j] = r]
    BY <1>5 DEF GetBlockNumber
  <2> HIDE DEF r
  <2>4. /\ job' \in [Jobs -> JobRecords] /\ job'[j] = r
        /\ \A i \in Jobs \ {j} : job'[i] = job[i]
    BY <1>1, <2>2, <2>3, JobsTyped
  <2>5. TypeOK'
    BY <1>1, <1>3, <2>4, FaultsTyped DEF TypeOK
  <2>6. Grows
    BY <1>1, <1>3, NothingTold
  <2>7. \A n \in Networks : Reached(n, file[n])'
    BY <1>3, <2>5, <2>6, FileStays
  <2>8. \A n \in Networks : Reached(n, job[j].cursor[n])'
    BY <2>2, <2>4, <2>5, <2>6, CursorsStay
  <2>9. RangeOK(j)'
    <3>1. Network(j)' = Network(j) /\ Height(Network(j))' = Height(Network(j))
      BY <1>3, <2>2, <2>4 DEF Network, Height
    <3> QED
      BY <1>2, <1>5, <2>1, <2>2, <2>4, <3>1 DEF RangeOK, FromBlock
  <2>10. Progress(j)'
    BY <1>1, <2>2, <2>4, <2>9 DEF Progress, IInv, JobOK
  <2> QED
    BY <2>4, <2>5, <2>6, <2>7, <2>8, <2>10, OneMoves DEF JobOK
<1> QED
  BY <1>4, <1>5

\* The logs asked for now are got or missed; those of before stay as they are.
LEMMA Logs ==
    ASSUME IInv, NEW j \in Jobs, NEW h \in 0..Height(Network(j)),
           GetGovernorLogs(j, h) \/ GetTimelockLogs(j, h)
    PROVE  IInv'
<1>1. PICK step \in {"governor", "timelock"}, kind \in {"proposal", "call"},
           next \in {"timelock", "finish"} :
        /\ GetLogs(j, h, step, kind, next)
        /\ step = "governor" => kind = "proposal" /\ next = "timelock"
        /\ step = "timelock" => kind = "call" /\ next = "finish"
  BY DEF GetGovernorLogs, GetTimelockLogs
<1> DEFINE all == LogsUpTo(j, kind, Height(Network(j)))
           got == LogsUpTo(j, kind, h)
           r == [job[j] EXCEPT !.step = next, !.logs = got,
                               !.missed = job[j].missed \cup (all \ got)]
<1>2. /\ job[j].step = step /\ job[j].step # "save" /\ job[j].logs = {}
      /\ TypeOK
  BY <1>1 DEF GetLogs, At, IInv
<1>3. /\ Network(j) \in Networks /\ Height(Network(j)) \in Nat
      /\ job[j].cursor[Network(j)] \in Nat /\ job[j] \in JobRecords
  BY <1>2, Polled
<1>4. /\ UNCHANGED <<scope, chain, up, file, told, lost, overlapped>>
      /\ seen' = seen \/ \E f \in Faults : Fault(f)
  BY <1>1 DEF GetLogs, NodeHeight, Faults
<1>5. all \subseteq Blocks /\ got \subseteq Blocks
  BY DEF LogsUpTo
<1>6. job' = [job EXCEPT ![j] = r]
  BY <1>1, <1>2, <1>3 DEF GetLogs, TypeOK, IInv, JobRecords
<1>7. /\ r \in JobRecords /\ r.step = next /\ r.latest = job[j].latest /\ r.from = job[j].from
      /\ r.cursor = job[j].cursor /\ r.net = job[j].net /\ r.kind = job[j].kind
      /\ r.logs = got /\ r.missed = job[j].missed \cup (all \ got)
  <2> HIDE DEF all, got
  <2> QED
    BY <1>3, <1>5 DEF JobRecords, Steps
<1> HIDE DEF r
<1>8. /\ job' \in [Jobs -> JobRecords] /\ job'[j] = r
      /\ \A i \in Jobs \ {j} : job'[i] = job[i]
  BY <1>2, <1>6, <1>7, JobsTyped
<1>9. TypeOK'
  BY <1>2, <1>4, <1>8, FaultsTyped DEF TypeOK
<1>10. Grows
  BY <1>2, <1>4, NothingTold
<1>11. \A n \in Networks : Reached(n, file[n])'
  BY <1>4, <1>9, <1>10, FileStays
<1>12. \A n \in Networks : Reached(n, job[j].cursor[n])'
  BY <1>7, <1>8, <1>9, <1>10, CursorsStay
<1>13. Network(j)' = Network(j) /\ Height(Network(j))' = Height(Network(j))
  BY <1>4, <1>7, <1>8 DEF Network, Height
<1>14. RangeOK(j) /\ RangeOK(j)'
  <2>1. RangeOK(j)
    BY <1>2 DEF IInv, JobOK, Progress
  <2> QED
    BY <2>1, <1>7, <1>8, <1>13 DEF RangeOK
<1>15. Fetched(j, kind)'
  <2> SUFFICES ASSUME NEW b \in Blocks, job[j].from <= b, b <= job[j].latest,
                      chain[Network(j)][b] = kind
               PROVE  b \in got \/ b \in all \ got
    BY <1>4, <1>7, <1>8, <1>13 DEF Fetched
  <2>1. b <= Height(Network(j))
    BY <1>3, <1>14, BotBounds DEF RangeOK, Blocks, JobRecords
  <2> QED
    BY <2>1 DEF LogsUpTo
<1>16. ASSUME step = "timelock", job[j].kind = "cycle"
       PROVE  Fetched(j, "proposal")'
  <2>1. Fetched(j, "proposal")
    BY <1>2, <1>16 DEF IInv, JobOK, Progress
  <2> QED
    BY <1>2, <1>4, <1>7, <1>8, <1>13, <2>1 DEF Fetched
<1>17. Progress(j)'
  <2>1. job[j].net \in DOMAIN NetworkOrder
    BY <1>2 DEF IInv, JobOK, Progress
  <2> HIDE DEF all, got
  <2> QED
    BY <1>1, <1>7, <1>8, <1>14, <1>15, <1>16, <2>1 DEF Progress
<1> QED
  BY <1>7, <1>8, <1>9, <1>10, <1>11, <1>12, <1>17, OneMoves DEF JobOK

\* The log of a turn is told or missed, and is no longer waiting.
LEMMA Tell ==
    ASSUME IInv, NEW j \in Jobs, TellLog(j)
    PROVE  IInv'
<1>1. PICK b \in job[j].logs :
        \/ /\ told' = IF job[j].kind = "check" THEN told
                      ELSE [told EXCEPT ![Network(j)][b] = IF @ < 2 THEN @ + 1 ELSE @]
           /\ job' = [job EXCEPT ![j].logs = @ \ {b}]
           /\ UNCHANGED seen
        \/ /\ \E f \in Faults : Fault(f)
           /\ job' = [job EXCEPT ![j].logs = @ \ {b}, ![j].missed = @ \cup {b}]
           /\ UNCHANGED told
  BY DEF TellLog, Faults
<1>2. /\ TypeOK /\ JobOK(j)
      /\ job[j].step \in {"timelock", "finish"} /\ job[j].step # "save"
      /\ UNCHANGED <<scope, chain, up, file, lost, overlapped>>
  BY <1>1 DEF TellLog, IInv, JobOK, Progress
<1>3. /\ Network(j) \in Networks /\ Height(Network(j)) \in Nat
      /\ job[j] \in JobRecords
  BY <1>2, Polled
<1>4. b \in Blocks
  BY <1>3 DEF JobRecords
<1>5. PICK m \in SUBSET Blocks :
        /\ job[j].missed \subseteq m
        /\ job' = [job EXCEPT ![j] = [job[j] EXCEPT !.logs = job[j].logs \ {b}, !.missed = m]]
        /\ (b \in m /\ told' = told) \/ job[j].kind = "check"
             \/ told' = [told EXCEPT ![Network(j)][b] = IF @ < 2 THEN @ + 1 ELSE @]
  <2>1. job[j].missed \in SUBSET Blocks /\ job[j].missed \cup {b} \in SUBSET Blocks
    BY <1>3, <1>4 DEF JobRecords
  <2>2. [job[j] EXCEPT !.logs = job[j].logs \ {b}, !.missed = job[j].missed]
           = [job[j] EXCEPT !.logs = job[j].logs \ {b}]
    BY <1>3 DEF JobRecords
  <2> DEFINE left == job[j].logs \ {b}
  <2>3. CASE /\ told' = IF job[j].kind = "check" THEN told
                        ELSE [told EXCEPT ![Network(j)][b] = IF @ < 2 THEN @ + 1 ELSE @]
             /\ job' = [job EXCEPT ![j].logs = @ \ {b}]
    <3>1. job' = [job EXCEPT ![j] = [job[j] EXCEPT !.logs = left, !.missed = job[j].missed]]
      BY <2>2, <2>3
    <3> QED
      BY <2>1, <2>3, <3>1
  <2>4. CASE /\ job' = [job EXCEPT ![j].logs = @ \ {b}, ![j].missed = @ \cup {b}]
             /\ UNCHANGED told
    <3>1. job' = [job EXCEPT ![j] = [job[j] EXCEPT !.logs = left,
                                                 !.missed = job[j].missed \cup {b}]]
      BY <1>2, <1>3, <2>4 DEF TypeOK, JobRecords
    <3> QED
      BY <2>1, <2>4, <3>1
  <2> QED
    BY <1>1, <2>3, <2>4
<1> DEFINE r == [job[j] EXCEPT !.logs = job[j].logs \ {b}, !.missed = m]
<1>6. /\ r \in JobRecords /\ r.step = job[j].step /\ r.latest = job[j].latest
      /\ r.from = job[j].from /\ r.cursor = job[j].cursor /\ r.net = job[j].net
      /\ r.kind = job[j].kind /\ r.logs = job[j].logs \ {b} /\ r.missed = m
  BY <1>3 DEF JobRecords
<1> HIDE DEF r
<1>7. /\ job' \in [Jobs -> JobRecords] /\ job'[j] = r
      /\ \A i \in Jobs \ {j} : job'[i] = job[i]
  BY <1>2, <1>5, <1>6, JobsTyped DEF r
<1>8. /\ told' \in [Networks -> [Blocks -> Nat]]
      /\ \A n \in Networks, x \in Blocks : told[n][x] > 0 => told'[n][x] > 0
      /\ job[j].kind = "cycle" => told'[Network(j)][b] > 0 \/ b \in m
  <2>1. told \in [Networks -> [Blocks -> Nat]]
    BY <1>2 DEF TypeOK
  <2>2. told' = told \/ told' = [told EXCEPT ![Network(j)][b] = IF @ < 2 THEN @ + 1 ELSE @]
    BY <1>1
  <2> QED
    BY <1>3, <1>4, <1>5, <2>1, <2>2, SMTT(60)
<1>9. TypeOK'
  BY <1>1, <1>2, <1>7, <1>8, FaultsTyped DEF TypeOK
<1>10. Grows
  BY <1>2, <1>8 DEF Grows, Height, TypeOK
<1>11. \A n \in Networks : Reached(n, file[n])'
  BY <1>2, <1>9, <1>10, FileStays
<1>12. \A n \in Networks : Reached(n, job[j].cursor[n])'
  BY <1>6, <1>7, <1>9, <1>10, CursorsStay
<1>13. Network(j)' = Network(j) /\ Height(Network(j))' = Height(Network(j))
  BY <1>2, <1>6, <1>7 DEF Network, Height
<1>14. RangeOK(j)'
  BY <1>2, <1>6, <1>7, <1>13 DEF RangeOK, JobOK, Progress
<1>15. ASSUME NEW k \in LogKinds, job[j].kind = "cycle", Fetched(j, k)
       PROVE  Fetched(j, k)'
  BY <1>2, <1>3, <1>5, <1>6, <1>7, <1>8, <1>13, <1>15 DEF Fetched
<1>16. Progress(j)'
  BY <1>2, <1>6, <1>7, <1>14, <1>15 DEF Progress, JobOK, LogKinds
<1> QED
  BY <1>6, <1>7, <1>9, <1>10, <1>11, <1>12, <1>16, OneMoves DEF JobOK

\* What a cycle leaves behind its new cursor it has told, or given up now.
LEMMA Finish ==
    ASSUME IInv, NEW j \in Jobs, FinishNetwork(j)
    PROVE  IInv'
<1>1. /\ TypeOK /\ JobOK(j) /\ up
      /\ job[j].step = "finish" /\ job[j].step # "save" /\ job[j].kind # "idle"
      /\ job[j].logs = {}
      /\ UNCHANGED <<scope, chain, up, file, told, seen, overlapped>>
  BY DEF FinishNetwork, At, IInv
<1>2. /\ Network(j) \in Networks /\ Height(Network(j)) \in Nat
      /\ job[j].cursor[Network(j)] \in Nat /\ job[j] \in JobRecords
  BY <1>1, Polled
<1>3. CASE job[j].kind = "check"
  BY <1>1, <1>3, Skip DEF FinishNetwork
<1>4. CASE job[j].kind # "check"
  <2>0. PICK n0 \in Networks : n0 = Network(j)
    BY <1>2
  <2> DEFINE c == [job[j].cursor EXCEPT ![n0] = job[j].latest]
             older == IF job[j].cursor[n0] = 0 THEN 1..(job[j].from - 1) ELSE {}
  <2>1. /\ job[j].kind = "cycle" /\ job[j].latest \in Nat /\ job[j].from \in Int
        /\ job[j].cursor \in [Networks -> Nat] /\ job[j].missed \subseteq Blocks
    BY <1>1, <1>2, <1>4 DEF JobRecords
  <2>2. /\ c \in [Networks -> Nat] /\ c[n0] = job[j].latest
        /\ \A n \in Networks \ {n0} : c[n] = job[j].cursor[n]
    BY <1>2, <2>0, <2>1
  <2>3. /\ job' = [job EXCEPT ![j] = NextNetwork(j, c)]
        /\ lost' = [lost EXCEPT ![n0] = (lost[n0] \cup job[j].missed) \cup older]
    BY <2>0, <1>4 DEF FinishNetwork
  <2>4. older \subseteq Int /\ Blocks \subseteq Int
    BY BotBounds DEF Blocks
  <2> HIDE DEF c
  <2>5. /\ NextNetwork(j, c) \in JobRecords /\ NextNetwork(j, c).cursor = c
    BY <1>1, <2>2, NextNetworkRecord
  <2>6. /\ job' \in [Jobs -> JobRecords] /\ job'[j] = NextNetwork(j, c)
        /\ \A i \in Jobs \ {j} : job'[i] = job[i]
    BY <1>1, <2>3, <2>5, JobsTyped
  <2>7. /\ lost' \in [Networks -> SUBSET Int]
        /\ lost'[n0] = (lost[n0] \cup job[j].missed) \cup older
        /\ \A n \in Networks : lost[n] \subseteq lost'[n]
    <3> HIDE DEF older
    <3> QED
      BY <1>1, <2>1, <2>3, <2>4 DEF TypeOK
  <2>8. TypeOK'
    BY <1>1, <2>6, <2>7 DEF TypeOK
  <2>9. Grows
    BY <1>1, <2>7 DEF Grows, Height, TypeOK
  <2>10. \A n \in Networks : Reached(n, file[n])'
    BY <1>1, <2>8, <2>9, FileStays
  <2>11. \A n \in Networks, x \in Nat : Reached(n, x) => ReachedNext(n, x)
    BY <1>1, <2>8, <2>9, ReachedStays
  <2>12. ReachedNext(n0, job[j].latest)
    <3>1. RangeOK(j) /\ Fetched(j, "proposal") /\ Fetched(j, "call")
      BY <1>1, <2>1 DEF JobOK, Progress
    <3>2. Height(n0)' = Height(n0) /\ job[j].latest <= Height(n0)
      BY <1>1, <2>0, <3>1 DEF Height, RangeOK
    <3>3. ASSUME NEW b \in Blocks, HasLog(n0, b), b <= job[j].latest
          PROVE  told[n0][b] > 0 \/ b \in lost'[n0]
      <4>1. b \in Nat \ {0}
        BY BotBounds DEF Blocks
      <4>2. CASE job[j].from <= b
        <5>1. chain[n0][b] \in {"proposal", "call"}
          BY <1>1, <3>3, <4>1 DEF HasLog, Height, TypeOK, LogKinds
        <5>2. told[n0][b] > 0 \/ b \in job[j].logs \/ b \in job[j].missed
          BY <2>0, <3>1, <3>3, <4>2, <5>1 DEF Fetched
        <5> QED
          BY <1>1, <2>7, <5>2
      <4>3. CASE b < job[j].from /\ job[j].cursor[n0] = 0
        BY <2>1, <2>7, <4>1, <4>3
      <4>4. CASE b < job[j].from /\ job[j].cursor[n0] # 0
        <5>1. b <= job[j].cursor[n0]
          BY <1>2, <2>0, <3>1, <4>1, <4>4 DEF RangeOK
        <5>2. Settled(n0, b)
          BY <1>1, <3>3, <5>1 DEF JobOK, Reached
        <5> QED
          BY <2>7, <5>2 DEF Settled
      <4> QED
        BY <2>1, <4>1, <4>2, <4>3, <4>4
    <3>4. ASSUME NEW b \in Blocks, HasLog(n0, b)', b <= job[j].latest
          PROVE  Settled(n0, b)'
      <4>1. HasLog(n0, b)
        BY <1>1, <3>4 DEF HasLog, Height
      <4>2. told[n0][b] > 0 \/ b \in lost'[n0]
        BY <3>3, <3>4, <4>1
      <4> QED
        BY <1>1, <4>2 DEF Settled
    <3> QED
      BY <3>2, <3>4 DEF ReachedNext
  <2>13. \A n \in Networks : ReachedNext(n, c[n])
    <3> SUFFICES ASSUME NEW n \in Networks PROVE ReachedNext(n, c[n])
      OBVIOUS
    <3>1. CASE n = n0
      BY <2>2, <2>12, <3>1
    <3>2. CASE n # n0
      <4>1. job[j].cursor[n] \in Nat /\ Reached(n, job[j].cursor[n])
        BY <1>1, <2>1 DEF JobOK
      <4>2. ReachedNext(n, job[j].cursor[n])
        BY <2>11, <4>1
      <4> QED
        BY <2>2, <3>2, <4>2
    <3> QED
      BY <3>1, <3>2
  <2>14. \A n \in Networks : Reached(n, job[j].cursor[n])'
    BY <2>5, <2>6, <2>13 DEF ReachedNext, Reached
  <2>15. job'[j] = NextNetwork(j, job'[j].cursor)
    BY <2>5, <2>6
  <2>16. JobOK(j)'
    BY <1>1, <2>8, <2>14, <2>15, GoesOn
  <2> QED
    BY <2>6, <2>8, <2>9, <2>10, <2>16, OneMoves
<1> QED
  BY <1>3, <1>4

\* A request of a job fails.
LEMMA Fail ==
    ASSUME IInv, NEW j \in Jobs, FailNetwork(j)
    PROVE  IInv'
<1>1. /\ job[j].step # "save"
      /\ job' = [job EXCEPT ![j] = NextNetwork(j, job[j].cursor)]
      /\ \E f \in Faults : Fault(f)
      /\ UNCHANGED <<scope, chain, up, file, told, lost, overlapped>>
  BY DEF FailNetwork, AfterFailure, Faults
<1> QED
  BY <1>1, Skip

\* A cycle saves cursors that are reached, also those of an older one.
LEMMA Save ==
    ASSUME IInv, NEW j \in Jobs, FinishPoll(j)
    PROVE  IInv'
<1>1. /\ TypeOK /\ JobOK(j)
      /\ job' = [job EXCEPT ![j] = Idle]
      /\ file' = file \/ file' = job[j].cursor
      /\ UNCHANGED <<scope, chain, up, told, lost, seen, overlapped>>
  BY DEF FinishPoll, IInv, Saved
<1>2. /\ job' \in [Jobs -> JobRecords] /\ job'[j] = Idle
      /\ \A i \in Jobs \ {j} : job'[i] = job[i]
  BY <1>1, IdleRecord, JobsTyped
<1>3. file' \in [Networks -> Nat] /\ \A n \in Networks : Reached(n, file'[n])
  BY <1>1 DEF IInv, TypeOK, JobRecords, JobOK
<1>4. TypeOK'
  BY <1>1, <1>2, <1>3 DEF TypeOK
<1>5. Grows
  BY <1>1, NothingTold
<1>6. \A n \in Networks : Reached(n, file[n])'
  <2> SUFFICES ASSUME NEW n \in Networks PROVE Reached(n, file[n])'
    OBVIOUS
  <2>1. ReachedNext(n, file'[n])
    BY <1>1, <1>3, <1>4, <1>5, ReachedStays
  <2> QED
    BY <2>1 DEF ReachedNext, Reached
<1>7. JobOK(j)'
  BY <1>2, <1>4, IdleOK
<1> QED
  BY <1>2, <1>4, <1>5, <1>6, <1>7, OneMoves

\* The process stops: all jobs end, and the file stays or is lost.
LEMMA End ==
    ASSUME IInv, Stop
    PROVE  IInv'
<1>1. /\ TypeOK
      /\ job' = [j \in Jobs |-> Idle]
      /\ up' = FALSE
      /\ file' = file \/ file' = [n \in Networks |-> 0]
      /\ \E f \in Faults : Fault(f)
      /\ UNCHANGED <<scope, chain, told, lost, overlapped>>
  BY DEF Stop, IInv, Faults
<1>2. TypeOK'
  <2>1. seen' \subseteq Faults
    BY <1>1, FaultsTyped
  <2>2. file' \in [Networks -> Nat]
    BY <1>1 DEF TypeOK
  <2>3. job' \in [Jobs -> JobRecords]
    BY <1>1, IdleRecord
  <2> QED
    BY <1>1, <2>1, <2>2, <2>3 DEF TypeOK
<1>3. Grows
  BY <1>1, NothingTold
<1>4. \A j \in Jobs : JobOK(j)'
  BY <1>1, <1>2, IdleOK
<1>5. \A n \in Networks : Reached(n, file[n])'
  <2>1. CASE file' = file
    BY <1>2, <1>3, <2>1, FileStays
  <2>2. CASE file' = [n \in Networks |-> 0]
    BY <1>2, <2>2, BotBounds DEF Reached, TypeOK, Height, Blocks
  <2> QED
    BY <1>1, <2>1, <2>2
<1> QED
  BY <1>2, <1>4, <1>5 DEF IInv

\* The chains and the process move by themselves, and so does nothing at all.
LEMMA JobsStay ==
    ASSUME IInv, TypeOK', Grows, UNCHANGED <<job, file>>
    PROVE  IInv'
<1>1. \A j \in Jobs : JobOK(j)'
  BY OthersStay
<1>2. \A n \in Networks : Reached(n, file[n])'
  BY FileStays
<1> QED
  BY <1>1, <1>2 DEF IInv

\* A chain grows by a block.
LEMMA Grow ==
    ASSUME IInv, NEW n \in Networks, NEW k \in {"proposal", "call"}, Mine(n, k)
    PROVE  IInv'
<1>1. /\ TypeOK /\ chain[n] \in Seq(LogKinds) /\ k \in LogKinds
      /\ chain' = [chain EXCEPT ![n] = Append(chain[n], k)]
      /\ UNCHANGED <<scope, up, file, job, told, lost, seen, overlapped>>
  BY DEF Mine, IInv, TypeOK, LogKinds
<1>2. /\ Append(chain[n], k) \in Seq(LogKinds)
      /\ Len(Append(chain[n], k)) = Len(chain[n]) + 1
      /\ \A b \in 1..Len(chain[n]) : Append(chain[n], k)[b] = chain[n][b]
  BY <1>1
<1>3. TypeOK'
  BY <1>1, <1>2 DEF TypeOK
<1>4. Grows
  BY <1>1, <1>2 DEF Grows, Height, TypeOK
<1> QED
  BY <1>1, <1>3, <1>4, JobsStay

\* The process starts again, or nothing changes.
LEMMA Rest ==
    ASSUME IInv, Restart \/ UNCHANGED vars
    PROVE  IInv'
<1>1. /\ TypeOK /\ up' \in BOOLEAN
      /\ UNCHANGED <<scope, chain, file, job, told, lost, seen, overlapped>>
  BY DEF Restart, vars, IInv, TypeOK
<1>2. TypeOK'
  BY <1>1 DEF TypeOK
<1>3. Grows
  BY <1>1, NothingTold
<1> QED
  BY <1>1, <1>2, <1>3, JobsStay

---------------------------------------------------------------------------
(* Theorems *)

\* The invariant holds at first.
LEMMA Initial ==
    ASSUME Init
    PROVE  IInv
<1>1. /\ \A n \in Networks : chain[n] = <<"empty">> /\ Len(chain[n]) = 1
      /\ <<"empty">> \in Seq(LogKinds)
  BY DEF Init, LogKinds
<1>2. TypeOK
  BY <1>1, IdleRecord DEF Init, TypeOK
<1>3. \A n \in Networks : Reached(n, 0)
  BY <1>1, BotBounds DEF Reached, Height, Blocks
<1>4. \A j \in Jobs : job[j] = Idle
  BY DEF Init
<1>5. \A j \in Jobs : JobOK(j)
  BY <1>3, <1>4, IdleRecord, IndexRange DEF JobOK, Progress, JobAt, Idle
<1> QED
  BY <1>2, <1>3, <1>5 DEF Init, IInv

\* Every step keeps the invariant.
LEMMA Inductive ==
    ASSUME IInv, [Next]_vars
    PROVE  IInv'
<1>1. ASSUME NEW j \in Jobs, StartCycle(j) \/ StartCheck(j) PROVE IInv'
  BY <1>1, Start
<1>2. ASSUME NEW j \in Jobs, GetFromNode(j) PROVE IInv'
  <2>1. PICK h \in 0..Height(Network(j)) :
            GetBlockNumber(j, h) \/ GetGovernorLogs(j, h) \/ GetTimelockLogs(j, h)
    BY <1>2 DEF GetFromNode
  <2> QED
    BY <2>1, BlockNumber, Logs
<1>3. ASSUME NEW j \in Jobs, Proceed(j) PROVE IInv'
  BY <1>2, <1>3, Tell, Finish, Save DEF Proceed
<1>4. ASSUME NEW j \in Jobs, FailNetwork(j) PROVE IInv'
  BY <1>4, Fail
<1>5. CASE Stop
  BY <1>5, End
<1>6. CASE Restart \/ UNCHANGED vars
  BY <1>6, Rest
<1>7. ASSUME NEW n \in Networks, NEW k \in {"proposal", "call"}, Mine(n, k) PROVE IInv'
  BY <1>7, Grow
<1> QED
  BY <1>1, <1>3, <1>4, <1>5, <1>6, <1>7 DEF Next

---------------------------------------------------------------------------
(* Cycles that do not overlap *)

\* Without overlap there is one cycle, and its cursors are not behind the file.
Alone ==
    ~overlapped =>
        \A i \in Jobs : job[i].kind = "cycle" =>
            /\ \A n \in Networks : file[n] <= job[i].cursor[n]
            /\ \A j \in Jobs : job[j].kind = "cycle" => i = j

\* A step of job j in which it keeps its kind, and no cursor goes back.
Onward(j) ==
    /\ job'[j].kind = job[j].kind
    /\ \A n \in Networks : job[j].cursor[n] <= job'[j].cursor[n]
    /\ \A i \in Jobs \ {j} : job'[i] = job[i]
    /\ UNCHANGED <<file, overlapped>>

\* A job that goes on leaves the others as they are.
LEMMA OnwardAlone ==
    ASSUME IInv, IInv', Alone, NEW j \in Jobs, Onward(j)
    PROVE  Alone'
<1> SUFFICES ASSUME ~overlapped, NEW i \in Jobs, job'[i].kind = "cycle"
             PROVE  /\ \A n \in Networks : file[n] <= job'[i].cursor[n]
                    /\ \A k \in Jobs : job'[k].kind = "cycle" => i = k
  BY DEF Alone, Onward
<1>1. \A k \in Jobs : job'[k].kind = job[k].kind
  BY DEF Onward
<1>2. \A n \in Networks : file[n] <= job[i].cursor[n]
  BY <1>1 DEF Alone
<1>3. \A n \in Networks : job[i].cursor[n] <= job'[i].cursor[n]
  <2>1. CASE i = j
    BY <2>1 DEF Onward
  <2>2. CASE i # j
    BY <2>2 DEF Onward, IInv, TypeOK, JobRecords
  <2> QED
    BY <2>1, <2>2
<1>4. \A n \in Networks : file[n] \in Nat /\ job[i].cursor[n] \in Nat /\ job'[i].cursor[n] \in Nat
  BY DEF IInv, TypeOK, JobRecords
<1>5. \A n \in Networks : file[n] <= job'[i].cursor[n]
  BY <1>2, <1>3, <1>4
<1> QED
  BY <1>1, <1>5 DEF Alone

\* What a job does between its start and its end takes it onward.
LEMMA JobGoesOnward ==
    ASSUME IInv, NEW j \in Jobs,
           GetFromNode(j) \/ TellLog(j) \/ FinishNetwork(j) \/ FailNetwork(j)
    PROVE  Onward(j)
<1>1. /\ TypeOK /\ job[j] \in JobRecords /\ job[j].cursor \in [Networks -> Nat]
      /\ UNCHANGED <<file, overlapped>>
  BY DEF IInv, TypeOK, JobRecords, GetFromNode, GetBlockNumber, GetGovernorLogs, GetTimelockLogs,
         GetLogs, TellLog, FinishNetwork, FailNetwork
<1>2. ASSUME NEW c \in [Networks -> Nat], \A n \in Networks : job[j].cursor[n] <= c[n],
             job' = [job EXCEPT ![j] = NextNetwork(j, c)]
      PROVE  Onward(j)
  BY <1>1, <1>2, NextNetworkRecord, JobsTyped DEF Onward
<1>3. job' = [job EXCEPT ![j] = NextNetwork(j, job[j].cursor)] => Onward(j)
  <2>1. \A n \in Networks : job[j].cursor[n] <= job[j].cursor[n]
    BY <1>1
  <2> QED
    BY <1>1, <1>2, <2>1
<1>4. ASSUME NEW h, GetBlockNumber(j, h)
      PROVE  Onward(j)
  <2>1. CASE job' = [job EXCEPT ![j] = NextNetwork(j, job[j].cursor)]
    BY <1>3, <2>1
  <2>2. CASE job' = [job EXCEPT ![j] = [job[j] EXCEPT !.step = "governor", !.latest = h,
                                                      !.from = FromBlock(j, h)]]
    BY <1>1, <2>2 DEF Onward, TypeOK, JobRecords
  <2> QED
    BY <1>4, <2>1, <2>2 DEF GetBlockNumber, WithoutNewBlocks
<1>5. ASSUME NEW h, GetGovernorLogs(j, h) \/ GetTimelockLogs(j, h)
      PROVE  Onward(j)
  <2>1. PICK step, kind, next : GetLogs(j, h, step, kind, next)
    BY <1>5 DEF GetGovernorLogs, GetTimelockLogs
  <2> DEFINE all == LogsUpTo(j, kind, Height(Network(j)))
             got == LogsUpTo(j, kind, h)
  <2>2. job' = [job EXCEPT ![j].step = next, ![j].logs = got, ![j].missed = @ \cup (all \ got)]
    BY <2>1 DEF GetLogs
  <2> HIDE DEF all, got
  <2> QED
    BY <1>1, <2>2 DEF Onward, TypeOK, JobRecords
<1>6. ASSUME TellLog(j)
      PROVE  Onward(j)
  <2>1. PICK b \in job[j].logs :
            \/ job' = [job EXCEPT ![j].logs = @ \ {b}]
            \/ job' = [job EXCEPT ![j].logs = @ \ {b}, ![j].missed = @ \cup {b}]
    BY <1>6 DEF TellLog
  <2>2. CASE job' = [job EXCEPT ![j].logs = @ \ {b}]
    BY <1>1, <2>2 DEF Onward, TypeOK, JobRecords
  <2>3. CASE job' = [job EXCEPT ![j].logs = @ \ {b}, ![j].missed = @ \cup {b}]
    BY <1>1, <2>3 DEF Onward, TypeOK, JobRecords
  <2> QED
    BY <2>1, <2>2, <2>3
<1>7. ASSUME FinishNetwork(j)
      PROVE  Onward(j)
  <2>1. PICK n0 \in Networks : n0 = Network(j)
    BY <1>7, Polled DEF FinishNetwork, At
  <2>2. job[j].latest \in Nat /\ job[j].cursor[n0] <= job[j].latest
    BY <1>1, <1>7, <2>1 DEF FinishNetwork, At, IInv, JobOK, Progress, RangeOK, JobRecords
  <2>3. CASE job[j].kind = "check"
    BY <1>3, <1>7, <2>3 DEF FinishNetwork
  <2>4. CASE job[j].kind # "check"
    <3> DEFINE c == [job[j].cursor EXCEPT ![n0] = job[j].latest]
    <3>1. c \in [Networks -> Nat] /\ \A n \in Networks : job[j].cursor[n] <= c[n]
      BY <1>1, <2>2
    <3>2. job' = [job EXCEPT ![j] = NextNetwork(j, c)]
      BY <1>7, <2>1, <2>4 DEF FinishNetwork
    <3> HIDE DEF c
    <3> QED
      BY <1>2, <3>1, <3>2
  <2> QED
    BY <2>3, <2>4
<1> QED
  BY <1>3, <1>4, <1>5, <1>6, <1>7 DEF GetFromNode, FailNetwork, AfterFailure

\* The cycle that starts loads the file; if it is the second, they overlap.
LEMMA StartAlone ==
    ASSUME IInv, IInv', Alone, NEW j \in Jobs, StartCycle(j) \/ StartCheck(j)
    PROVE  Alone'
<1>1. PICK k \in {"cycle", "check"} :
        /\ job' = [job EXCEPT ![j] = Started(k)]
        /\ k = "cycle" => overlapped' = (overlapped \/ \E i \in Jobs : job[i].kind = "cycle")
        /\ k = "check" => overlapped' = overlapped
        /\ file' = file
  BY DEF StartCycle, StartCheck
<1>2. /\ job'[j] = Started(k) /\ Started(k).kind = k /\ Started(k).cursor = file
      /\ \A i \in Jobs \ {j} : job'[i] = job[i]
  BY <1>1 DEF IInv, TypeOK, Started, JobAt
<1>3. \A n \in Networks : file[n] <= file[n]
  BY DEF IInv, TypeOK
<1>4. CASE k = "check"
  <2>1. overlapped' = overlapped /\ job'[j].kind # "cycle"
    BY <1>1, <1>2, <1>4
  <2>2. \A i \in Jobs : job'[i].kind = "cycle" => i # j /\ job'[i] = job[i]
    BY <1>2, <2>1
  <2> QED
    BY <1>1, <2>1, <2>2 DEF Alone
<1>5. CASE k = "cycle"
  <2>1. ~overlapped' => \A i \in Jobs \ {j} : job'[i].kind # "cycle"
    BY <1>1, <1>2, <1>5
  <2> QED
    BY <1>1, <1>2, <1>3, <2>1 DEF Alone
<1> QED
  BY <1>4, <1>5

\* The cycle that saves was the only one.
LEMMA SaveAlone ==
    ASSUME IInv, IInv', Alone, NEW j \in Jobs, FinishPoll(j)
    PROVE  Alone' /\ (~overlapped => \A n \in Networks : file'[n] >= file[n])
<1>1. /\ file' = IF job[j].kind = "check" THEN file ELSE job[j].cursor
      /\ job[j].kind \in {"cycle", "check"}
      /\ job' = [job EXCEPT ![j] = Idle] /\ overlapped' = overlapped
  BY DEF FinishPoll, Saved, At, IInv, TypeOK, JobRecords
<1>2. job'[j].kind = "idle" /\ \A i \in Jobs \ {j} : job'[i] = job[i]
  BY <1>1 DEF IInv, TypeOK, Idle, JobAt
<1>3. \A n \in Networks : file[n] \in Nat /\ job[j].cursor[n] \in Nat
  BY DEF IInv, TypeOK, JobRecords
<1>4. CASE job[j].kind = "check"
  BY <1>1, <1>2, <1>3, <1>4 DEF Alone
<1>5. CASE job[j].kind = "cycle"
  <2>1. ~overlapped => \A i \in Jobs : job'[i].kind # "cycle"
    BY <1>2, <1>5 DEF Alone
  <2> QED
    BY <1>1, <1>3, <1>5, <2>1 DEF Alone
<1> QED
  BY <1>1, <1>4, <1>5

\* One step: the cycle stays alone, and the file goes on unless it is gone.
LEMMA StepAlone ==
    ASSUME IInv, IInv', Alone, [Next]_vars
    PROVE  /\ Alone'
           /\ (~overlapped /\ "reset" \notin seen') => \A n \in Networks : file'[n] >= file[n]
<1>1. file \in [Networks -> Nat] /\ (file' = file => \A n \in Networks : file'[n] >= file[n])
  BY DEF IInv, TypeOK
<1>2. ASSUME NEW j \in Jobs, StartCycle(j) \/ StartCheck(j)
      PROVE  Alone' /\ file' = file
  BY <1>2, StartAlone DEF StartCycle, StartCheck
<1>3. ASSUME NEW j \in Jobs,
             GetFromNode(j) \/ TellLog(j) \/ FinishNetwork(j) \/ FailNetwork(j)
      PROVE  Alone' /\ file' = file
  <2>1. Onward(j)
    BY <1>3, JobGoesOnward
  <2> QED
    BY <2>1, OnwardAlone DEF Onward
<1>4. ASSUME NEW j \in Jobs, FinishPoll(j)
      PROVE  Alone' /\ (~overlapped => \A n \in Networks : file'[n] >= file[n])
  BY <1>4, SaveAlone
<1>5. CASE Stop
  <2>1. Alone'
    <3>1. \A i \in Jobs : job'[i].kind = "idle"
      BY <1>5 DEF Stop, Idle, JobAt
    <3> QED
      BY <3>1 DEF Alone
  <2>2. file' = file \/ "reset" \in seen'
    BY <1>5 DEF Stop, Fault
  <2> QED
    BY <1>1, <2>1, <2>2
<1>6. CASE Restart \/ UNCHANGED vars \/ \E n \in Networks, k \in {"proposal", "call"} : Mine(n, k)
  <2>1. UNCHANGED <<file, job, overlapped>>
    BY <1>6 DEF Restart, vars, Mine
  <2> QED
    BY <1>1, <2>1 DEF Alone
<1> QED
  BY <1>1, <1>2, <1>3, <1>4, <1>5, <1>6 DEF Next, Proceed

---------------------------------------------------------------------------
(* Logs that are told once *)

\* No cycle overlaps another, and none is cut off halfway.
Quiet == ~overlapped /\ seen \cap {"rpc", "crash", "reset"} = {}

\* Block b of network n is behind job j: behind its cursor, or in its range and
\* of a kind it has fetched, and no longer among what is left to tell.
Behind(j, n, b) ==
    \/ b <= job[j].cursor[n]
    \/ /\ job[j].step \in {"timelock", "finish"}
       /\ n = Network(j)
       /\ b \in job[j].from..job[j].latest /\ b \notin job[j].logs
       /\ \/ chain[n][b] = "proposal"
          \/ chain[n][b] = "call" /\ job[j].step = "finish"

\* What is left to tell lies in the range, and is of the kind fetched last.
LogsLeft(j) ==
    \A b \in job[j].logs :
        /\ b \in job[j].from..job[j].latest
        /\ chain[Network(j)][b] = IF job[j].step = "timelock" THEN "proposal" ELSE "call"

\* A log that is told is behind the cycle that runs, or behind the file.
TellsOnce ==
    Quiet =>
        \A n \in Networks, b \in Blocks :
            /\ told[n][b] < 2
            /\ told[n][b] > 0 => \/ \E j \in Jobs : job[j].kind = "cycle" /\ Behind(j, n, b)
                                 \/ b <= file[n]

AllLogsLeft == \A j \in Jobs : job[j].kind = "cycle" => LogsLeft(j)

\* A slot without a job has nothing left to tell.
IdleEmpty == \A j \in Jobs : job[j].kind = "idle" => job[j].logs = {}

\* What has happened stays seen.
LEMMA QuietBefore ==
    ASSUME [Next]_vars, Quiet'
    PROVE  Quiet
<1>1. seen \subseteq seen' /\ (overlapped => overlapped')
  <2>1. CASE UNCHANGED vars
    BY <2>1 DEF vars
  <2>2. ASSUME NEW j \in Jobs, StartCycle(j)
        PROVE  seen \subseteq seen' /\ (overlapped => overlapped')
    BY <2>2 DEF StartCycle
  <2>3. ASSUME NEW j \in Jobs, StartCheck(j) \/ FailNetwork(j) \/ TellLog(j)
        PROVE  seen \subseteq seen' /\ overlapped' = overlapped
    BY <2>3 DEF StartCheck, FailNetwork, TellLog, Fault
  <2>4. ASSUME NEW j \in Jobs, GetFromNode(j)
        PROVE  seen \subseteq seen' /\ overlapped' = overlapped
    BY <2>4 DEF GetFromNode, GetBlockNumber, GetGovernorLogs, GetTimelockLogs, GetLogs,
       NodeHeight, Fault
  <2>5. ASSUME NEW j \in Jobs, FinishNetwork(j) \/ FinishPoll(j)
        PROVE  seen' = seen /\ overlapped' = overlapped
    BY <2>5 DEF FinishNetwork, FinishPoll
  <2>6. CASE Stop \/ Restart \/ \E n \in Networks, k \in {"proposal", "call"} : Mine(n, k)
    BY <2>6 DEF Stop, Restart, Mine, Fault
  <2> QED
    BY <2>1, <2>2, <2>3, <2>4, <2>5, <2>6 DEF Next, Proceed
<1> QED
  BY <1>1 DEF Quiet

\* A job that stays knows of the same blocks, also when the chains grow.
LEMMA BehindStays ==
    ASSUME IInv, Grows, NEW i \in Jobs, job'[i] = job[i]
    PROVE  /\ \A n \in Networks, b \in Blocks : Behind(i, n, b) => Behind(i, n, b)'
           /\ LogsLeft(i) => LogsLeft(i)'
<1>1. job[i] \in JobRecords /\ Network(i)' = Network(i)
  BY DEF IInv, TypeOK, Network
<1>2. ASSUME NEW b \in Blocks, b \in job[i].from..job[i].latest,
             job[i].step \in {"timelock", "finish"}
      PROVE  chain'[Network(i)][b] = chain[Network(i)][b]
  <2>1. Network(i) \in Networks /\ Height(Network(i)) \in Nat
    BY <1>2, Polled
  <2>2. job[i].latest \in Nat /\ job[i].latest <= Height(Network(i)) /\ job[i].from \in Int
    BY <1>1, <1>2 DEF IInv, JobOK, Progress, RangeOK, JobRecords
  <2>3. b \in 1..Height(Network(i))
    BY <1>2, <2>1, <2>2, BotBounds DEF Blocks
  <2> QED
    BY <2>1, <2>3 DEF Grows
<1>3. \A n \in Networks, b \in Blocks : Behind(i, n, b) => Behind(i, n, b)'
  BY <1>1, <1>2 DEF Behind
<1>4. ASSUME LogsLeft(i), NEW b \in job[i].logs
      PROVE  /\ b \in job[i].from..job[i].latest
             /\ chain'[Network(i)][b] = IF job[i].step = "timelock" THEN "proposal" ELSE "call"
  <2>1. job[i].step \in {"timelock", "finish"} /\ b \in Blocks
    BY <1>1, <1>4 DEF IInv, JobOK, Progress, JobRecords
  <2> QED
    BY <1>2, <1>4, <2>1 DEF LogsLeft
<1> QED
  BY <1>1, <1>3, <1>4 DEF LogsLeft

\* In a step of job j what is told is told for the first time, and behind it.
LEMMA OneTells ==
    ASSUME IInv, IInv', Alone, TellsOnce, AllLogsLeft, Quiet' => Quiet, NEW j \in Jobs,
           \A i \in Jobs \ {j} : job'[i] = job[i], job'[j].kind = job[j].kind,
           UNCHANGED <<chain, file>>, Grows,
           Quiet => \A n \in Networks, b \in Blocks :
               \/ told'[n][b] = told[n][b]
               \/ /\ told'[n][b] = 1 /\ job[j].kind = "cycle" /\ Behind(j, n, b)',
           job[j].kind = "cycle" =>
               /\ \A n \in Networks, b \in Blocks : Behind(j, n, b) => Behind(j, n, b)'
               /\ LogsLeft(j)'
    PROVE  TellsOnce' /\ AllLogsLeft'
<1>1. AllLogsLeft'
  <2> SUFFICES ASSUME NEW i \in Jobs, job'[i].kind = "cycle" PROVE LogsLeft(i)'
    BY DEF AllLogsLeft
  <2>1. CASE i = j
    BY <2>1
  <2>2. CASE i # j
    BY <2>2, BehindStays DEF AllLogsLeft
  <2> QED
    BY <2>1, <2>2
<1>2. TellsOnce'
  <2> SUFFICES ASSUME Quiet, NEW n \in Networks, NEW b \in Blocks
               PROVE  /\ told'[n][b] < 2
                      /\ told'[n][b] > 0 =>
                            \/ \E i \in Jobs : job'[i].kind = "cycle" /\ Behind(i, n, b)'
                            \/ b <= file'[n]
    BY DEF TellsOnce
  <2>1. CASE told'[n][b] = 1 /\ job[j].kind = "cycle" /\ Behind(j, n, b)'
    BY <2>1
  <2>2. CASE told'[n][b] = told[n][b]
    <3>1. told[n][b] < 2
      BY DEF TellsOnce
    <3>2. ASSUME NEW i \in Jobs, job[i].kind = "cycle", Behind(i, n, b)
          PROVE  job'[i].kind = "cycle" /\ Behind(i, n, b)'
      <4>1. CASE i = j
        BY <3>2, <4>1
      <4>2. CASE i # j
        BY <3>2, <4>2, BehindStays
      <4> QED
        BY <4>1, <4>2
    <3>3. told[n][b] > 0 => \/ \E i \in Jobs : job[i].kind = "cycle" /\ Behind(i, n, b)
                            \/ b <= file[n]
      BY DEF TellsOnce
    <3> QED
      BY <2>2, <3>1, <3>2, <3>3
  <2> QED
    BY <2>1, <2>2
<1> QED
  BY <1>1, <1>2

\* The only cycle: what is told is behind it.
LEMMA ToldBehind ==
    ASSUME IInv, Alone, TellsOnce, Quiet, NEW j \in Jobs, job[j].kind = "cycle",
           NEW n \in Networks, NEW b \in Blocks, told[n][b] > 0
    PROVE  Behind(j, n, b)
<1>1. \A i \in Jobs : job[i].kind = "cycle" => i = j
  BY DEF Alone, Quiet
<1>2. file[n] <= job[j].cursor[n] /\ file[n] \in Nat /\ job[j].cursor[n] \in Nat /\ b \in Nat
  BY BotBounds, SMTT(60) DEF Alone, Quiet, IInv, TypeOK, JobRecords, Blocks
<1> QED
  BY <1>1, <1>2 DEF TellsOnce, Behind

\* A cycle asks a node how far it is, and its range begins behind its cursor.
LEMMA BlockNumberOnce ==
    ASSUME IInv, IInv', Alone, TellsOnce, AllLogsLeft, Quiet' => Quiet, NEW j \in Jobs,
           NEW h, GetBlockNumber(j, h)
    PROVE  TellsOnce' /\ AllLogsLeft'
<1>1. /\ TypeOK /\ job[j] \in JobRecords /\ job[j].step = "block" /\ job[j].logs = {}
      /\ UNCHANGED <<chain, file, told, lost>>
  BY DEF GetBlockNumber, At, IInv, TypeOK, JobOK, Progress
<1> DEFINE r == [job[j] EXCEPT !.step = "governor", !.latest = h, !.from = FromBlock(j, h)]
<1>2. \/ job' = [job EXCEPT ![j] = NextNetwork(j, job[j].cursor)]
      \/ job' = [job EXCEPT ![j] = r]
  BY DEF GetBlockNumber, WithoutNewBlocks
<1>3. /\ r.cursor = job[j].cursor /\ r.logs = {} /\ r.kind = job[j].kind
      /\ NextNetwork(j, job[j].cursor).cursor = job[j].cursor
      /\ NextNetwork(j, job[j].cursor).logs = {}
      /\ NextNetwork(j, job[j].cursor).kind = job[j].kind
  BY <1>1 DEF JobRecords, NextNetwork, JobAt
<1> HIDE DEF r
<1>4. /\ job'[j].cursor = job[j].cursor /\ job'[j].logs = {} /\ job'[j].kind = job[j].kind
      /\ \A i \in Jobs \ {j} : job'[i] = job[i]
  BY <1>1, <1>2, <1>3 DEF TypeOK
<1>5. \A n \in Networks, b \in Blocks : Behind(j, n, b) => Behind(j, n, b)'
  BY <1>1, <1>4 DEF Behind
<1>6. LogsLeft(j)'
  BY <1>4 DEF LogsLeft
<1>7. Grows
  BY <1>1, NothingTold
<1> QED
  BY <1>1, <1>4, <1>5, <1>6, <1>7, OneTells

\* A cycle gets logs: those of its range, of one kind after the other.
LEMMA LogsOnce ==
    ASSUME IInv, IInv', Alone, TellsOnce, AllLogsLeft, Quiet' => Quiet, NEW j \in Jobs,
           NEW h, GetGovernorLogs(j, h) \/ GetTimelockLogs(j, h)
    PROVE  TellsOnce' /\ AllLogsLeft'
<1>1. PICK step, kind, next :
        /\ \/ step = "governor" /\ kind = "proposal" /\ next = "timelock"
           \/ step = "timelock" /\ kind = "call" /\ next = "finish"
        /\ GetLogs(j, h, step, kind, next)
  BY DEF GetGovernorLogs, GetTimelockLogs
<1>2. /\ TypeOK /\ job[j] \in JobRecords /\ job[j].step = step /\ job[j].logs = {}
      /\ UNCHANGED <<chain, file, told, lost>>
  BY <1>1 DEF GetLogs, At, IInv, TypeOK
<1> DEFINE all == LogsUpTo(j, kind, Height(Network(j)))
           got == LogsUpTo(j, kind, h)
<1>3. job' = [job EXCEPT ![j].step = next, ![j].logs = got, ![j].missed = @ \cup (all \ got)]
  BY <1>1 DEF GetLogs
<1>4. \A b \in got : /\ job[j].from <= b /\ b <= job[j].latest /\ b \in Blocks
                     /\ chain[Network(j)][b] = kind
  BY DEF LogsUpTo
<1> HIDE DEF all, got
<1>5. /\ job'[j].step = next /\ job'[j].logs = got /\ job'[j].cursor = job[j].cursor
      /\ job'[j].from = job[j].from /\ job'[j].latest = job[j].latest
      /\ job'[j].net = job[j].net /\ job'[j].kind = job[j].kind
      /\ \A i \in Jobs \ {j} : job'[i] = job[i]
  BY <1>2, <1>3 DEF TypeOK, JobRecords
<1>6. Network(j)' = Network(j) /\ job[j].from \in Int /\ job[j].latest \in Int
      /\ Blocks \subseteq Int
  BY <1>2, <1>5, BotBounds DEF Network, JobRecords, Blocks
<1>7. \A n \in Networks, b \in Blocks : Behind(j, n, b) => Behind(j, n, b)'
  <2> SUFFICES ASSUME NEW n \in Networks, NEW b \in Blocks, Behind(j, n, b)
               PROVE  Behind(j, n, b)'
    OBVIOUS
  <2>1. CASE b <= job[j].cursor[n]
    BY <1>5, <2>1 DEF Behind
  <2>2. CASE ~(b <= job[j].cursor[n])
    <3>1. /\ step = "timelock" /\ kind = "call" /\ next = "finish" /\ n = Network(j)
          /\ b \in job[j].from..job[j].latest /\ chain[n][b] = "proposal"
      BY <1>1, <1>2, <2>2 DEF Behind
    <3>2. b \notin got
      BY <1>4, <3>1
    <3> QED
      BY <1>2, <1>5, <1>6, <3>1, <3>2 DEF Behind
  <2> QED
    BY <2>1, <2>2
<1>8. LogsLeft(j)'
  <2>1. ASSUME NEW b \in got PROVE b \in job[j].from..job[j].latest
    <3>1. b \in Int /\ job[j].from <= b /\ b <= job[j].latest
      BY <1>4, <1>6
    <3> QED
      BY <1>6, <3>1
  <2>2. kind = IF next = "timelock" THEN "proposal" ELSE "call"
    BY <1>1
  <2> QED
    BY <1>2, <1>4, <1>5, <1>6, <2>1, <2>2 DEF LogsLeft
<1>9. Grows
  BY <1>2, NothingTold
<1> QED
  BY <1>2, <1>5, <1>7, <1>8, <1>9, OneTells

\* What a cycle tells was not told before: it was not behind the cycle.
LEMMA TellOnce ==
    ASSUME IInv, IInv', Alone, TellsOnce, AllLogsLeft, Quiet' => Quiet, NEW j \in Jobs,
           TellLog(j), job[j].kind = "cycle"
    PROVE  TellsOnce' /\ AllLogsLeft'
<1>1. PICK b \in job[j].logs :
        /\ \/ told' = [told EXCEPT ![Network(j)][b] = IF @ < 2 THEN @ + 1 ELSE @]
           \/ told' = told
        /\ \/ job' = [job EXCEPT ![j].logs = @ \ {b}]
           \/ job' = [job EXCEPT ![j].logs = @ \ {b}, ![j].missed = @ \cup {b}]
  BY DEF TellLog
<1>2. /\ TypeOK /\ job[j] \in JobRecords /\ job[j].step \in {"timelock", "finish"}
      /\ job[j].step # "save"
      /\ UNCHANGED <<chain, file, lost>>
  BY <1>1 DEF TellLog, IInv, TypeOK, JobOK, Progress
<1>3. /\ Network(j) \in Networks /\ job[j].cursor[Network(j)] \in Nat
      /\ b \in Blocks /\ b \in Nat \ {0}
  BY <1>1, <1>2, Polled, BotBounds DEF JobRecords, Blocks
<1>4. /\ job'[j].logs = job[j].logs \ {b} /\ job'[j].step = job[j].step
      /\ job'[j].cursor = job[j].cursor /\ job'[j].net = job[j].net
      /\ job'[j].from = job[j].from /\ job'[j].latest = job[j].latest
      /\ job'[j].kind = job[j].kind
      /\ \A i \in Jobs \ {j} : job'[i] = job[i]
  <2>1. CASE job' = [job EXCEPT ![j].logs = @ \ {b}]
    BY <1>2, <2>1 DEF TypeOK, JobRecords
  <2>2. CASE job' = [job EXCEPT ![j].logs = @ \ {b}, ![j].missed = @ \cup {b}]
    BY <1>2, <2>2 DEF TypeOK, JobRecords
  <2> QED
    BY <1>1, <2>1, <2>2
<1>5. Network(j)' = Network(j)
  BY <1>4 DEF Network
<1>6. LogsLeft(j)
  BY DEF AllLogsLeft
<1>7. /\ b \in job[j].from..job[j].latest
      /\ chain[Network(j)][b] = IF job[j].step = "timelock" THEN "proposal" ELSE "call"
  BY <1>1, <1>6 DEF LogsLeft
<1>8. ~Behind(j, Network(j), b)
  <2>1. job[j].cursor[Network(j)] # 0 => job[j].from = job[j].cursor[Network(j)] + 1
    BY <1>2 DEF IInv, JobOK, Progress, RangeOK
  <2>2. job[j].from \in Int /\ job[j].latest \in Int
    BY <1>2 DEF JobRecords
  <2>3. ~(b <= job[j].cursor[Network(j)])
    BY <1>3, <1>7, <2>1, <2>2
  <2> QED
    BY <1>1, <2>3 DEF Behind
<1>9. Behind(j, Network(j), b)'
  BY <1>2, <1>4, <1>5, <1>7 DEF Behind
<1>10. \A n \in Networks, x \in Blocks : Behind(j, n, x) => Behind(j, n, x)'
  BY <1>2, <1>4, <1>5 DEF Behind
<1>11. LogsLeft(j)'
  BY <1>2, <1>4, <1>5, <1>6 DEF LogsLeft
<1>12. told \in [Networks -> [Blocks -> Nat]]
  BY <1>2 DEF TypeOK
<1>13. Quiet => \A n \in Networks, x \in Blocks :
          \/ told'[n][x] = told[n][x]
          \/ told'[n][x] = 1 /\ job[j].kind = "cycle" /\ Behind(j, n, x)'
  <2> SUFFICES ASSUME Quiet PROVE \A n \in Networks, x \in Blocks :
          \/ told'[n][x] = told[n][x]
          \/ told'[n][x] = 1 /\ job[j].kind = "cycle" /\ Behind(j, n, x)'
    OBVIOUS
  <2>0. told[Network(j)][b] \in Nat
    BY <1>3, <1>12
  <2>1. ~(told[Network(j)][b] > 0)
    BY <1>3, <1>8, ToldBehind
  <2>2. told[Network(j)][b] = 0
    BY <2>0, <2>1
  <2>3. CASE told' = told
    BY <2>3
  <2>4. CASE told' = [told EXCEPT ![Network(j)][b] = IF @ < 2 THEN @ + 1 ELSE @]
    <3>1. told'[Network(j)][b] = 1
      BY <1>3, <1>12, <2>2, <2>4
    <3>2. \A n \in Networks, x \in Blocks :
             (n # Network(j) \/ x # b) => told'[n][x] = told[n][x]
      BY <1>3, <1>12, <2>4
    <3>3. told'[Network(j)][b] = 1 /\ job[j].kind = "cycle" /\ Behind(j, Network(j), b)'
      BY <1>9, <3>1
    <3> SUFFICES ASSUME NEW n \in Networks, NEW x \in Blocks
                 PROVE  \/ told'[n][x] = told[n][x]
                        \/ told'[n][x] = 1 /\ job[j].kind = "cycle" /\ Behind(j, n, x)'
      OBVIOUS
    <3>4. CASE n = Network(j) /\ x = b
      <4>1. told'[n][x] = 1
        BY <3>3, <3>4
      <4>2. Behind(j, n, x)'
        BY <1>2, <1>4, <1>5, <1>7, <3>4 DEF Behind
      <4> QED
        BY <3>3, <4>1, <4>2
    <3> QED
      BY <3>2, <3>4
  <2> QED
    BY <1>1, <2>3, <2>4
<1>14. Grows
  <2>1. \A n \in Networks, x \in Blocks : told[n][x] > 0 => told'[n][x] > 0
    BY <1>1, <1>3, <1>12
  <2> QED
    BY <1>2, <2>1 DEF Grows, Height, TypeOK
<1> QED
  BY <1>2, <1>4, <1>10, <1>11, <1>13, <1>14, OneTells

\* A check tells nothing in the chat, and a cycle that is done with a network
\* has all of its range behind its cursor.
LEMMA PassOnce ==
    ASSUME IInv, IInv', Alone, TellsOnce, AllLogsLeft, Quiet' => Quiet, NEW j \in Jobs,
           (TellLog(j) /\ job[j].kind = "check") \/ FinishNetwork(j)
    PROVE  TellsOnce' /\ AllLogsLeft'
<1>1. /\ TypeOK /\ job[j] \in JobRecords /\ UNCHANGED <<chain, file, told>>
      /\ job'[j].kind = job[j].kind /\ \A i \in Jobs \ {j} : job'[i] = job[i]
  <2>1. Onward(j)
    BY JobGoesOnward
  <2> QED
    BY <2>1 DEF Onward, TellLog, FinishNetwork, IInv, TypeOK
<1>2. Grows
  <2>1. CASE TellLog(j)
    BY <1>1, <2>1, NothingTold DEF TellLog
  <2>2. CASE FinishNetwork(j)
    <3>1. /\ job[j].step # "save"
          /\ \/ lost' = lost
             \/ \E m : lost' = [lost EXCEPT ![Network(j)] = lost[Network(j)] \cup m]
      BY <2>2 DEF FinishNetwork, At
    <3>2. Network(j) \in Networks
      BY <3>1, Polled
    <3>3. \A n \in Networks : lost[n] \subseteq lost'[n]
      BY <1>1, <3>1, <3>2 DEF TypeOK
    <3> QED
      BY <1>1, <3>3 DEF Grows, Height, TypeOK
  <2> QED
    BY <2>1, <2>2
<1>3. ASSUME job[j].kind = "cycle"
      PROVE  /\ \A n \in Networks, b \in Blocks : Behind(j, n, b) => Behind(j, n, b)'
             /\ LogsLeft(j)'
  <2>0. job[j].step = "finish" /\ job[j].step # "save"
    BY <1>3 DEF FinishNetwork, At
  <2>1. PICK n0 \in Networks : n0 = Network(j)
    BY <2>0, Polled
  <2>2. /\ job[j].latest \in Nat /\ job[j].cursor[n0] <= job[j].latest
        /\ job[j].cursor \in [Networks -> Nat] /\ job[j].from \in Int
    BY <1>1, <2>0, <2>1 DEF IInv, JobOK, Progress, RangeOK, JobRecords
  <2> DEFINE c == [job[j].cursor EXCEPT ![n0] = job[j].latest]
  <2>3. job' = [job EXCEPT ![j] = NextNetwork(j, c)]
    BY <1>3, <2>1 DEF FinishNetwork
  <2>4. /\ c \in [Networks -> Nat] /\ c[n0] = job[j].latest
        /\ \A n \in Networks : job[j].cursor[n] <= c[n]
    BY <2>2
  <2> HIDE DEF c
  <2>5. job'[j].cursor = c /\ job'[j].logs = {}
    BY <1>1, <2>3, <2>4, NextNetworkRecord DEF TypeOK
  <2>6. Blocks \subseteq Nat
    BY BotBounds DEF Blocks
  <2>7. \A n \in Networks, b \in Blocks : Behind(j, n, b) => b <= c[n]
    <3> SUFFICES ASSUME NEW n \in Networks, NEW b \in Blocks, Behind(j, n, b) PROVE b <= c[n]
      OBVIOUS
    <3>1. CASE b <= job[j].cursor[n]
      BY <2>2, <2>4, <2>6, <3>1
    <3>2. CASE n = n0 /\ b \in job[j].from..job[j].latest
      BY <2>2, <2>4, <2>6, <3>2
    <3> QED
      BY <2>1, <3>1, <3>2 DEF Behind
  <2> QED
    BY <2>5, <2>7 DEF Behind, LogsLeft
<1> QED
  BY <1>1, <1>2, <1>3, OneTells

\* Only a job that runs has logs.
LEMMA StepIdle ==
    ASSUME IInv, IdleEmpty, [Next]_vars
    PROVE  IdleEmpty'
<1>1. ASSUME NEW j \in Jobs, \A i \in Jobs \ {j} : job'[i] = job[i],
             job'[j].kind # "idle" \/ job'[j].logs = {}
      PROVE  IdleEmpty'
  BY <1>1 DEF IdleEmpty
<1>2. ASSUME NEW j \in Jobs, StartCycle(j) \/ StartCheck(j)
      PROVE  IdleEmpty'
  BY <1>1, <1>2 DEF StartCycle, StartCheck, Started, JobAt, IInv, TypeOK
<1>3. ASSUME NEW j \in Jobs,
             GetFromNode(j) \/ TellLog(j) \/ FinishNetwork(j) \/ FailNetwork(j)
      PROVE  IdleEmpty'
  <2>1. Onward(j)
    BY <1>3, JobGoesOnward
  <2>2. job[j].kind # "idle"
    <3>1. TellLog(j) => job[j].logs # {}
      BY DEF TellLog
    <3> QED
      BY <1>3, <3>1 DEF GetFromNode, GetBlockNumber, GetGovernorLogs, GetTimelockLogs, GetLogs,
         FinishNetwork, FailNetwork, At, IdleEmpty
  <2> QED
    BY <1>1, <2>1, <2>2 DEF Onward
<1>4. ASSUME NEW j \in Jobs, FinishPoll(j)
      PROVE  IdleEmpty'
  BY <1>1, <1>4 DEF FinishPoll, Idle, JobAt, IInv, TypeOK
<1>5. CASE Stop
  BY <1>5 DEF Stop, Idle, JobAt, IdleEmpty
<1>6. CASE Restart \/ UNCHANGED vars \/ \E n \in Networks, k \in {"proposal", "call"} : Mine(n, k)
  <2>1. job' = job
    BY <1>6 DEF Restart, vars, Mine
  <2> QED
    BY <2>1 DEF IdleEmpty
<1> QED
  BY <1>2, <1>3, <1>4, <1>5, <1>6 DEF Next, Proceed

\* One step: what is told is told once, and stays behind the cursors.
LEMMA StepOnce ==
    ASSUME IInv, IInv', Alone, IdleEmpty, TellsOnce, AllLogsLeft, [Next]_vars
    PROVE  TellsOnce' /\ AllLogsLeft'
<1>1. Quiet' => Quiet
  BY QuietBefore
<1>2. ASSUME Grows, UNCHANGED <<job, file, told>>
      PROVE  TellsOnce' /\ AllLogsLeft'
  <2>1. AllLogsLeft'
    BY <1>2, BehindStays DEF AllLogsLeft
  <2>2. TellsOnce'
    BY <1>1, <1>2, BehindStays DEF TellsOnce
  <2> QED
    BY <2>1, <2>2
<1>3. ASSUME NEW j \in Jobs, StartCycle(j)
      PROVE  TellsOnce' /\ AllLogsLeft'
  <2>1. /\ job' = [job EXCEPT ![j] = Started("cycle")] /\ UNCHANGED <<chain, file, told, lost>>
        /\ overlapped' = (overlapped \/ \E i \in Jobs : job[i].kind = "cycle")
    BY <1>3 DEF StartCycle
  <2>2. job'[j].logs = {} /\ \A i \in Jobs \ {j} : job'[i] = job[i]
    BY <2>1 DEF IInv, TypeOK, Started, JobAt
  <2>3. Grows
    BY <2>1, NothingTold DEF IInv
  <2>4. AllLogsLeft'
    <3> SUFFICES ASSUME NEW i \in Jobs, job'[i].kind = "cycle" PROVE LogsLeft(i)'
      BY DEF AllLogsLeft
    <3>1. CASE i = j
      BY <2>2, <3>1 DEF LogsLeft
    <3>2. CASE i # j
      BY <2>2, <2>3, <3>2, BehindStays DEF AllLogsLeft
    <3> QED
      BY <3>1, <3>2
  <2>5. Quiet' => \A i \in Jobs : job[i].kind # "cycle"
    BY <2>1 DEF Quiet
  <2>6. TellsOnce'
    BY <1>1, <2>1, <2>5 DEF TellsOnce
  <2> QED
    BY <2>4, <2>6
<1>4. ASSUME NEW j \in Jobs, StartCheck(j)
      PROVE  TellsOnce' /\ AllLogsLeft'
  <2>1. /\ job' = [job EXCEPT ![j] = Started("check")] /\ UNCHANGED <<chain, file, told, lost>>
        /\ job[j].kind = "idle"
    BY <1>4 DEF StartCheck, Free
  <2>2. job'[j].kind = "check" /\ \A i \in Jobs \ {j} : job'[i] = job[i]
    BY <2>1 DEF IInv, TypeOK, Started, JobAt
  <2>3. Grows
    BY <2>1, NothingTold DEF IInv
  <2>4. \A i \in Jobs : job'[i].kind = "cycle" \/ job[i].kind = "cycle" =>
           job'[i] = job[i]
    BY <2>1, <2>2
  <2>5. AllLogsLeft'
    BY <2>3, <2>4, BehindStays DEF AllLogsLeft
  <2>6. TellsOnce'
    BY <1>1, <2>1, <2>3, <2>4, BehindStays DEF TellsOnce
  <2> QED
    BY <2>5, <2>6
<1>5. ASSUME NEW j \in Jobs, GetFromNode(j)
      PROVE  TellsOnce' /\ AllLogsLeft'
  BY <1>1, <1>5, BlockNumberOnce, LogsOnce DEF GetFromNode
<1>6. ASSUME NEW j \in Jobs, TellLog(j)
      PROVE  TellsOnce' /\ AllLogsLeft'
  <2>1. job[j].kind \in {"idle", "cycle", "check"} /\ job[j].kind # "idle"
    <3>1. job[j].logs # {}
      BY <1>6 DEF TellLog
    <3> QED
      BY <3>1 DEF IInv, TypeOK, JobRecords, IdleEmpty
  <2> QED
    BY <1>1, <1>6, <2>1, TellOnce, PassOnce
<1>7. ASSUME NEW j \in Jobs, FinishNetwork(j)
      PROVE  TellsOnce' /\ AllLogsLeft'
  BY <1>1, <1>7, PassOnce
<1>8. ASSUME NEW j \in Jobs, FinishPoll(j)
      PROVE  TellsOnce' /\ AllLogsLeft'
  <2>1. /\ file' = IF job[j].kind = "check" THEN file ELSE job[j].cursor
        /\ job[j].kind \in {"cycle", "check"} /\ job[j].step = "save"
        /\ job' = [job EXCEPT ![j] = Idle] /\ UNCHANGED <<chain, told, lost>>
    BY <1>8 DEF FinishPoll, Saved, At, IInv, TypeOK, JobRecords
  <2>2. job'[j].kind = "idle" /\ \A i \in Jobs \ {j} : job'[i] = job[i]
    BY <2>1 DEF IInv, TypeOK, Idle, JobAt
  <2>3. Grows
    BY <2>1, NothingTold DEF IInv
  <2>4. AllLogsLeft'
    BY <2>2, <2>3, BehindStays DEF AllLogsLeft
  <2>5. TellsOnce'
    <3> SUFFICES ASSUME Quiet, NEW n \in Networks, NEW b \in Blocks
                 PROVE  /\ told[n][b] < 2
                        /\ told[n][b] > 0 =>
                              \/ \E i \in Jobs : job'[i].kind = "cycle" /\ Behind(i, n, b)'
                              \/ b <= file'[n]
      BY <1>1, <2>1 DEF TellsOnce
    <3>1. told[n][b] < 2
      BY DEF TellsOnce
    <3>2. CASE job[j].kind = "check"
      <4>1. \A i \in Jobs : job[i].kind = "cycle" => job'[i] = job[i]
        BY <2>2, <3>2
      <4> QED
        BY <2>1, <2>3, <3>1, <3>2, <4>1, BehindStays DEF TellsOnce
    <3>3. CASE job[j].kind = "cycle"
      <4>1. told[n][b] > 0 => Behind(j, n, b)
        BY <3>3, ToldBehind
      <4> QED
        BY <2>1, <3>1, <3>3, <4>1 DEF Behind
    <3> QED
      BY <2>1, <3>2, <3>3
  <2> QED
    BY <2>4, <2>5
<1>9. ASSUME NEW j \in Jobs, FailNetwork(j)
      PROVE  TellsOnce' /\ AllLogsLeft'
  <2>1. /\ job' = [job EXCEPT ![j] = NextNetwork(j, job[j].cursor)]
        /\ UNCHANGED <<chain, file, told, lost>> /\ ~Quiet'
    BY <1>9 DEF FailNetwork, AfterFailure, Fault, Quiet
  <2>2. job'[j].logs = {} /\ \A i \in Jobs \ {j} : job'[i] = job[i]
    BY <2>1 DEF IInv, TypeOK, NextNetwork, JobAt
  <2>3. Grows
    BY <2>1, NothingTold DEF IInv
  <2>4. ASSUME NEW i \in Jobs, job'[i].kind = "cycle" PROVE LogsLeft(i)'
    <3>1. CASE i = j
      BY <2>2, <3>1 DEF LogsLeft
    <3>2. CASE i # j
      BY <2>2, <2>3, <2>4, <3>2, BehindStays DEF AllLogsLeft
    <3> QED
      BY <3>1, <3>2
  <2> QED
    BY <2>1, <2>4 DEF TellsOnce, AllLogsLeft
<1>10. CASE Stop
  <2>1. ~Quiet'
    BY <1>10 DEF Stop, Fault, Quiet
  <2>2. \A i \in Jobs : job'[i].kind = "idle"
    BY <1>10 DEF Stop, Idle, JobAt
  <2> QED
    BY <2>1, <2>2 DEF TellsOnce, AllLogsLeft
<1>11. CASE Restart \/ UNCHANGED vars
  <2>1. UNCHANGED <<chain, job, file, told, lost>>
    BY <1>11 DEF Restart, vars
  <2>2. Grows
    BY <2>1, NothingTold DEF IInv
  <2> QED
    BY <1>2, <2>1, <2>2
<1>12. ASSUME NEW n \in Networks, NEW k \in {"proposal", "call"}, Mine(n, k)
       PROVE  TellsOnce' /\ AllLogsLeft'
  <2>1. /\ TypeOK /\ chain[n] \in Seq(LogKinds) /\ k \in LogKinds
        /\ chain' = [chain EXCEPT ![n] = Append(chain[n], k)]
        /\ UNCHANGED <<file, job, told, lost>>
    BY <1>12 DEF Mine, IInv, TypeOK, LogKinds
  <2>2. /\ Append(chain[n], k) \in Seq(LogKinds)
        /\ Len(Append(chain[n], k)) = Len(chain[n]) + 1
        /\ \A b \in 1..Len(chain[n]) : Append(chain[n], k)[b] = chain[n][b]
    BY <2>1
  <2>3. Grows
    BY <2>1, <2>2 DEF Grows, Height, TypeOK
  <2> QED
    BY <1>2, <2>1, <2>3
<1> QED
  BY <1>3, <1>4, <1>5, <1>6, <1>7, <1>8, <1>9, <1>10, <1>11, <1>12 DEF Next, Proceed

---------------------------------------------------------------------------
(* The results *)

\* The inductive invariant holds: every cursor, in the file or in a cycle's
\* copy, is a block that exists and all logs up to it are settled; and of the
\* blocks a cycle is going through, it still knows every log it has not told.
THEOREM CursorsReached == Spec => []IInv
<1>1. Init => IInv
  BY Initial
<1>2. IInv /\ [Next]_vars => IInv'
  BY Inductive
<1> QED
  BY <1>1, <1>2, PTL DEF Spec

\* However many cycles overlap, over whatever networks, and wherever they fail
\* or are cut off, no cursor passes a log that is neither told nor given up.
THEOREM BotPassesOverNothing == Spec => []NothingPassedOver
<1>1. IInv => NothingPassedOver
  BY DEF IInv, JobOK, Reached, Settled, NothingPassedOver
<1> QED
  BY <1>1, CursorsReached, PTL

\* Without overlap a cycle is alone, and ahead of the file it will save over.
LEMMA CycleAlone == Spec => []Alone
<1>1. Init => Alone
  BY DEF Init, Alone, Idle, JobAt
<1>2. IInv /\ IInv' /\ Alone /\ [Next]_vars => Alone'
  BY StepAlone
<1> QED
  BY <1>1, <1>2, CursorsReached, PTL DEF Spec

\* The block the file names for a network never goes back, whatever fails and
\* however often the bot is stopped, unless cycles overlap or the file is gone.
THEOREM BotFileGoesOn == Spec => FileGoesOn
<1>3. IInv /\ IInv' /\ Alone /\ [Next]_vars =>
        [(~overlapped /\ "reset" \notin seen') => \A n \in Networks : file'[n] >= file[n]]_vars
  <2> SUFFICES ASSUME IInv, IInv', Alone, [Next]_vars, ~(UNCHANGED vars),
                      ~overlapped, "reset" \notin seen'
               PROVE  \A n \in Networks : file'[n] >= file[n]
    OBVIOUS
  <2> QED
    BY StepAlone
<1> QED
  BY <1>3, CursorsReached, CycleAlone, PTL DEF Spec, FileGoesOn

\* While no cycles overlap and none is cut off halfway, no log is told twice: on
\* any networks, whichever nodes lag, whatever the chat refuses and whoever asks
\* for a check meanwhile.
THEOREM BotTellsOnce == Spec => []ToldOnce
<1>1. Init => IdleEmpty /\ TellsOnce /\ AllLogsLeft
  BY DEF Init, TellsOnce, AllLogsLeft, IdleEmpty, Idle, JobAt
<1>2. /\ IInv /\ IInv' /\ Alone /\ IdleEmpty /\ TellsOnce /\ AllLogsLeft /\ [Next]_vars
      => IdleEmpty' /\ TellsOnce' /\ AllLogsLeft'
  BY StepOnce, StepIdle
<1>3. TellsOnce => ToldOnce
  BY DEF TellsOnce, ToldOnce, Quiet
<1> QED
  BY <1>1, <1>2, <1>3, CursorsReached, CycleAlone, PTL DEF Spec
=============================================================================

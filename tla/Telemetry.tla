------------------------------ MODULE Telemetry ------------------------------
(***************************************************************************)
(* TelemetryLogger, and the two threads that use it: the streaming thread  *)
(* brackets a session, the data channel records samples in between         *)
(* (src/src/telemetry/TelemetryLogger.cpp, main.cpp).  The log outlives    *)
(* the process, which may crash.                                           *)
(***************************************************************************)
EXTENDS Naturals, FiniteSets, Sequences, SequencesExt

CONSTANTS
    SessionIds,    \* sessions, in the order they are started
    Values,        \* the values a metric takes
    MaxFileSize,   \* maxFileSizeBytes_, in units of one line
    MaxSamples     \* bound: samples recorded

ASSUME TelemetryAssumption ==
    /\ SessionIds \subseteq Nat \ {0} /\ Values \subseteq Nat \ {0}
    /\ MaxFileSize \in Nat \ {0} /\ MaxSamples \in Nat

VARIABLES
    active,        \* activeSession_: [id, samples], id 0 for none
    file,          \* entries of the log file
    old,           \* entries of the rotated file
    fileSize,      \* currentFileSize_
    isOpen,        \* logFile_.is_open()
    streaming,     \* sessions whose streaming thread is between start and end
    started,       \* sessions started so far
    recorded,      \* history: session -> values recorded while it was active
    summary        \* the summary written last

logVars == <<active, file, old, fileSize, isOpen, streaming, started, recorded, summary>>

NoSession == [id |-> 0, samples |-> <<>>]
NoSummary == [id |-> 0, samples |-> <<>>, p50 |-> 0, p95 |-> 0, p99 |-> 0]

\* Sizes of the entries, in lines.
Size(entry) == IF entry = "sample" THEN 1 ELSE 3
Bytes(entries) == Len(entries) + 2 * Cardinality({i \in DOMAIN entries : entries[i] # "sample"})

LogInit ==
    /\ active = NoSession
    /\ file = <<>> /\ old = <<>> /\ fileSize = 0 /\ isOpen = FALSE
    /\ streaming = {} /\ started = {}
    /\ recorded = [id \in SessionIds |-> <<>>]
    /\ summary = NoSummary

\* Mutant: the size of a file that was there before is not taken into account.
WriteFromZero(entry) ==
    LET size == IF isOpen THEN fileSize ELSE 0 IN
    /\ isOpen' = TRUE
    /\ IF size + Size(entry) < MaxFileSize
       THEN file' = Append(file, entry) /\ fileSize' = size + Size(entry) /\ UNCHANGED old
       ELSE file' = <<entry>> /\ fileSize' = Size(entry) /\ old' = file

\* writeLocked: ensureFileOpenLocked measures an existing file, rotateIfNeededLocked
\* moves a full one aside; when that fails the file is truncated all the same.
Write(entry) ==
    LET size == IF isOpen THEN fileSize ELSE Bytes(file) IN
    /\ isOpen' = TRUE
    /\ IF size + Size(entry) < MaxFileSize
       THEN file' = Append(file, entry) /\ fileSize' = size + Size(entry) /\ UNCHANGED old
       ELSE /\ file' = <<entry>> /\ fileSize' = Size(entry)
            /\ old' \in {file, old, <<>>}

\* logSessionStart, by the streaming thread of a session that streams.
SessionStart(id) ==
    /\ id \in SessionIds \ started /\ \A other \in started : other < id
    /\ active' = [id |-> id, samples |-> <<>>]
    /\ started' = started \cup {id} /\ streaming' = streaming \cup {id}
    /\ Write("start")
    /\ UNCHANGED <<recorded, summary>>

\* Mutant: a sample counts for whatever session is active.
RecordAny(id, value) ==
    /\ active' = IF active.id # 0 THEN [active EXCEPT !.samples = Append(@, value)] ELSE active
    /\ recorded' = IF active.id = id THEN [recorded EXCEPT ![id] = Append(@, value)] ELSE recorded
    /\ Write("sample")
    /\ UNCHANGED <<streaming, started, summary>>

\* recordTelemetry: samples come on the data channel of a session, also before it
\* streams, after it has ended and while another session is active.
Record(id, value) ==
    /\ IF active.id = id
       THEN /\ active' = [active EXCEPT !.samples = Append(@, value)]
            /\ recorded' = [recorded EXCEPT ![id] = Append(@, value)]
       ELSE UNCHANGED <<active, recorded>>
    /\ Write("sample")
    /\ UNCHANGED <<streaming, started, summary>>

CeilDiv(a, b) == (a + b - 1) \div b

\* An order in which the samples are sorted.
Sorted(samples) ==
    CHOOSE p \in Bijection(DOMAIN samples, DOMAIN samples) :
        \A i, j \in DOMAIN samples : i < j => samples[p[i]] <= samples[p[j]]

\* getPercentile of computeDistribution, on the sorted samples.
Percentile(samples, percent) ==
    samples[Sorted(samples)[CeilDiv(percent * Len(samples), 100)]]

\* logSessionEnd: the summary and its percentiles, if the session is the active one.
SessionEnd(id) ==
    /\ id \in streaming
    /\ streaming' = streaming \ {id}
    /\ IF active.id = id
       THEN /\ active' = NoSession
            /\ summary' = IF active.samples = <<>> THEN [NoSummary EXCEPT !.id = id]
                          ELSE [id |-> id, samples |-> active.samples,
                                p50 |-> Percentile(active.samples, 50),
                                p95 |-> Percentile(active.samples, 95),
                                p99 |-> Percentile(active.samples, 99)]
            /\ Write("end")
       ELSE Write("sample") /\ UNCHANGED <<active, summary>>
    /\ UNCHANGED <<started, recorded>>

\* The process ends, or crashes, and numbers its sessions anew; the files stay.
Restart ==
    /\ started # {}
    /\ active' = NoSession /\ streaming' = {} /\ started' = {}
    /\ isOpen' = FALSE /\ fileSize' = 0
    /\ recorded' = [id \in SessionIds |-> <<>>] /\ summary' = NoSummary
    /\ UNCHANGED <<file, old>>

Samples == FoldFunction(LAMBDA s, n : Len(s) + n, 0, recorded)

LogNext ==
    \/ \E id \in SessionIds : SessionStart(id) \/ SessionEnd(id)
    \/ \E id \in SessionIds, value \in Values : Samples < MaxSamples /\ Record(id, value)
    \/ Restart

LogSpec == LogInit /\ [][LogNext]_logVars
-----------------------------------------------------------------------------
\* The log never reaches its limit, across rotations that fail and restarts, except with
\* a single entry that is larger than the limit by itself (TelemetryLogger.cpp:124-187).
LogBounded == Bytes(file) < MaxFileSize \/ Len(file) <= 1

AtMost(samples, x) == Cardinality({i \in DOMAIN samples : samples[i] <= x})

\* A session's summary is made of the samples recorded for it while it was active, and
\* its percentiles are samples with at least that share of the samples at or below them,
\* and less than that share strictly below.
SummaryFaithful ==
    summary.id # 0 =>
        /\ summary.samples = recorded[summary.id]
        /\ summary.samples # <<>> =>
             \A p \in {<<50, summary.p50>>, <<95, summary.p95>>, <<99, summary.p99>>} :
                /\ p[2] \in ToSet(summary.samples)
                /\ AtMost(summary.samples, p[2]) * 100 >= p[1] * Len(summary.samples)
                /\ AtMost(summary.samples, p[2] - 1) * 100 < p[1] * Len(summary.samples)
=============================================================================

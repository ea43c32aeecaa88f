---------------------------- MODULE ServiceProofs ----------------------------
(***************************************************************************)
(* Theorems about GatewayProcess, for any hosts and commands, any number   *)
(* of operations of the user and of starts of the service.  Each invariant *)
(* is about the variables of one or two components: a step of the process  *)
(* is first reduced to what it is for them.                                *)
(***************************************************************************)
EXTENDS GatewayProcess, TLAPS

-----------------------------------------------------------------------------
(***************************************************************************)
(* The management pipe.                                                    *)
(***************************************************************************)
\* One connection at a time carries one command: while the tray's thread is between two
\* commands nothing is on its way, a result left in the pipe is of a client that closed
\* its end, and the tray's end breaks the pipe of a live client only before it listens
\* again or when it stops.
OneExchange ==
    /\ pipe \in {"none", "live", "broken"}
    /\ server \in {"connecting", "waiting"} => request = None /\ response = None /\ handled = None
    /\ client = "handling" <=> handled # None
    /\ client \in {"opened", "reading", "handling"} => pipe # "none"
    /\ response # None => pipe = "none"
    /\ pipe = "broken" /\ tray = "up" => server = "connecting"
    /\ tray # "up" => asked = None
    /\ pending # None /\ tray = "up" => asked # None /\ result = None
    /\ result # None /\ asked # None => server # "exchanging"

\* Before anything was given up, all there is belongs to the command that is asked for.
SameCommand ==
    ~abandoned =>
        /\ ~stray
        /\ tray = "up" /\ asked = None => server # "exchanging"
        /\ asked # None => pending \in {None, asked} /\ result \in {None, NoAnswer, asked}
        /\ asked # None /\ server = "exchanging" =>
              /\ request \in {None, asked} /\ handled \in {None, asked}
              /\ response \in {None, asked}

IpcInv == OneExchange /\ SameCommand /\ abandoned \in BOOLEAN /\ stray \in BOOLEAN

IpcStep ==
    \/ TrayServer \/ Answered \/ TimesOut \/ TrayStops \/ \E c \in Commands : Ask(c)
    \/ ClientStep
    \/ client = "handling" /\ Reply /\ UNCHANGED <<trayVars, clientStop, request>>
    \/ StopClient /\ UNCHANGED <<trayVars, handled, request, response>>
    \/ client = "off" /\ StartClient /\ UNCHANGED <<trayVars, handled, pipeVars>>
    \/ ClientDies /\ UNCHANGED <<trayVars, request, response>>

\* The Tray's side of the management pipe keeps the answers and commands matched.
LEMMA TrayKeepsIpc ==
    ASSUME IpcInv, TrayServer \/ Answered \/ TimesOut \/ TrayStops \/ \E c \in Commands : Ask(c)
    PROVE  IpcInv'
<1> USE DEF IpcInv, OneExchange, SameCommand
<1>1. CASE ServerTakes
  BY <1>1 DEF ServerTakes, clientVars
<1>2. CASE ServerReads
  BY <1>2 DEF ServerReads, ServerFinishes, clientVars
<1>3. CASE ServerDisconnected
  BY <1>3 DEF ServerDisconnected, ServerFinishes, clientVars
<1>4. CASE TrayEnds
  BY <1>4 DEF TrayEnds, clientVars
<1>5. CASE Answered
  BY <1>5 DEF Answered, Return, clientVars, pipeVars
<1>6. CASE TimesOut
  BY <1>6 DEF TimesOut, Return, clientVars, pipeVars
<1>7. CASE TrayStops
  BY <1>7 DEF TrayStops, Return, clientVars, pipeVars
<1>8. ASSUME NEW c \in Commands, Ask(c) PROVE IpcInv'
  BY <1>8 DEF Ask, clientVars, pipeVars
<1>9. CASE ServerStops
  BY <1>9 DEF ServerStops, clientVars
<1>10. QED
  BY <1>1, <1>2, <1>3, <1>4, <1>5, <1>6, <1>7, <1>8, <1>9 DEF TrayServer

\* So does every step of the pipe, the service's side included.
LEMMA ClientKeepsIpc ==
    ASSUME IpcInv, IpcStep
    PROVE  IpcInv'
<1> USE DEF IpcInv, OneExchange, SameCommand
<1>1. CASE TrayServer \/ Answered \/ TimesOut \/ TrayStops \/ \E c \in Commands : Ask(c)
  BY <1>1, TrayKeepsIpc
<1>2. CASE Open
  BY <1>2 DEF Open
<1>3. CASE Rejects
  BY <1>3 DEF Rejects, trayVars
<1>4. CASE BeginRead
  BY <1>4 DEF BeginRead, trayVars, pipeVars
<1>5. CASE ReadCommand
  BY <1>5 DEF ReadCommand, trayVars
<1>6. CASE ReadFails
  BY <1>6 DEF ReadFails, trayVars
<1>7. CASE ClientEnds
  BY <1>7 DEF ClientEnds, trayVars, pipeVars
<1>8. CASE client = "handling" /\ Reply /\ UNCHANGED <<trayVars, clientStop, request>>
  BY <1>8 DEF Reply, trayVars
<1>9. CASE StopClient /\ UNCHANGED <<trayVars, handled, request, response>>
  BY <1>9 DEF StopClient, trayVars
<1>10. CASE client = "off" /\ StartClient /\ UNCHANGED <<trayVars, handled, pipeVars>>
  BY <1>10 DEF StartClient, trayVars, pipeVars
<1>11. CASE ClientDies /\ UNCHANGED <<trayVars, request, response>>
  BY <1>11 DEF ClientDies, trayVars
<1>12. QED
  BY <1>1, <1>2, <1>3, <1>4, <1>5, <1>6, <1>7, <1>8, <1>9, <1>10, <1>11 DEF IpcStep, ClientStep

\* What a command of the Gateway is for the pipe: its answer, or nothing yet.
LEMMA CommandIsIpc ==
    ASSUME Command
    PROVE  IpcStep \/ UNCHANGED ipcVars
<1> USE DEF IpcStep, Answer, Handling
<1>1. CASE SetHost
  BY <1>1 DEF SetHost
<1>2. CASE Inquire
  BY <1>2 DEF Inquire
<1>3. CASE BeginPairing
  BY <1>3 DEF BeginPairing
<1>4. CASE StartPairing
  BY <1>4 DEF StartPairing
<1>5. CASE BeginUnpairing
  BY <1>5 DEF BeginUnpairing
<1>6. CASE Erase
  BY <1>6 DEF Erase
<1>7. CASE FinishErase
  BY <1>7 DEF FinishErase
<1>8. QED
  BY <1>1, <1>2, <1>3, <1>4, <1>5, <1>6, <1>7 DEF Command
-----------------------------------------------------------------------------
(***************************************************************************)
(* paired-hosts.json.                                                      *)
(***************************************************************************)
HostsTypeOK ==
    /\ {file, tmp} \subseteq {NoFile, Unreadable} \cup SUBSET Hosts
    /\ writer \in [Threads -> [pc : {"idle", "write", "remove", "rename"},
                              hosts : SUBSET Hosts, about : SUBSET Hosts]]

\* What a rewrite makes of the trusted hosts.
Changed(t) ==
    IF t = "pairing" THEN trusted \cup writer[t].about ELSE trusted \ writer[t].about

\* Rewrites that do not overlap follow each other: whoever writes brings everything that
\* is trusted, changed by the host it is about; and whatever failed or was cut off, the
\* file has all that is trusted, outside the gap between a removal and its rename.
FollowInv ==
    /\ HostsTypeOK
    /\ disturbed \in BOOLEAN
    /\ trusted \in SUBSET Hosts
    /\ ~disturbed =>
          /\ ~(Writing("pairing") /\ Writing("management"))
          /\ \A t \in Threads : Writing(t) => writer[t].hosts = Changed(t)
          /\ \A t \in Threads : writer[t].pc \in {"remove", "rename"}
                                  => tmp \in {writer[t].hosts, Unreadable}
          /\ (\A t \in Threads : ~Gap(t)) => ReadHosts = trusted

HostsStep ==
    \/ \E h \in Hosts : Save("pairing", h) \/ Remove("management", h)
    \/ \E t \in Threads : WriteStep(t) \/ Rename(t) \/ RewriteFails(t)
    \/ HostsCrash

\* A rewrite of paired-hosts.json that begins with the trusted hosts, or disturbs
\* another one, keeps the file and its writers in step.
LEMMA RewriteKeepsFollow ==
    ASSUME FollowInv, NEW t \in Threads, NEW hosts \in SUBSET Hosts, NEW h \in Hosts,
           Rewrite(t, hosts, h),
           hosts = (IF t = "pairing" THEN ReadHosts \cup {h} ELSE ReadHosts \ {h})
    PROVE  FollowInv'
<1>1. /\ writer' = [writer EXCEPT ![t] = [pc |-> "write", hosts |-> hosts, about |-> {h}]]
      /\ UNCHANGED <<file, tmp, trusted>>
  BY DEF Rewrite
<1>2. writer'[t] = [pc |-> "write", hosts |-> hosts, about |-> {h}]
      /\ \A u \in Threads \ {t} : writer'[u] = writer[u]
  BY <1>1 DEF FollowInv, HostsTypeOK
<1>3. HostsTypeOK' /\ trusted' \in SUBSET Hosts
  BY <1>1 DEF FollowInv, HostsTypeOK
<1>4. disturbed' = (disturbed \/ \E u \in Threads : Writing(u)) /\ disturbed' \in BOOLEAN
  BY DEF Rewrite, FollowInv
<1>5. ASSUME ~disturbed'
      PROVE  /\ ~(Writing("pairing")' /\ Writing("management")')
             /\ \A u \in Threads : Writing(u)' => writer'[u].hosts = Changed(u)'
             /\ \A u \in Threads : writer'[u].pc \notin {"remove", "rename"}
             /\ ReadHosts' = trusted'
  <2>1. \A u \in Threads : ~Writing(u)
    BY <1>4, <1>5
  <2>2. \A u \in Threads \ {t} : writer'[u].pc = "idle"
    BY <1>2, <2>1 DEF Writing
  <2>3. ReadHosts = trusted
    BY <1>4, <1>5, <2>1 DEF FollowInv, Gap, Writing
  <2>4. ReadHosts' = trusted'
    BY <1>1, <2>3 DEF ReadHosts
  <2>5. writer'[t].hosts = Changed(t)'
    BY <1>1, <1>2, <2>3 DEF Changed
  <2>6. QED
    BY <1>2, <2>2, <2>4, <2>5 DEF Threads, Writing
<1>6. QED
  BY <1>3, <1>4, <1>5 DEF FollowInv

\* A rewrite that ends keeps them in step: the rename brings what was to change, and a
\* failure changes nothing, or the gap it leaves is known.
LEMMA EndKeepsFollow ==
    ASSUME FollowInv, NEW t \in Threads, Rename(t) \/ RewriteFails(t)
    PROVE  FollowInv'
<1>1. writer' = [writer EXCEPT ![t] = Idle]
  BY DEF Rename, RewriteFails, WriteFails, RenameFails
<1>2. writer'[t] = Idle /\ \A u \in Threads \ {t} : writer'[u] = writer[u]
  BY <1>1 DEF FollowInv, HostsTypeOK
<1>3. Writing(t)
  BY DEF Rename, RewriteFails, WriteFails, RenameFails, Writing
<1>4. HostsTypeOK' /\ trusted' \in SUBSET Hosts
  <2>1. writer' \in [Threads -> [pc : {"idle", "write", "remove", "rename"},
                                hosts : SUBSET Hosts, about : SUBSET Hosts]]
    BY <1>1 DEF FollowInv, HostsTypeOK, Idle
  <2>2. {file', tmp'} \subseteq {NoFile, Unreadable} \cup SUBSET Hosts
    BY DEF FollowInv, HostsTypeOK, Rename, RewriteFails, WriteFails, RenameFails
  <2>3. writer[t].about \in SUBSET Hosts
    BY DEF FollowInv, HostsTypeOK
  <2>4. trusted' \in SUBSET Hosts
    BY <2>3 DEF FollowInv, Rename, RewriteFails, WriteFails, RenameFails
  <2>5. QED
    BY <2>1, <2>2, <2>4 DEF HostsTypeOK
<1>5. disturbed' \in BOOLEAN /\ (disturbed => disturbed')
  BY DEF FollowInv, Rename, RewriteFails, WriteFails, RenameFails
<1>6. ASSUME ~disturbed' PROVE \A u \in Threads : writer'[u].pc = "idle"
  <2>1. \A u \in Threads \ {t} : ~Writing(u)
    BY <1>3, <1>5, <1>6 DEF FollowInv, Threads
  <2>2. QED
    BY <1>2, <2>1 DEF Writing, Idle
<1>7. ASSUME ~disturbed' PROVE ReadHosts' = trusted'
  <2>1. CASE Rename(t)
    <3>1. tmp = writer[t].hosts /\ writer[t].hosts = Changed(t)
      BY <1>3, <1>5, <1>7, <2>1 DEF FollowInv, Rename
    <3>2. file' = Changed(t) /\ trusted' = Changed(t)
      BY <2>1, <3>1 DEF Rename, Changed
    <3>3. file' \in SUBSET Hosts
      BY <1>4, <3>2
    <3>4. QED
      BY <3>2, <3>3, HostsAssumption DEF ReadHosts
  <2>2. CASE RewriteFails(t)
    <3>1. ~Gap(t) /\ UNCHANGED <<file, trusted>>
      BY <1>7, <2>2 DEF RewriteFails, WriteFails, RenameFails, Gap
    <3>2. \A u \in Threads : ~Gap(u)
      BY <1>3, <1>5, <1>7, <3>1 DEF FollowInv, Threads, Gap, Writing
    <3>3. ReadHosts = trusted
      BY <1>5, <1>7, <3>2 DEF FollowInv
    <3>4. QED
      BY <3>1, <3>3 DEF ReadHosts
  <2>3. QED
    BY <2>1, <2>2
<1>8. QED
  BY <1>4, <1>5, <1>6, <1>7 DEF FollowInv, Writing, Threads

\* So does a step of a rewrite that is under way.
LEMMA WriteStepKeepsFollow ==
    ASSUME FollowInv, NEW t \in Threads, WriteStep(t)
    PROVE  FollowInv'
<1>1. PICK pc \in {"remove", "rename"} : writer' = [writer EXCEPT ![t].pc = pc]
  BY DEF WriteStep, WriteTemporary, RemoveOld
<1>2. /\ writer'[t] = [writer[t] EXCEPT !.pc = pc]
      /\ \A u \in Threads \ {t} : writer'[u] = writer[u]
  BY <1>1 DEF FollowInv, HostsTypeOK
<1>3. /\ writer'[t].pc = pc /\ writer'[t].hosts = writer[t].hosts
      /\ writer'[t].about = writer[t].about
  BY <1>2 DEF FollowInv, HostsTypeOK
<1>4. Writing(t) /\ UNCHANGED <<trusted, disturbed>>
  BY DEF WriteStep, WriteTemporary, RemoveOld, Writing
<1>5. HostsTypeOK'
  <2>1. writer' \in [Threads -> [pc : {"idle", "write", "remove", "rename"},
                                hosts : SUBSET Hosts, about : SUBSET Hosts]]
    BY <1>1 DEF FollowInv, HostsTypeOK
  <2>2. {file', tmp'} \subseteq {NoFile, Unreadable} \cup SUBSET Hosts
    BY DEF FollowInv, HostsTypeOK, WriteStep, WriteTemporary, RemoveOld
  <2>3. QED
    BY <2>1, <2>2 DEF HostsTypeOK
<1>6. ASSUME ~disturbed
      PROVE  /\ ~(Writing("pairing")' /\ Writing("management")')
             /\ \A u \in Threads : Writing(u)' => writer'[u].hosts = Changed(u)'
             /\ \A u \in Threads : writer'[u].pc \in {"remove", "rename"}
                                     => tmp' \in {writer'[u].hosts, Unreadable}
             /\ (\A u \in Threads : ~Gap(u)') => ReadHosts' = trusted'
  <2>1. \A u \in Threads \ {t} : writer'[u].pc = "idle" /\ writer[u].pc = "idle"
    BY <1>2, <1>4, <1>6 DEF FollowInv, Threads, Writing
  <2>2. writer'[t].hosts = Changed(t)'
    BY <1>3, <1>4, <1>6 DEF FollowInv, Changed
  <2>3. tmp' \in {writer'[t].hosts, Unreadable}
    <3>1. CASE WriteTemporary(t)
      BY <1>3, <3>1 DEF WriteTemporary
    <3>2. CASE RemoveOld(t)
      BY <1>3, <1>6, <3>2 DEF RemoveOld, FollowInv
    <3>3. QED
      BY <3>1, <3>2 DEF WriteStep
  <2>4. ASSUME ~Gap(t)' PROVE ReadHosts' = trusted'
    <3>1. writer[t].pc # "rename" /\ file' = file
      <4>1. CASE WriteTemporary(t)
        BY <4>1 DEF WriteTemporary
      <4>2. CASE RemoveOld(t)
        <5>1. writer'[t].pc = "rename"
          BY <4>2 DEF RemoveOld, FollowInv, HostsTypeOK
        <5>2. file' # NoFile
          BY <2>4, <5>1 DEF Gap
        <5>3. QED
          BY <4>2, <5>2 DEF RemoveOld
      <4>3. QED
        BY <4>1, <4>2 DEF WriteStep
    <3>2. \A u \in Threads : ~Gap(u)
      BY <2>1, <3>1 DEF Gap
    <3>3. ReadHosts = trusted
      BY <1>6, <3>2 DEF FollowInv
    <3>4. QED
      BY <1>4, <3>1, <3>3 DEF ReadHosts
  <2>5. QED
    BY <2>1, <2>2, <2>3, <2>4 DEF Threads, Writing
<1>7. QED
  BY <1>4, <1>5, <1>6 DEF FollowInv

\* Every step on the trusted hosts and their file does.
LEMMA HostsKeepFollow == ASSUME FollowInv, HostsStep PROVE FollowInv'
<1>1. ReadHosts \in SUBSET Hosts
  BY DEF FollowInv, HostsTypeOK, ReadHosts
<1>2. ASSUME NEW h \in Hosts, Save("pairing", h) PROVE FollowInv'
  BY <1>1, <1>2, RewriteKeepsFollow DEF Save, Threads
<1>3. ASSUME NEW h \in Hosts, Remove("management", h) PROVE FollowInv'
  BY <1>1, <1>3, RewriteKeepsFollow DEF Remove, Threads
<1>4. CASE HostsCrash
  <2>1. /\ \A t \in Threads : writer'[t] = Idle
        /\ UNCHANGED <<file, tmp, trusted>>
        /\ disturbed' = (disturbed \/ \E t \in Threads : Gap(t))
    BY <1>4 DEF HostsCrash
  <2>2. HostsTypeOK'
    BY <1>4 DEF HostsCrash, FollowInv, HostsTypeOK, Idle
  <2>3. ~disturbed' => ReadHosts' = trusted'
    BY <2>1 DEF FollowInv, ReadHosts
  <2>4. QED
    BY <2>1, <2>2, <2>3 DEF FollowInv, Writing, Threads, Idle
<1>5. QED
  BY <1>2, <1>3, <1>4, WriteStepKeepsFollow, EndKeepsFollow DEF HostsStep
-----------------------------------------------------------------------------
(***************************************************************************)
(* Trust.                                                                  *)
(***************************************************************************)
Earned(names) == names \notin {NoFile, Unreadable} => names \subseteq earned

\* Only a host that the pairing thread has brought through every check is written, and
\* whatever is rewritten was in the file before.
EarnInv ==
    /\ HostsTypeOK
    /\ pairingHost \in Hosts /\ pinEntered \in BOOLEAN
    /\ \A t \in Threads : writer[t].hosts \subseteq earned
    /\ Earned(file) /\ Earned(tmp)
    /\ pairingPc = "clientpairingsecret" => pinEntered = TRUE
    /\ pairingPc \in {"pairchallenge", "save", "saving", "verify"} => pairingHost \in earned
    /\ pairingResult = "paired" => pairingHost \in earned

earnVars == <<pairingPc, pairingHost, pinEntered, pairingResult, earned, file, tmp, writer>>

EarnStep ==
    \/ PairingThread
    \/ \E h \in Hosts : (StartThread(h) \/ StartFails) /\ UNCHANGED hostsVars
    \/ \E h \in Hosts : Remove("management", h) /\ UNCHANGED pairingVars
    \/ /\ WriteStep("management") \/ Rename("management") \/ RewriteFails("management")
       /\ UNCHANGED pairingVars
    \/ pairingResult' = "not-started" /\ UNCHANGED <<pairingPc, pairingHost, pinEntered, earned, hostsVars>>
    \/ HostsCrash /\ PairingCrash

\* A step of a rewrite leaves every trusted and written host earned.
LEMMA WriteStepKeepsEarn ==
    ASSUME EarnInv, NEW t \in Threads, WriteStep(t) \/ Rename(t) \/ RewriteFails(t),
           UNCHANGED <<pairingHost, earned>>,
           \/ pairingPc' = pairingPc /\ UNCHANGED pinEntered
           \/ pairingPc' = "off" /\ pinEntered' = FALSE
           \/ pairingPc = "saving" /\ pairingPc' = "verify" /\ UNCHANGED pinEntered,
           pairingResult' \in {pairingResult, "failed"}
    PROVE  EarnInv'
<1>1. CASE WriteTemporary(t)
  BY <1>1, HostsAssumption DEF WriteTemporary, EarnInv, HostsTypeOK, Earned
<1>2. CASE RemoveOld(t)
  BY <1>2 DEF RemoveOld, EarnInv, HostsTypeOK, Earned
<1>3. CASE Rename(t)
  BY <1>3 DEF Rename, EarnInv, HostsTypeOK, Earned, Idle
<1>4. CASE RenameFails(t)
  BY <1>4 DEF RenameFails, EarnInv, HostsTypeOK, Earned, Idle
<1>5. CASE WriteFails(t)
  BY <1>5 DEF WriteFails, EarnInv, HostsTypeOK, Earned, Idle
<1>6. QED
  BY <1>1, <1>2, <1>3, <1>4, <1>5 DEF WriteStep, RewriteFails

\* The pairing requests leave every trusted host earned.
LEMMA RequestsKeepEarn ==
    ASSUME EarnInv,
           RequestFails \/ GetServerCert \/ ClientChallenge \/ ServerChallengeResponse
              \/ ClientPairingSecret \/ PairChallenge \/ VerifyPairing
    PROVE  EarnInv'
<1> USE DEF EarnInv, HostsTypeOK, Earned, Finish, hostsVars
<1>1. CASE RequestFails
  BY <1>1 DEF RequestFails
<1>2. CASE GetServerCert
  BY <1>2 DEF GetServerCert
<1>3. CASE ClientChallenge
  BY <1>3 DEF ClientChallenge
<1>4. CASE ServerChallengeResponse
  BY <1>4 DEF ServerChallengeResponse
<1>5. CASE ClientPairingSecret
  BY <1>5 DEF ClientPairingSecret
<1>6. CASE PairChallenge
  BY <1>6 DEF PairChallenge
<1>7. CASE VerifyPairing
  BY <1>7 DEF VerifyPairing
<1>8. QED
  BY <1>1, <1>2, <1>3, <1>4, <1>5, <1>6, <1>7

\* Every step on pairing and on the trusted hosts does.
LEMMA StepKeepsEarn == ASSUME EarnInv, EarnStep PROVE EarnInv'
<1>1. CASE RequestFails \/ GetServerCert \/ ClientChallenge \/ ServerChallengeResponse
              \/ ClientPairingSecret \/ PairChallenge \/ VerifyPairing
  BY <1>1, RequestsKeepEarn
<1>2. CASE SavePairing
  <2>1. pairingHost \in earned /\ pairingHost \in Hosts
        /\ ReadHosts \subseteq earned /\ ReadHosts \subseteq Hosts
    BY <1>2 DEF SavePairing, EarnInv, HostsTypeOK, Earned, ReadHosts
  <2>2. CASE Save("pairing", pairingHost) /\ pairingPc' = "saving"
             /\ UNCHANGED <<pinEntered, pairingResult>>
    <3>1. writer' = [writer EXCEPT !["pairing"] =
             [pc |-> "write", hosts |-> ReadHosts \cup {pairingHost}, about |-> {pairingHost}]]
      BY <2>2 DEF Save, Rewrite
    <3>2. QED
      BY <1>2, <2>1, <2>2, <3>1
      DEF SavePairing, Save, Rewrite, EarnInv, HostsTypeOK, Earned, Threads
  <2>3. CASE Finish("failed") /\ UNCHANGED hostsVars
    BY <1>2, <2>3 DEF SavePairing, Finish, EarnInv, HostsTypeOK, Earned, hostsVars
  <2>4. QED
    BY <1>2, <2>2, <2>3 DEF SavePairing
<1>3. CASE WriteStepPairing
  BY <1>3, WriteStepKeepsEarn DEF WriteStepPairing, pairingVars, Threads
<1>4. CASE SavedPairing
  BY <1>4, WriteStepKeepsEarn DEF SavedPairing, Finish, Threads
<1>5. ASSUME NEW h \in Hosts, StartThread(h) \/ StartFails, UNCHANGED hostsVars PROVE EarnInv'
  BY <1>5 DEF StartThread, StartFails, EarnInv, HostsTypeOK, Earned, hostsVars
<1>6. ASSUME NEW h \in Hosts, Remove("management", h), UNCHANGED pairingVars PROVE EarnInv'
  <2>1. ReadHosts \subseteq earned /\ ReadHosts \subseteq Hosts
    BY DEF EarnInv, HostsTypeOK, Earned, ReadHosts
  <2>2. writer' = [writer EXCEPT !["management"] =
           [pc |-> "write", hosts |-> ReadHosts \ {h}, about |-> {h}]]
    BY <1>6 DEF Remove, Rewrite
  <2>3. QED
    BY <1>6, <2>1, <2>2 DEF Remove, Rewrite, EarnInv, HostsTypeOK, Earned, Threads, pairingVars
<1>7. CASE /\ WriteStep("management") \/ Rename("management") \/ RewriteFails("management")
           /\ UNCHANGED pairingVars
  BY <1>7, WriteStepKeepsEarn DEF pairingVars, Threads
<1>8. CASE /\ pairingResult' = "not-started"
           /\ UNCHANGED <<pairingPc, pairingHost, pinEntered, earned, hostsVars>>
  BY <1>8 DEF EarnInv, HostsTypeOK, Earned, hostsVars
<1>9. CASE HostsCrash /\ PairingCrash
  BY <1>9 DEF HostsCrash, PairingCrash, EarnInv, HostsTypeOK, Earned, Idle
<1>10. QED
  BY <1>1, <1>2, <1>3, <1>4, <1>5, <1>6, <1>7, <1>8, <1>9 DEF EarnStep, PairingThread
-----------------------------------------------------------------------------
(***************************************************************************)
(* Threads.                                                                *)
(***************************************************************************)
\* The pairing thread has its object and its flag for as long as it lives; a rewrite of
\* the file belongs to the place of its thread; and between the detection and the start
\* of a pairing, under no lock, no pairing can begin.
Owners ==
    /\ pairingPc # "off" => pairingInProgress = TRUE /\ threadObject = "joinable"
    /\ pairingInProgress \in BOOLEAN /\ aborted = FALSE
    /\ Writing("pairing") <=> pairingPc = "saving"
    /\ Writing("management") <=> step = "write"
    /\ step # "none" => client = "handling"
    /\ step \in {"erase", "write"} => handled = "unpair"
    /\ step = "detect" /\ handled = "pair" => threadObject = "none" /\ pairingPc = "off"

\* Which threads there are in each place of the service's main thread.
Places ==
    /\ scm = "stopped" <=> mainPc = "off"
    /\ mainPc \in {"off", "load", "start", "destroy", "report"} => client = "off"
    /\ mainPc \in {"off", "load", "start", "join-management", "destroy", "report"}
          => statusThread = "off"
    /\ mainPc \in {"off", "load", "start", "report"} => pairingPc = "off"

OwnInv == Owners /\ Places

\* A step on the pipe keeps the threads owned if the client's place allows it.
LEMMA PipeKeepsOwn ==
    ASSUME OwnInv, IpcStep,
           UNCHANGED <<hostsVars, pairingVars, step, scm, mainPc, statusThread>>,
           client = "off" => client' = "off",
           client = "handling" => client' = "handling" /\ handled' = handled
    PROVE  OwnInv'
BY DEF OwnInv, Owners, Places, hostsVars, pairingVars, Writing

\* A step of the pairing thread keeps the threads owned.
LEMMA PairKeepsOwn == ASSUME OwnInv, HostsTypeOK, HostsTypeOK', Pair PROVE OwnInv'
<1> USE DEF OwnInv, Owners, Places, Pair, InProcess, serviceVars, mainVars, statusVars, ipcVars,
            trayVars, clientVars, pipeVars, Writing, Finish, hostsVars
<1>1. CASE RequestFails
  BY <1>1 DEF RequestFails, Requests
<1>2. CASE GetServerCert
  BY <1>2 DEF GetServerCert
<1>3. CASE ClientChallenge
  BY <1>3 DEF ClientChallenge
<1>4. CASE ServerChallengeResponse
  BY <1>4 DEF ServerChallengeResponse
<1>5. CASE ClientPairingSecret
  BY <1>5 DEF ClientPairingSecret
<1>6. CASE PairChallenge
  BY <1>6 DEF PairChallenge
<1>7. CASE VerifyPairing
  BY <1>7 DEF VerifyPairing
<1>8. CASE SavePairing
  <2>1. CASE Save("pairing", pairingHost) /\ pairingPc' = "saving"
             /\ UNCHANGED pairingInProgress
    <3>1. writer'["pairing"].pc = "write" /\ writer'["management"] = writer["management"]
      BY <2>1 DEF Save, Rewrite, Threads, HostsTypeOK
    <3>2. QED
      BY <1>8, <2>1, <3>1 DEF SavePairing
  <2>2. CASE Finish("failed") /\ UNCHANGED hostsVars
    BY <1>8, <2>2 DEF SavePairing
  <2>3. QED
    BY <1>8, <2>1, <2>2 DEF SavePairing
<1>9. CASE WriteStepPairing
  BY <1>9 DEF WriteStepPairing, WriteStep, WriteTemporary, RemoveOld, Threads, pairingVars, HostsTypeOK
<1>10. CASE SavedPairing
  <2>1. writer'["pairing"] = Idle /\ writer'["management"] = writer["management"]
    BY <1>10 DEF SavedPairing, Rename, RewriteFails, WriteFails, RenameFails, Threads,
                 HostsTypeOK
  <2>2. /\ pairingPc = "saving" /\ UNCHANGED <<threadObject, aborted, step, client, handled>>
        /\ \/ pairingPc' = "off" /\ pairingInProgress' = FALSE
           \/ pairingPc' = "verify" /\ UNCHANGED pairingInProgress
    BY <1>10 DEF SavedPairing
  <2>3. UNCHANGED <<scm, mainPc, statusThread>>
    OBVIOUS
  <2> HIDE DEF Pair, InProcess
  <2>4. Owners'
    <3>1. ~Writing("pairing")' /\ (Writing("management")' <=> Writing("management"))
      BY <2>1 DEF Idle
    <3>2. pairingPc' # "off" => pairingInProgress' = TRUE /\ threadObject' = "joinable"
      BY <2>2
    <3>3. pairingInProgress' \in BOOLEAN
      BY <2>2
    <3>4. QED
      BY <2>2, <3>1, <3>2, <3>3
  <2>5. Places'
    BY <2>2, <2>3
  <2>6. QED
    BY <2>4, <2>5
<1>11. QED
  BY <1>1, <1>2, <1>3, <1>4, <1>5, <1>6, <1>7, <1>8, <1>9, <1>10 DEF PairingThread

\* A step of a management command keeps the threads owned.
LEMMA CommandKeepsOwn == ASSUME OwnInv, HostsTypeOK, HostsTypeOK', Command PROVE OwnInv'
<1> USE DEF OwnInv, Owners, Places, Answer, Reply, Handling, mainVars, statusVars, ipcVars,
            trayVars, clientVars, pipeVars, Writing, hostsVars, pairingVars
<1>1. CASE SetHost
  BY <1>1 DEF SetHost
<1>2. CASE Inquire
  BY <1>2 DEF Inquire
<1>3. CASE BeginPairing
  <2>1. CASE pairingInProgress = TRUE
    BY <1>3, <2>1 DEF BeginPairing
  <2>2. CASE pairingInProgress = FALSE
    <3>1. /\ pairingPc = "off" /\ threadObject' = "none" /\ step' = "detect" /\ step = "none"
          /\ UNCHANGED <<pairingPc, pairingInProgress, aborted, writer, client, handled,
                         scm, mainPc, statusThread>>
      BY <1>3, <2>2 DEF BeginPairing, JoinFinished
    <3>2. QED
      BY <1>3, <2>2, <3>1 DEF BeginPairing
  <2>3. QED
    BY <2>1, <2>2
<1>4. CASE StartPairing
  <2>1. /\ client = "handling" /\ handled = "pair" /\ step = "detect" /\ step' = "none"
        /\ threadObject = "none" /\ pairingPc = "off" /\ client' = "seeking"
        /\ UNCHANGED <<writer, scm, mainPc, statusThread>>
    BY <1>4 DEF StartPairing
  <2>2. CASE UNCHANGED pairingVars
    BY <2>1, <2>2
  <2>3. CASE StartThread(configured)
    <3>1. /\ pairingPc' = "getservercert" /\ pairingInProgress' = TRUE
          /\ threadObject' = "joinable" /\ aborted' = FALSE
      BY <2>1, <2>3 DEF StartThread
    <3>2. QED
      BY <2>1, <3>1
  <2>4. CASE StartFails
    BY <2>1, <2>4 DEF StartFails
  <2>5. QED
    BY <1>4, <2>2, <2>3, <2>4 DEF StartPairing
<1>5. CASE BeginUnpairing
  BY <1>5 DEF BeginUnpairing
<1>6. CASE Erase
  <2>1. CASE Remove("management", configured) /\ step' = "write"
             /\ UNCHANGED <<ipcVars, mainVars, statusVars>>
    <3>1. writer'["management"].pc = "write" /\ writer'["pairing"] = writer["pairing"]
      BY <2>1 DEF Remove, Rewrite, Threads, HostsTypeOK
    <3>2. QED
      BY <1>6, <2>1, <3>1 DEF Erase
  <2>2. CASE Answer /\ UNCHANGED hostsVars
    BY <1>6, <2>2 DEF Erase
  <2>3. QED
    BY <1>6, <2>1, <2>2 DEF Erase
<1>7. CASE FinishErase
  <2>1. CASE WriteStep("management") /\ UNCHANGED <<step, ipcVars, mainVars, statusVars>>
    BY <1>7, <2>1 DEF FinishErase, WriteStep, WriteTemporary, RemoveOld, Threads, HostsTypeOK
  <2>2. CASE (Rename("management") \/ RewriteFails("management")) /\ Answer
    <3>1. writer'["management"] = Idle /\ writer'["pairing"] = writer["pairing"]
      BY <2>2 DEF Rename, RewriteFails, WriteFails, RenameFails, Threads, HostsTypeOK
    <3>2. ~Writing("management")' /\ (Writing("pairing")' <=> Writing("pairing"))
      BY <3>1 DEF Idle
    <3>3. QED
      BY <1>7, <2>2, <3>2 DEF FinishErase
  <2>3. QED
    BY <1>7, <2>1, <2>2 DEF FinishErase
<1>8. QED
  BY <1>1, <1>2, <1>3, <1>4, <1>5, <1>6, <1>7 DEF Command

\* The service's start, stop and status steps keep the threads owned.
LEMMA MainKeepsOwn ==
    ASSUME OwnInv, Main \/ StartService \/ ControlReports \/ ServeStatus
    PROVE  OwnInv'
<1> USE DEF OwnInv, Owners, Places, Goto, Writing, hostsVars, pairingVars, statusVars, ipcVars,
            trayVars, clientVars, pipeVars
<1>1. CASE Load
  BY <1>1 DEF Load
<1>2. CASE StartThreads
  BY <1>2 DEF StartThreads, StartClient
<1>3. CASE Ready
  BY <1>3 DEF Ready
<1>4. CASE ControlSignals
  BY <1>4 DEF ControlSignals
<1>5. CASE StopStatus
  BY <1>5 DEF StopStatus
<1>6. CASE StopManagement
  BY <1>6 DEF StopManagement, StopClient
<1>7. CASE JoinManagement
  BY <1>7 DEF JoinManagement
<1>8. CASE Destroy
  BY <1>8 DEF Destroy
<1>9. CASE Report
  BY <1>9 DEF Report
<1>10. CASE StartService
  BY <1>10 DEF StartService
<1>11. CASE ControlReports
  BY <1>11 DEF ControlReports
<1>12. CASE ServeStatus
  BY <1>12 DEF ServeStatus, mainVars
<1>13. QED
  BY <1>1, <1>2, <1>3, <1>4, <1>5, <1>6, <1>7, <1>8, <1>9, <1>10, <1>11, <1>12 DEF Main

\* A crash of the process keeps the threads owned.
LEMMA CrashKeepsOwn == ASSUME OwnInv, Crash PROVE OwnInv'
BY DEF Crash, ClientDies, HostsCrash, PairingCrash, Goto, OwnInv, Owners, Places, Writing,
       Threads, Idle
-----------------------------------------------------------------------------
(***************************************************************************)
(* A step of the process, for each of its parts.                           *)
(***************************************************************************)
ServiceInv == configured \in Hosts /\ IpcInv /\ FollowInv /\ EarnInv /\ OwnInv

\* A step of the service is a step on the pipe or leaves it alone.
LEMMA NextIsIpc == ASSUME OwnInv, Next PROVE IpcStep \/ UNCHANGED ipcVars
<1>1. CASE TraySteps \/ User \/ Connect
  BY <1>1 DEF TraySteps, User, Connect, IpcStep
<1>2. CASE Command
  BY <1>2, CommandIsIpc
<1>3. CASE Pair \/ Sunshine \/ ServeStatus \/ StartService \/ ControlReports
  BY <1>3 DEF Pair, Sunshine, ServeStatus, StartService, ControlReports
<1>4. CASE StartThreads
  BY <1>4 DEF StartThreads, IpcStep, OwnInv, Places
<1>5. CASE StopManagement
  BY <1>5 DEF StopManagement, IpcStep
<1>6. CASE Load \/ Ready \/ ControlSignals \/ StopStatus \/ JoinManagement \/ Destroy \/ Report
  BY <1>6 DEF Load, Ready, ControlSignals, StopStatus, JoinManagement, Destroy, Report
<1>7. CASE Crash
  BY <1>7 DEF Crash, IpcStep
<1>8. QED
  BY <1>1, <1>2, <1>3, <1>4, <1>5, <1>6, <1>7 DEF Next, Main

\* A management command is a step on the trusted hosts or leaves them alone.
LEMMA CommandIsHosts ==
    ASSUME configured \in Hosts, Command
    PROVE  /\ HostsStep \/ UNCHANGED hostsVars
           /\ EarnStep \/ UNCHANGED earnVars
           /\ configured' \in Hosts
<1> USE DEF earnVars, hostsVars, pairingVars
<1>1. CASE SetHost \/ Inquire \/ BeginUnpairing
  BY <1>1 DEF SetHost, Inquire, BeginUnpairing
<1>2. CASE BeginPairing
  BY <1>2 DEF BeginPairing
<1>3. CASE StartPairing
  BY <1>3 DEF StartPairing, EarnStep
<1>4. CASE Erase
  BY <1>4 DEF Erase, EarnStep, HostsStep, Threads
<1>5. CASE FinishErase
  BY <1>5 DEF FinishErase, EarnStep, HostsStep, Threads
<1>6. QED
  BY <1>1, <1>2, <1>3, <1>4, <1>5 DEF Command

\* The same of the pairing thread.
LEMMA PairIsHosts ==
    ASSUME pairingHost \in Hosts, PairingThread
    PROVE  HostsStep \/ UNCHANGED hostsVars
<1>1. CASE RequestFails \/ GetServerCert \/ ClientChallenge \/ ServerChallengeResponse
              \/ ClientPairingSecret \/ PairChallenge \/ VerifyPairing
  BY <1>1 DEF RequestFails, GetServerCert, ClientChallenge, ServerChallengeResponse,
              ClientPairingSecret, PairChallenge, VerifyPairing
<1>2. CASE SavePairing
  BY <1>2 DEF SavePairing, HostsStep, Threads
<1>3. CASE WriteStepPairing
  BY <1>3 DEF WriteStepPairing, HostsStep, Threads
<1>4. CASE SavedPairing
  BY <1>4 DEF SavedPairing, HostsStep, Threads
<1>5. QED
  BY <1>1, <1>2, <1>3, <1>4 DEF PairingThread

\* The same of every step of the service.
LEMMA NextIsHosts ==
    ASSUME configured \in Hosts, pairingHost \in Hosts, Next
    PROVE  /\ HostsStep \/ UNCHANGED hostsVars
           /\ EarnStep \/ UNCHANGED earnVars
           /\ configured' \in Hosts
<1> USE DEF earnVars
<1>1. CASE TraySteps \/ User \/ Connect
  BY <1>1 DEF TraySteps, User, Connect, InProcess, serviceVars, hostsVars, pairingVars
<1>2. CASE Command
  BY <1>2, CommandIsHosts
<1>3. CASE Pair
  BY <1>3, PairIsHosts DEF Pair, InProcess, serviceVars, EarnStep
<1>4. CASE Sunshine
  BY <1>4 DEF Sunshine, SunshineForgets, InProcess, serviceVars, hostsVars
<1>5. CASE ServeStatus \/ StartService \/ ControlReports
  BY <1>5 DEF ServeStatus, StartService, ControlReports, hostsVars, pairingVars
<1>6. CASE Load \/ StartThreads \/ Ready \/ ControlSignals \/ StopStatus \/ StopManagement
              \/ JoinManagement \/ Destroy
  BY <1>6 DEF Load, StartThreads, Ready, ControlSignals, StopStatus, StopManagement,
              JoinManagement, Destroy, hostsVars, pairingVars
<1>7. CASE Report
  BY <1>7 DEF Report, EarnStep
<1>8. CASE Crash
  BY <1>8 DEF Crash, EarnStep, HostsStep
<1>9. QED
  BY <1>1, <1>2, <1>3, <1>4, <1>5, <1>6, <1>7, <1>8 DEF Next, Main

\* Every step of the service keeps the threads owned.
LEMMA NextKeepsOwn == ASSUME OwnInv, HostsTypeOK, HostsTypeOK', Next PROVE OwnInv'
<1>1. CASE TraySteps \/ User
  <2>1. /\ UNCHANGED <<hostsVars, pairingVars, step, scm, mainPc, statusThread>>
        /\ client' = client /\ handled' = handled
    BY <1>1 DEF TraySteps, User, InProcess, serviceVars, mainVars, statusVars, TrayServer,
                ServerTakes, ServerReads, ServerDisconnected, ServerStops, TrayEnds, Answered,
                TimesOut, TrayStops, Ask, clientVars
  <2>2. IpcStep
    BY <1>1 DEF TraySteps, User, IpcStep
  <2>3. QED
    BY <2>1, <2>2, PipeKeepsOwn
<1>2. CASE Connect
  <2>1. UNCHANGED <<hostsVars, pairingVars, step, scm, mainPc, statusThread>>
    BY <1>2 DEF Connect, InProcess, serviceVars, mainVars, statusVars
  <2>2. client \notin {"off", "handling"}
    BY <1>2 DEF Connect, ClientStep, Open, Rejects, BeginRead, ReadCommand, ReadFails, ClientEnds
  <2>3. QED
    BY <1>2, <2>1, <2>2, PipeKeepsOwn DEF IpcStep, Connect
<1>3. CASE Command
  BY <1>3, CommandKeepsOwn
<1>4. CASE Pair
  BY <1>4, PairKeepsOwn
<1>5. CASE Sunshine
  BY <1>5 DEF Sunshine, SunshineForgets, InProcess, serviceVars, mainVars, statusVars, ipcVars,
              clientVars, hostsVars, OwnInv, Owners, Places, Writing
<1>6. CASE Main \/ StartService \/ ControlReports \/ ServeStatus
  BY <1>6, MainKeepsOwn
<1>7. CASE Crash
  BY <1>7, CrashKeepsOwn
<1>8. QED
  BY <1>1, <1>2, <1>3, <1>4, <1>5, <1>6, <1>7 DEF Next

\* A service that has just started satisfies the four invariants together.
LEMMA InitHolds == Init => ServiceInv
<1> SUFFICES ASSUME Init PROVE ServiceInv
  OBVIOUS
<1> USE DEF Init, IpcInit, HostsInit, PairingInit
<1>1. IpcInv
  BY DEF IpcInv, OneExchange, SameCommand
<1>2. FollowInv
  <2>1. HostsTypeOK /\ ReadHosts = trusted /\ trusted \in SUBSET Hosts
    BY HostsAssumption DEF HostsTypeOK, ReadHosts, Idle
  <2>2. QED
    BY <2>1 DEF FollowInv, Writing, Threads, Idle
<1>3. EarnInv
  BY DEF EarnInv, HostsTypeOK, Earned, ReadHosts, Threads, Idle
<1>4. OwnInv
  BY DEF OwnInv, Owners, Places, Writing, Threads, Idle
<1>5. QED
  BY <1>1, <1>2, <1>3, <1>4 DEF ServiceInv

\* In every state of the service, whatever the hosts, the user, the service manager and the
\* crashes did: the pipe carries one command at a time; unless rewrites of paired-hosts.json
\* overlapped, one ended between the removal of the file and the rename, or its data was
\* lost unnoticed, each brings everything that is trusted, also after others that failed;
\* what is trusted or written was earned; and the threads are together only where their
\* owners allow it.
THEOREM ServiceInvariant == Spec => []ServiceInv
<1>1. ServiceInv /\ [Next]_processVars => ServiceInv'
  <2> SUFFICES ASSUME ServiceInv, [Next]_processVars PROVE ServiceInv'
    OBVIOUS
  <2>1. CASE Next
    <3>1. configured' \in Hosts /\ (HostsStep \/ UNCHANGED hostsVars)
          /\ (EarnStep \/ UNCHANGED earnVars)
      BY <2>1, NextIsHosts DEF ServiceInv, EarnInv
    <3>2. IpcInv'
      <4>1. CASE UNCHANGED ipcVars
        BY <4>1 DEF ServiceInv, IpcInv, OneExchange, SameCommand, ipcVars, trayVars,
                    clientVars, pipeVars
      <4>2. QED
        BY <2>1, <4>1, NextIsIpc, ClientKeepsIpc DEF ServiceInv
    <3>3. FollowInv'
      <4>1. CASE UNCHANGED hostsVars
        BY <4>1 DEF ServiceInv, FollowInv, HostsTypeOK, Writing, Gap, Changed, ReadHosts,
                    hostsVars
      <4>2. QED
        BY <3>1, <4>1, HostsKeepFollow DEF ServiceInv
    <3>4. EarnInv'
      <4>1. CASE UNCHANGED earnVars
        BY <4>1 DEF ServiceInv, EarnInv, HostsTypeOK, Earned, earnVars
      <4>2. QED
        BY <3>1, <4>1, StepKeepsEarn DEF ServiceInv
    <3>5. OwnInv'
      BY <2>1, <3>3, NextKeepsOwn DEF ServiceInv, FollowInv
    <3>6. QED
      BY <3>1, <3>2, <3>3, <3>4, <3>5 DEF ServiceInv
  <2>2. CASE UNCHANGED processVars
    BY <2>2 DEF processVars, serviceVars, mainVars, statusVars, ipcVars, trayVars, clientVars,
                pipeVars, hostsVars, pairingVars, ServiceInv, IpcInv, OneExchange, SameCommand,
                FollowInv, HostsTypeOK, Writing, Gap, Changed, ReadHosts, EarnInv, Earned,
                OwnInv, Owners, Places
  <2>3. QED
    BY <2>1, <2>2
<1>2. QED
  BY InitHolds, <1>1, PTL DEF Spec
-----------------------------------------------------------------------------
\* Whatever overlaps, crashes or is unpaired, the Gateway trusts and reports as paired
\* only hosts that proved the PIN and accepted its certificate.
THEOREM TrustIsEarned == Spec => []TrustEarned
<1>1. ServiceInv => TrustEarned
  BY DEF ServiceInv, EarnInv, Earned, TrustEarned
<1>2. QED
  BY <1>1, ServiceInvariant, PTL

\* Writes, removals and renames of paired-hosts.json that fail and crashes lose nothing: the
\* file names exactly the hosts reported as saved and not as removed since, but for the gap
\* between the removal of the old file and the rename, and after rewrites that overlapped,
\* one that ended in that gap, or one whose data was lost as its stream was closed.
THEOREM FileKeepsTrust == Spec => []FileFollowsTrust
<1>1. ServiceInv => FileFollowsTrust
  BY DEF ServiceInv, FollowInv, FileFollowsTrust
<1>2. QED
  BY <1>1, ServiceInvariant, PTL

\* The pairing thread is never overwritten, and a service that reports that it stopped
\* has no thread, no command and no half-written file.
THEOREM ThreadsAreAccounted == Spec => []ThreadsAccounted
<1>1. ServiceInv => ThreadsAccounted
  BY DEF ServiceInv, OwnInv, Owners, Places, ThreadsAccounted, PairingThreadOwned, Threads
<1>2. QED
  BY <1>1, ServiceInvariant, PTL

\* An answer is given to the wrong command only after one that the service had been sent
\* was given up.
THEOREM AnswersCrossOnlyAfterTimeout == Spec => []StrayAfterTimeout
<1>1. ServiceInv => StrayAfterTimeout
  BY DEF ServiceInv, IpcInv, SameCommand, StrayAfterTimeout
<1>2. QED
  BY <1>1, ServiceInvariant, PTL
=============================================================================

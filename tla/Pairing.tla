------------------------------- MODULE Pairing -------------------------------
(***************************************************************************)
(* Pairing with Sunshine: MoonlightPairing::pair on the thread that        *)
(* startPairing creates, and what SignalingServer keeps of it.  Each HTTP  *)
(* request is one step, which Sunshine (external) grants or refuses and    *)
(* which may fail.  The cryptography is abstracted to its verdict: the two *)
(* sides derive the same key exactly when the user entered the right PIN.  *)
(***************************************************************************)
EXTENDS PairedHosts

Requests == {"getservercert", "clientchallenge", "serverchallengeresp",
             "clientpairingsecret", "pairchallenge"}
\* The codes of pairingResult_; the five that report a failure are one.
Codes == {"not-started", "pairing-in-progress", "failed", "paired"}

VARIABLES
    pairingPc,         \* the pairing thread: a request, "save", "saving", "verify", "off"
    pairingHost,       \* the host it pairs with
    pinEntered,        \* external: the user entered the PIN of the pairing under way
    threadObject,      \* pairingThread_: none or joinable
    pairingInProgress, pairingResult,
    sunshine,          \* external: host -> none, pairing or paired
    aborted,           \* history: a joinable pairing thread object was overwritten
    earned             \* history: hosts whose pairing proved the PIN and the certificate

pairingVars == <<pairingPc, pairingHost, pinEntered, threadObject, pairingInProgress,
                 pairingResult, sunshine, aborted, earned>>

PairingInit ==
    /\ pairingPc = "off" /\ pairingHost \in Hosts /\ pinEntered = FALSE
    /\ threadObject = "none" /\ pairingInProgress = FALSE /\ pairingResult = "not-started"
    /\ sunshine = [h \in Hosts |-> IF h \in ReadHosts THEN "paired" ELSE "none"]
    /\ aborted = FALSE /\ earned = ReadHosts

\* The thread stores its result and ends.
Finish(code) ==
    /\ pairingPc' = "off" /\ pinEntered' = FALSE
    /\ pairingInProgress' = FALSE /\ pairingResult' = code

\* cancelPairing: Sunshine forgets a pairing in progress, if it can be reached; one that
\* is complete stays.
Cancel ==
    sunshine' \in {sunshine,
                   [sunshine EXCEPT ![pairingHost] = IF @ = "pairing" THEN "none" ELSE @]}

\* Any request may throw, be refused or carry an incomplete answer; Sunshine may have
\* done its part of the one that adds the certificate.
RequestFails ==
    /\ pairingPc \in Requests
    /\ \/ Cancel
       \/ /\ pairingPc = "clientpairingsecret"
          /\ sunshine' = [sunshine EXCEPT ![pairingHost] = "paired"]
    /\ Finish("failed")
    /\ UNCHANGED <<pairingHost, threadObject, aborted, earned, hostsVars>>

\* Sunshine shows its PIN page and answers within ten minutes; without a certificate in
\* the answer it is busy with another pairing.
GetServerCert ==
    /\ pairingPc = "getservercert"
    /\ \/ /\ sunshine' = [sunshine EXCEPT ![pairingHost] = "pairing"]
          /\ pinEntered' \in BOOLEAN
          /\ pairingPc' = "clientchallenge"
          /\ UNCHANGED <<pairingInProgress, pairingResult>>
       \/ /\ Cancel
          /\ Finish("failed")
    /\ UNCHANGED <<pairingHost, threadObject, aborted, earned, hostsVars>>

ClientChallenge ==
    /\ pairingPc = "clientchallenge" /\ pairingPc' = "serverchallengeresp"
    /\ UNCHANGED <<pairingHost, pinEntered, threadObject, pairingInProgress, pairingResult,
                   sunshine, aborted, earned, hostsVars>>

\* Mutant: the hash that proves the PIN is not compared.
ServerChallengeResponseUnchecked ==
    /\ pairingPc = "serverchallengeresp"
    /\ pairingPc' = "clientpairingsecret"
    /\ UNCHANGED <<pairingHost, pinEntered, threadObject, pairingInProgress, pairingResult,
                   sunshine, aborted, earned, hostsVars>>

\* The hash of the answer proves that Sunshine knew the PIN.
ServerChallengeResponse ==
    /\ pairingPc = "serverchallengeresp"
    /\ IF pinEntered
       THEN pairingPc' = "clientpairingsecret"
            /\ UNCHANGED <<pinEntered, pairingInProgress, pairingResult, sunshine>>
       ELSE Cancel /\ Finish("failed")
    /\ UNCHANGED <<pairingHost, threadObject, aborted, earned, hostsVars>>

\* Sunshine adds the client certificate.
ClientPairingSecret ==
    /\ pairingPc = "clientpairingsecret" /\ pairingPc' = "pairchallenge"
    /\ sunshine' = [sunshine EXCEPT ![pairingHost] = "paired"]
    /\ earned' = IF pinEntered THEN earned \cup {pairingHost} ELSE earned
    /\ UNCHANGED <<pairingHost, pinEntered, threadObject, pairingInProgress, pairingResult,
                   aborted, hostsVars>>

\* The first request over TLS with the pinned certificate.
PairChallenge ==
    /\ pairingPc = "pairchallenge" /\ pairingPc' = "save"
    /\ UNCHANGED <<pairingHost, pinEntered, threadObject, pairingInProgress, pairingResult,
                   sunshine, aborted, earned, hostsVars>>

\* The file may turn out to be unreadable, or be opened by somebody else.
SavePairing ==
    /\ pairingPc = "save"
    /\ \/ Save("pairing", pairingHost) /\ pairingPc' = "saving"
          /\ UNCHANGED <<pinEntered, pairingInProgress, pairingResult>>
       \/ Finish("failed") /\ UNCHANGED hostsVars
    /\ UNCHANGED <<pairingHost, threadObject, sunshine, aborted, earned>>

WriteStepPairing ==
    /\ pairingPc = "saving" /\ WriteStep("pairing")
    /\ UNCHANGED pairingVars

SavedPairing ==
    /\ pairingPc = "saving"
    /\ \/ Rename("pairing") /\ pairingPc' = "verify"
          /\ UNCHANGED <<pinEntered, pairingInProgress, pairingResult>>
       \/ RewriteFails("pairing") /\ Finish("failed")
    /\ UNCHANGED <<pairingHost, threadObject, sunshine, aborted, earned>>

\* getServerInfo with the new trust; the trust stays whatever comes out of it.
VerifyPairing ==
    /\ pairingPc = "verify"
    /\ \/ Finish("failed")
       \/ sunshine[pairingHost] = "paired" /\ Finish("paired")
    /\ UNCHANGED <<pairingHost, threadObject, sunshine, aborted, earned, hostsVars>>

PairingThread ==
    \/ RequestFails \/ GetServerCert \/ ClientChallenge \/ ServerChallengeResponse
    \/ ClientPairingSecret \/ PairChallenge
    \/ SavePairing \/ WriteStepPairing \/ SavedPairing \/ VerifyPairing
-----------------------------------------------------------------------------
\* detectSunshine: the pairing status is authenticated only for a host that the file
\* names; without TLS Sunshine may or may not tell.  Without a file that can be read it
\* finds no Sunshine.
DetectedPaired(h) ==
    IF ~Readable THEN {}
    ELSE IF h \in ReadHosts THEN {sunshine[h] = "paired"} ELSE {FALSE, sunshine[h] = "paired"}

\* Mutant: a thread that has finished is not joined.
JoinFinishedSkips == UNCHANGED threadObject

\* The first part of startPairing, under no lock by the time it joins.
JoinFinished == threadObject' = "none"

StartThread(h) ==
    /\ pairingPc' = "getservercert" /\ pairingHost' = h /\ pinEntered' = FALSE
    /\ pairingInProgress' = TRUE /\ pairingResult' = "pairing-in-progress"
    /\ threadObject' = "joinable"
    /\ aborted' = (aborted \/ threadObject # "none")
    /\ UNCHANGED <<sunshine, earned>>

\* The thread cannot be created: the result keeps what was set for it.
StartFails ==
    /\ pairingResult' = "pairing-in-progress"
    /\ UNCHANGED <<pairingPc, pairingHost, pinEntered, threadObject, pairingInProgress,
                   sunshine, aborted, earned>>

\* Sunshine's user removes the Gateway from its clients.
SunshineForgets(h) ==
    /\ sunshine[h] = "paired"
    /\ sunshine' = [sunshine EXCEPT ![h] = "none"]
    /\ UNCHANGED <<pairingPc, pairingHost, pinEntered, threadObject, pairingInProgress,
                   pairingResult, aborted, earned, hostsVars>>

PairingCrash ==
    /\ pairingPc' = "off" /\ threadObject' = "none" /\ pinEntered' = FALSE
    /\ pairingInProgress' = FALSE /\ pairingResult' = "not-started"
    /\ UNCHANGED <<pairingHost, sunshine, aborted, earned>>
-----------------------------------------------------------------------------
\* pairingThread_ is never assigned while it is joinable, which would end the process
\* (main.cpp:1440-1449), and the flag covers the whole life of the thread.
PairingThreadOwned ==
    /\ ~aborted
    /\ pairingPc # "off" => pairingInProgress /\ threadObject = "joinable"

\* Whatever overlaps, crashes or is unpaired, paired-hosts.json and its temporary only
\* ever name hosts that proved knowledge of the PIN and accepted the certificate of the
\* Gateway (MoonlightPairing.cpp:347-410), and only such a host is reported as paired.
TrustEarned ==
    /\ pairingResult = "paired" => pairingHost \in earned
    /\ \A names \in {file, tmp} \ {NoFile, Unreadable} : names \subseteq earned
=============================================================================

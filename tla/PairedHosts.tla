----------------------------- MODULE PairedHosts -----------------------------
(***************************************************************************)
(* paired-hosts.json as MoonlightIdentity keeps it: every change reads the *)
(* file, rewrites it beside the old one, removes the old one and renames.  *)
(* Nothing locks the file, and two threads of the Gateway change it: the   *)
(* pairing thread saves a host, the management thread removes one.         *)
(***************************************************************************)
EXTENDS FiniteSets

CONSTANTS
    Hosts,         \* the Sunshine hosts, by their unique id
    NoFile,        \* the file does not exist
    Unreadable     \* the file has been written in part and cannot be parsed

ASSUME HostsAssumption ==
    /\ NoFile # Unreadable
    /\ \A names \in SUBSET Hosts : names \notin {NoFile, Unreadable}

Threads == {"pairing", "management"}

VARIABLES
    file,          \* paired-hosts.json: the hosts it names
    tmp,           \* paired-hosts.json.tmp
    writer,        \* where each thread is in writeTextFile, what it writes and about whom
    trusted,       \* history: the hosts last reported as saved, and not as removed since
    disturbed      \* history: what FileFollowsTrust excepts has happened

hostsVars == <<file, tmp, writer, trusted, disturbed>>

Idle == [pc |-> "idle", hosts |-> {}, about |-> {}]

HostsInit ==
    /\ file \in {NoFile} \cup SUBSET Hosts /\ tmp = NoFile
    /\ writer = [t \in Threads |-> Idle]
    /\ trusted = (IF file = NoFile THEN {} ELSE file) /\ disturbed = FALSE

\* What can be read of the file: without one no host is trusted.
Readable  == file # Unreadable
ReadHosts == IF file \in {NoFile, Unreadable} THEN {} ELSE file

Writing(t) == writer[t].pc # "idle"

Rewrite(t, hosts, h) ==
    /\ ~Writing(t)
    /\ writer' = [writer EXCEPT ![t] = [pc |-> "write", hosts |-> hosts, about |-> {h}]]
    /\ disturbed' = (disturbed \/ \E u \in Threads : Writing(u))
    /\ UNCHANGED <<file, tmp, trusted>>

\* Mutant: the other hosts of the file are not carried over.
SaveAlone(t, h) == Readable /\ Rewrite(t, {h}, h)

\* savePairedHost and removePairedHost, up to the rewrite: both begin with what the file
\* names, and throw when it cannot be read.
Save(t, h)   == Readable /\ Rewrite(t, ReadHosts \cup {h}, h)
Remove(t, h) == Rewrite(t, ReadHosts \ {h}, h)

\* writeTextFile.  The stream is not looked at when it is closed: the end of the data may
\* be lost without a word.
WriteTemporary(t) ==
    /\ writer[t].pc = "write"
    /\ tmp' \in {writer[t].hosts, Unreadable}
    /\ writer' = [writer EXCEPT ![t].pc = "remove"]
    /\ UNCHANGED <<file, trusted, disturbed>>

\* The temporary cannot be opened, or written.
WriteFails(t) ==
    /\ writer[t].pc = "write"
    /\ tmp' \in {tmp, Unreadable}
    /\ writer' = [writer EXCEPT ![t] = Idle]
    /\ UNCHANGED <<file, trusted, disturbed>>

\* That the old file cannot be removed is not looked at.
RemoveOld(t) ==
    /\ writer[t].pc = "remove"
    /\ file' \in {file, NoFile}
    /\ writer' = [writer EXCEPT ![t].pc = "rename"]
    /\ UNCHANGED <<tmp, trusted, disturbed>>

\* The rename ends the call, and the caller reports the host as saved or removed.
Rename(t) ==
    /\ writer[t].pc = "rename" /\ tmp # NoFile
    /\ file' = tmp /\ tmp' = NoFile
    /\ trusted' = IF t = "pairing" THEN trusted \cup writer[t].about
                                  ELSE trusted \ writer[t].about
    /\ writer' = [writer EXCEPT ![t] = Idle]
    /\ disturbed' = (disturbed \/ tmp = Unreadable)

\* Between the removal of the old file and the rename there is none.
Gap(t) == writer[t].pc = "rename" /\ file = NoFile

\* The other thread has renamed the file away, or somebody has one of the two open.
RenameFails(t) ==
    /\ writer[t].pc = "rename"
    /\ writer' = [writer EXCEPT ![t] = Idle]
    /\ disturbed' = (disturbed \/ Gap(t))
    /\ UNCHANGED <<file, tmp, trusted>>

WriteStep(t)    == WriteTemporary(t) \/ RemoveOld(t)
RewriteFails(t) == WriteFails(t) \/ RenameFails(t)

HostsCrash ==
    /\ writer' = [t \in Threads |-> Idle]
    /\ disturbed' = (disturbed \/ \E t \in Threads : Gap(t))
    /\ UNCHANGED <<file, tmp, trusted>>
-----------------------------------------------------------------------------
\* paired-hosts.json names exactly the hosts that were reported as saved and not as removed
\* since, at every moment but that between the removal of the old file and the rename:
\* writes, removals and renames that fail anywhere else, and crashes anywhere else, lose
\* nothing.  Three things do: rewrites of the two threads that overlap, a rewrite that ends
\* in that gap, by a crash or as the rename fails (MoonlightIdentity.cpp:56-62), and one
\* whose data was lost as the stream was closed (:45-53).
FileFollowsTrust ==
    ~disturbed /\ (\A t \in Threads : ~Gap(t)) => ReadHosts = trusted
=============================================================================

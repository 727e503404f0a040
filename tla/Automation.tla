----------------------------- MODULE Automation -----------------------------
(***************************************************************************)
(* The two automation flags: the atomics behind /auto_unlock and           *)
(* /auto_hangup, the Persister that saves them to automation.state, and    *)
(* what a crash and a restart make of them.  Handlers run in HTTP threads  *)
(* of their own; the Persister's lock covers load, compare, write and      *)
(* rename.  The two loads of the value source are separate steps, and so   *)
(* are the truncation of the temporary file, its contents and the rename.  *)
(***************************************************************************)
CONSTANTS
    Handlers,  \* HTTP threads in /auto_unlock or /auto_hangup
    Default,   \* the [automation] section of config.ini
    Nobody,    \* the lock is free
    NoFile,    \* there is no such file
    Torn       \* contents that do not parse

Flag == {"auto_unlock", "auto_hangup"}

State == [Flag -> BOOLEAN]

ASSUME AutomationAssumption ==
    /\ Default \in State
    /\ Nobody \notin Handlers
    /\ NoFile \notin State
    /\ Torn \notin State \cup {NoFile}

VARIABLES
    mem,       \* AutomationState: the flags the daemon acts on
    file,      \* automation.state
    tmp,       \* automation.state.tmp
    lock,      \* who holds Persister.state
    hasWrote,  \* PersistedState.has_wrote
    last,      \* PersistedState.last
    pc,        \* per handler: where it is
    flag,      \* per handler: the flag it sets
    cur,       \* per handler: what it loaded from the value source
    lost       \* history: flags whose last save failed

flagVars == <<mem, file, tmp, lock, hasWrote, last, pc, flag, cur, lost>>

\* load_automation_flags: a missing or unusable file gives way to the config.
Load(f) == IF f \in State THEN f ELSE Default

FlagsInit ==
    /\ file \in State \cup {NoFile}
    /\ tmp \in State \cup {NoFile, Torn}
    /\ mem = Load(file)
    /\ lock = Nobody
    /\ hasWrote = FALSE
    /\ last = [f \in Flag |-> FALSE]
    /\ pc = [h \in Handlers |-> "idle"]
    /\ flag = [h \in Handlers |-> "auto_unlock"]
    /\ cur = [h \in Handlers |-> last]
    /\ lost = {}

-----------------------------------------------------------------------------
\* The handler stores the flag.
Store(h, f, on) ==
    /\ pc[h] = "idle"
    /\ pc' = [pc EXCEPT ![h] = "stored"]
    /\ flag' = [flag EXCEPT ![h] = f]
    /\ mem' = [mem EXCEPT ![f] = on]
    /\ UNCHANGED <<file, tmp, lock, hasWrote, last, cur, lost>>

\* persist() takes the lock.
Acquire(h) ==
    /\ pc[h] = "stored"
    /\ lock = Nobody
    /\ lock' = h
    /\ pc' = [pc EXCEPT ![h] = "locked"]
    /\ UNCHANGED <<mem, file, tmp, hasWrote, last, flag, cur, lost>>

LoadUnlock(h) ==
    /\ pc[h] = "locked"
    /\ pc' = [pc EXCEPT ![h] = "loading"]
    /\ cur' = [cur EXCEPT ![h]["auto_unlock"] = mem["auto_unlock"]]
    /\ UNCHANGED <<mem, file, tmp, lock, hasWrote, last, flag, lost>>

LoadHangup(h) ==
    /\ pc[h] = "loading"
    /\ pc' = [pc EXCEPT ![h] = "loaded"]
    /\ cur' = [cur EXCEPT ![h]["auto_hangup"] = mem["auto_hangup"]]
    /\ UNCHANGED <<mem, file, tmp, lock, hasWrote, last, flag, lost>>

\* The value is already on disk: release the lock, done.
Skip(h) ==
    /\ pc[h] = "loaded"
    /\ hasWrote
    /\ cur[h] = last
    /\ lock' = Nobody
    /\ pc' = [pc EXCEPT ![h] = "reply"]
    /\ lost' = {}
    /\ UNCHANGED <<mem, file, tmp, hasWrote, last, flag, cur>>

\* Slip: every persist writes.
TruncateAlways(h) ==
    /\ pc[h] = "loaded"
    /\ tmp' = Torn
    /\ pc' = [pc EXCEPT ![h] = "writing"]
    /\ UNCHANGED <<mem, file, lock, hasWrote, last, flag, cur, lost>>

\* fs::write opens and truncates the temporary file.
Truncate(h) ==
    /\ pc[h] = "loaded"
    /\ ~(hasWrote /\ cur[h] = last)
    /\ tmp' = Torn
    /\ pc' = [pc EXCEPT ![h] = "writing"]
    /\ UNCHANGED <<mem, file, lock, hasWrote, last, flag, cur, lost>>

\* ... and writes the rendered flags.
WriteTmp(h) ==
    /\ pc[h] = "writing"
    /\ tmp' = cur[h]
    /\ pc' = [pc EXCEPT ![h] = "rename"]
    /\ UNCHANGED <<mem, file, lock, hasWrote, last, flag, cur, lost>>

Rename(h) ==
    /\ pc[h] = "rename"
    /\ file' = tmp
    /\ tmp' = NoFile
    /\ last' = cur[h]
    /\ hasWrote' = TRUE
    /\ lock' = Nobody
    /\ pc' = [pc EXCEPT ![h] = "reply"]
    /\ lost' = {}
    /\ UNCHANGED <<mem, flag, cur>>

\* Slip: `last` is updated whether or not the write worked.
WriteFailsUnnoticed(h) ==
    /\ pc[h] \in {"loaded", "writing", "rename"}
    /\ pc[h] = "loaded" => ~(hasWrote /\ cur[h] = last)
    /\ tmp' \in IF pc[h] = "rename" THEN {tmp, NoFile} ELSE {tmp}
    /\ lock' = Nobody
    /\ last' = cur[h]
    /\ hasWrote' = TRUE
    /\ pc' = [pc EXCEPT ![h] = "reply"]
    /\ lost' = lost \cup {flag[h]}
    /\ UNCHANGED <<mem, file, flag, cur>>

\* The write or the rename fails (the latter removes the temporary file if it
\* can): a warning, and the endpoint still reports success.
WriteFails(h) ==
    /\ pc[h] \in {"loaded", "writing", "rename"}
    /\ pc[h] = "loaded" => ~(hasWrote /\ cur[h] = last)
    /\ tmp' \in IF pc[h] = "rename" THEN {tmp, NoFile} ELSE {tmp}
    /\ lock' = Nobody
    /\ pc' = [pc EXCEPT ![h] = "reply"]
    /\ lost' = lost \cup {flag[h]}
    /\ UNCHANGED <<mem, file, hasWrote, last, flag, cur>>

\* The response is written.
Reply(h) ==
    /\ pc[h] = "reply"
    /\ pc' = [pc EXCEPT ![h] = "idle"]
    /\ UNCHANGED <<mem, file, tmp, lock, hasWrote, last, flag, cur, lost>>

\* The process dies at any point and is started again.
Restart ==
    /\ mem' = Load(file)
    /\ lock' = Nobody
    /\ hasWrote' = FALSE
    /\ last' = [f \in Flag |-> FALSE]
    /\ pc' = [h \in Handlers |-> "idle"]
    /\ flag' = [h \in Handlers |-> "auto_unlock"]
    /\ cur' = [h \in Handlers |-> [f \in Flag |-> FALSE]]
    /\ lost' = {}
    /\ UNCHANGED <<file, tmp>>

Persist(h) ==
    \/ Acquire(h) \/ LoadUnlock(h) \/ LoadHangup(h) \/ Skip(h) \/ Truncate(h)
    \/ WriteTmp(h) \/ Rename(h) \/ WriteFails(h)

FlagsNext ==
    \/ \E h \in Handlers, f \in Flag, on \in BOOLEAN : Store(h, f, on)
    \/ \E h \in Handlers : Persist(h) \/ Reply(h)
    \/ Restart

FlagsSpec == FlagsInit /\ [][FlagsNext]_flagVars

-----------------------------------------------------------------------------
(* Properties.                                                             *)

\* Past the store and not yet through persist().
Pending == {"stored", "locked", "loading", "loaded", "writing", "rename"}

Critical == Pending \ {"stored"}

\* Type invariant; a crash at any point leaves the state file whole or absent.
FlagsTypeOK ==
    /\ mem \in State
    /\ file \in State \cup {NoFile}
    /\ tmp \in State \cup {NoFile, Torn}
    /\ lock \in Handlers \cup {Nobody}
    /\ hasWrote \in BOOLEAN
    /\ last \in State
    /\ pc \in [Handlers -> Pending \cup {"idle", "reply"}]
    /\ flag \in [Handlers -> Flag]
    /\ cur \in [Handlers -> State]
    /\ lost \subseteq Flag

\* A restart gives back every flag as it was last set, unless the handler that
\* set it has not left persist() or its write failed: toggles of the two flags
\* that race each other, or repeat a value, never leave an old value behind.
Durable ==
    \A f \in Flag :
        \/ Load(file)[f] = mem[f]
        \/ f \in lost
        \/ \E h \in Handlers : flag[h] = f /\ pc[h] \in Pending

\* The flash is not worn: once the process has written the file it only
\* replaces it by a different value.
NoRedundantWrite ==
    \A h \in Handlers : pc[h] = "rename" /\ hasWrote => cur[h] # file
=============================================================================

---------------------------- MODULE SecretStore -----------------------------
(***************************************************************************)
(* LocalSecretStore: one encrypted file with the Wave token and the        *)
(* secrets of the runtime, a key file beside it, and the copy of the token *)
(* that every process keeps in its configuration.                          *)
(*                                                                         *)
(* Each file is replaced as a whole and read without a lock; a store is    *)
(* updated by reading, changing and writing all of it.  An action is one   *)
(* file read or written.  The worker refreshes its copy before each pass,  *)
(* the API after a change.                                                 *)
(***************************************************************************)
EXTENDS Integers, FiniteSets

CONSTANTS
    Threads,    \* threads of the API server, which share its configuration
    Worker,     \* the worker, a process of its own
    MaxOps,     \* bound: operations that begin
    MaxLosses,  \* bound: files that are lost
    MaxCrashes  \* bound: processes that die

VARIABLES
    store,      \* the encrypted file, and the key it is encrypted with
    keyFile,    \* the key beside it, or NoKey
    own,        \* the token that config.ini has, if any
    config,     \* what each process holds
    proc,       \* what each thread is doing
    made,       \* keys and secrets that were generated
    ops, losses, crashes,
    gone,       \* the operator has disconnected Wave, and that stands
    handed,     \* the runtime secret that was handed out, and stands
    mixed       \* two threads made the first key at the same time

vars == <<store, keyFile, own, config, proc, made, ops, losses, crashes,
          gone, handed, mixed>>

NoKey == 0
None == "none"      \* no token: absent, or null
Stored == "stored"  \* the token that the store was given
Off == "off"        \* the tombstone, which is stored as null
Empty == [key |-> NoKey, token |-> None, secret |-> 0]

Actors == Threads \cup {Worker}
Home(t) == IF t = Worker THEN "worker" ELSE "api"
Homes == {"api", "worker"}

Idle == [at |-> "idle", op |-> "refresh", copy |-> Empty, key |-> NoKey,
         crossed |-> FALSE, stale |-> FALSE]
Stopped == [up |-> FALSE, token |-> own, managed |-> FALSE, failed |-> FALSE,
            fresh |-> FALSE]

Updates == {"connect", "disconnect", "map", "secret"}
Refreshes == {"refresh", "apply", "leave"}  \* "leave": after a disconnection
MaxMade == 2 * MaxOps

TypeOK ==
    LET file == [key : 0..MaxMade, token : {None, Stored, Off},
                 secret : 0..MaxMade]
    IN /\ store \in file /\ keyFile \in 0..MaxMade
       /\ own \in {None, "own"}
       /\ config \in [Homes -> [up : BOOLEAN, token : {None, Stored, "own"},
                                managed : BOOLEAN, failed : BOOLEAN,
                                fresh : BOOLEAN]]
       /\ proc \in [Actors -> [at : {"idle", "store", "key", "save", "newkey",
                                     "write"},
                               op : Updates \cup Refreshes,
                               copy : file, key : 0..MaxMade,
                               crossed : BOOLEAN, stale : BOOLEAN]]
       /\ made \in 0..MaxMade /\ ops \in 0..MaxOps
       /\ losses \in 0..MaxLosses /\ crashes \in 0..MaxCrashes
       /\ gone \in BOOLEAN /\ handed \in 0..MaxMade /\ mixed \in BOOLEAN

Init ==
    /\ store = Empty /\ keyFile = NoKey
    /\ own \in {None, "own"}
    /\ config = [c \in Homes |-> Stopped]
    /\ proc = [t \in Actors |-> Idle]
    /\ made = 0 /\ ops = 0 /\ losses = 0 /\ crashes = 0
    /\ gone = FALSE /\ handed = 0 /\ mixed = FALSE

Updating(t) == proc[t].at # "idle" /\ proc[t].op # "refresh"
Go(t, at) == proc' = [proc EXCEPT ![t].at = at]
Done(t) == proc' = [proc EXCEPT ![t] = Idle]
Counted == UNCHANGED <<own, ops, losses, crashes>>

\* A process reads its configuration when it starts, and refreshes it; a
\* request or a script changes the store.  Updates that overlap are noted.
Start(t, op) ==
    LET others == {u \in Actors \ {t} : Updating(u)}
        crosses == op \in Updates /\ others # {}
    IN /\ proc[t].at = "idle" /\ ops < MaxOps
       /\ op \in Updates => config["api"].up /\ t # Worker
       /\ op = "refresh" => t = Worker \/ ~config["api"].up
       /\ ops' = ops + 1
       /\ proc' = [u \in Actors |->
              IF u = t THEN [Idle EXCEPT !.at = "store", !.op = op,
                                         !.crossed = crosses]
              ELSE [proc[u] EXCEPT !.crossed = @ \/ (crosses /\ u \in others)]]
       /\ UNCHANGED <<store, keyFile, own, config, made, losses, crashes,
                      gone, handed, mixed>>

-----------------------------------------------------------------------------
\* apply_local_wave_settings

\* Mutant: an unreadable store leaves what was read before.
WithoutStore_Kept(held) == [held EXCEPT !.failed = TRUE, !.up = TRUE]
\* What came from the store is taken back when it cannot be read.
WithoutStore(held) ==
    [held EXCEPT !.token = IF held.managed THEN None ELSE @,
                 !.failed = TRUE, !.up = TRUE]

\* A tombstone takes the place of a token, also of one of config.ini.
WithStore(held, copy) ==
    [held EXCEPT !.token = CASE copy.token = Stored -> Stored
                             [] copy.token = Off -> None
                             [] OTHER -> IF held.managed THEN None ELSE @,
                 !.managed = copy.token # None,
                 !.failed = FALSE, !.up = TRUE]

\* The process takes over what it has read; a change is answered then.  The
\* other processes have not seen a disconnection that is answered here.
Apply(t, held) ==
    LET stands == proc[t].op = "leave" /\ ~proc[t].crossed
    IN /\ config' = [c \in Homes |->
              IF c = Home(t) THEN [held EXCEPT !.fresh = ~proc[t].stale]
              ELSE [config[c] EXCEPT !.fresh = @ /\ ~stands]]
       /\ gone' = (gone \/ stands)
       /\ proc' = [u \in Actors |->
              IF u = t THEN Idle
              ELSE [proc[u] EXCEPT !.stale =
                        @ \/ (stands /\ proc[u].at # "idle")]]
       /\ UNCHANGED <<store, keyFile, made, handed, mixed>> /\ Counted

-----------------------------------------------------------------------------
\* load, update_wave_target and get_or_create_runtime_secret

\* Mutant: a disconnection removes the token and leaves no tombstone.
Changed_Removed(op, copy) ==
    CASE op = "connect" -> [copy EXCEPT !.token = Stored]
      [] op = "disconnect" -> [copy EXCEPT !.token = None]
      [] op = "map" -> copy
      [] op = "secret" -> [copy EXCEPT !.secret = made + 1]
\* "map" stands for the settings of the target other than its token.
Changed(op, copy) ==
    CASE op = "connect" -> [copy EXCEPT !.token = Stored]
      [] op = "disconnect" -> [copy EXCEPT !.token = Off]
      [] op = "map" -> copy
      [] op = "secret" -> [copy EXCEPT !.secret = made + 1]

\* What was read is applied, handed out or changed.
Loaded(t, copy) ==
    LET op == proc[t].op
    IN CASE op \in Refreshes ->
              Apply(t, WithStore(config[Home(t)], copy))
         [] op = "secret" /\ copy.secret # 0 ->
              /\ handed' = IF proc[t].crossed THEN handed ELSE copy.secret
              /\ Done(t) /\ Counted
              /\ UNCHANGED <<store, keyFile, config, made, gone, mixed>>
         [] OTHER ->
              /\ proc' = [proc EXCEPT ![t].copy = Changed(op, copy),
                                      ![t].at = "save"]
              /\ made' = IF op = "secret" THEN made + 1 ELSE made
              /\ UNCHANGED <<store, keyFile, config, gone, handed, mixed>>
              /\ Counted

ReadStore(t) ==
    /\ proc[t].at = "store"
    /\ IF store = Empty THEN Loaded(t, Empty)
       ELSE /\ proc' = [proc EXCEPT ![t].copy = store, ![t].at = "key"]
            /\ UNCHANGED <<store, keyFile, config, made, gone, handed, mixed>>
            /\ Counted

\* Without its key a store cannot be read: an update fails, a refresh goes on
\* without it.
ReadKey(t) ==
    /\ proc[t].at = "key"
    /\ IF keyFile = proc[t].copy.key THEN Loaded(t, proc[t].copy)
       ELSE IF proc[t].op \in Refreshes
       THEN Apply(t, WithoutStore(config[Home(t)]))
       ELSE /\ Done(t) /\ Counted
            /\ UNCHANGED <<store, keyFile, config, made, gone, handed, mixed>>

-----------------------------------------------------------------------------
\* _save

\* Mutant: every save has a key of its own.
HasKey_Never == FALSE
HasKey == keyFile # NoKey

LoadKey(t) ==
    /\ proc[t].at = "save"
    /\ IF HasKey
       THEN /\ proc' = [proc EXCEPT ![t].key = keyFile, ![t].at = "write"]
            /\ UNCHANGED <<made, mixed>>
       ELSE /\ proc' = [proc EXCEPT ![t].key = made + 1, ![t].at = "newkey"]
            /\ made' = made + 1
            /\ mixed' = (mixed \/ \E u \in Actors : proc[u].at = "newkey")
    /\ UNCHANGED <<store, keyFile, config, gone, handed>> /\ Counted

WriteKey(t) ==
    /\ proc[t].at = "newkey"
    /\ keyFile' = proc[t].key
    /\ Go(t, "write") /\ Counted
    /\ UNCHANGED <<store, config, made, gone, handed, mixed>>

\* A secret is handed out; LocalWaveSetupService.save refreshes its process,
\* whose token it drops first when Wave is disconnected.  That update_wave_target
\* then reads the store once more, to say what is set, is left out.
WriteStore(t) ==
    LET op == proc[t].op
        crossed == proc[t].crossed
    IN /\ proc[t].at = "write"
       /\ store' = [proc[t].copy EXCEPT !.key = proc[t].key]
       /\ gone' = (gone /\ op # "connect" /\ ~crossed)
       /\ handed' = IF crossed THEN 0
                  ELSE IF op = "secret" THEN proc[t].copy.secret ELSE handed
       /\ IF op = "secret" THEN Done(t) /\ UNCHANGED config
          ELSE /\ proc' = [proc EXCEPT
                      ![t].at = "store",
                      ![t].op = IF op = "disconnect" THEN "leave" ELSE "apply"]
               /\ config' = IF op = "disconnect"
                            THEN [config EXCEPT !["api"].token = None]
                            ELSE config
       /\ UNCHANGED <<keyFile, made, mixed>> /\ Counted

-----------------------------------------------------------------------------
\* Around it

\* A file is deleted or restored without the other one.
Lose ==
    /\ losses < MaxLosses /\ losses' = losses + 1
    /\ \/ keyFile # NoKey /\ keyFile' = NoKey /\ UNCHANGED store
       \/ store # Empty /\ store' = Empty /\ UNCHANGED keyFile
    /\ gone' = FALSE /\ handed' = 0
    /\ proc' = [t \in Actors |-> [proc[t] EXCEPT !.crossed = @ \/ Updating(t)]]
    /\ UNCHANGED <<own, config, made, ops, crashes, mixed>>

\* A process dies and starts from its config.ini.
Crash(c) ==
    /\ config[c].up /\ crashes < MaxCrashes
    /\ crashes' = crashes + 1
    /\ config' = [config EXCEPT ![c] = Stopped]
    /\ proc' = [t \in Actors |-> IF Home(t) = c THEN Idle ELSE proc[t]]
    /\ UNCHANGED <<store, keyFile, own, made, ops, losses, gone, handed, mixed>>

Next ==
    \/ \E t \in Actors :
        \/ \E op \in Updates \cup {"refresh"} : Start(t, op)
        \/ ReadStore(t) \/ ReadKey(t)
        \/ LoadKey(t) \/ WriteKey(t) \/ WriteStore(t)
    \/ Lose
    \/ \E c \in Homes : Crash(c)

-----------------------------------------------------------------------------
\* Properties

\* Once the operator was told that Wave is disconnected no process that has
\* looked at the store since has a token, restarted or not and whatever else
\* is changed meanwhile, until it is connected again.  (A change that was
\* under way when it was disconnected may bring the token back.)
DisconnectHolds ==
    gone => \A c \in Homes : config[c].up /\ config[c].fresh =>
                config[c].token = None

\* A process that cannot read the store uses no token of it.
UnreadableIsUnused ==
    \A c \in Homes : config[c].failed => config[c].token # Stored

\* The store can be read with the key beside it, whoever dies between the two
\* files, unless two threads made the first key at once or one was lost.
StoreReadable ==
    store # Empty /\ losses = 0 /\ ~mixed => store.key = keyFile

\* A secret that the runtime was given stays the one that the store has.
SecretsStay == handed # 0 => store.secret = handed

SecretsHeld ==
    DisconnectHolds /\ UnreadableIsUnused /\ StoreReadable /\ SecretsStay
=============================================================================

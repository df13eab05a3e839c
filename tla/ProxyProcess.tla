---------------------------- MODULE ProxyProcess -----------------------------
(***************************************************************************)
(* The life of the proxy process: run in cmd/proxy/main.go, from the flags *)
(* to ListenAndServe, and what the two stores (internal/store/sqlite and   *)
(* internal/store/memory) keep of settings and prices from one process to  *)
(* the next.                                                               *)
(*                                                                         *)
(* The process may fail at every step of its start, and die at any time.   *)
(* Between two processes the operator edits flags and files.  Every method *)
(* of a store holds its one mutex, an atomic step.  A commit in SQLite's   *)
(* WAL outlives the process.                                               *)
(***************************************************************************)
EXTENDS Integers, Sequences

CONSTANTS
  PriceFiles,   (* static files: model -> price, or Bad                    *)
  KeyFiles,     (* key files: sequences of [key, id, budget]               *)
  LimitFlags,   (* values of -limit                                        *)
  Settings,     (* rows an administrator may store: [loop, cost]           *)
  EditedRows,   (* price rows written by others: [price, source]           *)
  Failures,     (* the steps that may fail: "open", "seed", "settings"     *)
  Bad,          (* a file that Load or json.Unmarshal refuses              *)
  None,         (* no -keys file, no row, an empty key or id               *)
  MaxStarts     (* bound: processes started                                *)

ProcessConstants ==
  /\ LimitFlags \subseteq Int /\ MaxStarts \in Nat
  /\ Bad # None
  /\ \A f \in KeyFiles : Len(f) \in Nat /\ DOMAIN f = 1..Len(f)

VARIABLES
  phase,      (* down, pricing, open, seed, keys, settings, serving        *)
  flags,      (* [db, limit, keys, prices]                                 *)
  diskRow,    (* the settings row of the database                          *)
  memRow,     (* s.settings; None while haveSet is false                   *)
  book,       (* model_prices: model -> [price, source]                    *)
  limit,      (* the exact detector's limit                                *)
  costAlert,  (* threshold: the cost-alert threshold the handler reads     *)
  callers,    (* KeyStore.m: key -> [id, budget]                           *)
  next,       (* loadKeys: the entry to read next                          *)
  starts,     (* history: processes started                                *)
  written,    (* history: the last settings stored: [disk, memory]         *)
  edited      (* history: the last row others wrote, by model              *)

localVars == <<memRow, limit, costAlert, callers, next>>
diskVars  == <<diskRow, book>>
vars == <<phase, flags, diskVars, localVars, starts, written, edited>>

DefaultLoopThreshold == 2
DefaultSettings == [loop |-> DefaultLoopThreshold, cost |-> 0]

Put(f, k, v) == [x \in DOMAIN f \cup {k} |-> IF x = k THEN v ELSE f[x]]

Nothing == [x \in {} |-> None]

(* NewHashDetector turns a limit below 1 into the default; SetLimit clamps. *)
ConstructedLimit(n) == IF n <= 0 THEN 2 ELSE n
ClampedLimit(n) == IF n < 1 THEN 1 ELSE n

(* The process is gone, and its memory with it. *)
Die ==
  /\ phase' = "down"
  /\ memRow' = None /\ limit' = 0 /\ costAlert' = 0 /\ callers' = Nothing /\ next' = 1
  /\ written' = [written EXCEPT !.memory = None]

Enter(p) == phase' = p /\ UNCHANGED written

-----------------------------------------------------------------------------
(* A process is started with some flags and files. *)
Start(f) ==
  /\ phase = "down" /\ starts < MaxStarts
  /\ starts' = starts + 1
  /\ flags' = f
  /\ Enter("pricing")
  /\ UNCHANGED <<diskVars, localVars, edited>>

(* pricing.Load, and the detector: a bad price file is fatal. *)
LoadPricing ==
  /\ phase = "pricing"
  /\ IF flags.prices = Bad THEN Die
     ELSE /\ limit' = ConstructedLimit(flags.limit)
          /\ Enter("open")
          /\ UNCHANGED <<memRow, costAlert, callers, next>>
  /\ UNCHANGED <<flags, diskVars, starts, edited>>

(* The store.  Open migrates the tables and keeps their rows. *)
OpenStore ==
  /\ phase = "open"
  /\ \/ Enter(IF flags.db THEN "seed" ELSE "keys") /\ UNCHANGED localVars
     \/ flags.db /\ "open" \in Failures /\ Die
  /\ UNCHANGED <<flags, diskVars, starts, edited>>

(* Mutant: INSERT OR REPLACE. *)
SeededOver ==
  [m \in DOMAIN book \cup DOMAIN flags.prices |->
     IF m \in DOMAIN flags.prices THEN [price |-> flags.prices[m], source |-> "seed"]
     ELSE book[m]]

(* SeedModelPrices: one INSERT of all rows, ON CONFLICT DO NOTHING.         *)
Seeded ==
  [m \in DOMAIN book \cup DOMAIN flags.prices |->
     IF m \in DOMAIN book THEN book[m]
     ELSE [price |-> flags.prices[m], source |-> "seed"]]

SeedModelPrices ==
  /\ phase = "seed"
  /\ \/ Enter("keys") /\ book' = Seeded /\ UNCHANGED localVars
     \/ "seed" \in Failures /\ Die /\ UNCHANGED book
  /\ UNCHANGED <<flags, diskRow, starts, edited>>

(* loadKeys: a file that cannot be parsed is fatal, and so is an entry      *)
(* without key or id, whatever was read before it.                          *)
KeysRead == flags.keys = None \/ (flags.keys \notin {None, Bad} /\ next > Len(flags.keys))

(* Mutant: skipping what is incomplete. *)
Complete(e) == e.key # None

ValidEntry(e) == e.key # None /\ e.id # None

LoadKey ==
  /\ phase = "keys" /\ ~KeysRead
  /\ IF flags.keys = Bad THEN Die
     ELSE LET e == flags.keys[next] IN
       IF ~ValidEntry(e) THEN Die
       ELSE /\ callers' = Put(callers, e.key, [id |-> e.id, budget |-> e.budget])
            /\ next' = next + 1
            /\ UNCHANGED <<phase, memRow, limit, costAlert, written>>
  /\ UNCHANGED <<flags, diskVars, starts, edited>>

KeysDone ==
  /\ phase = "keys" /\ KeysRead
  /\ Enter("settings")
  /\ UNCHANGED <<flags, diskVars, localVars, starts, edited>>

Row == IF flags.db THEN diskRow ELSE memRow

(* Mutant: seeding the defaults again at every start. *)
SettingsReset == DefaultSettings

SettingsRead == IF Row = None THEN DefaultSettings ELSE Row

(* GetSettings, which stores the defaults in an empty table, and what run   *)
(* does with them; if it fails, the detector keeps the flag's limit.        *)
ApplySettings ==
  /\ phase = "settings"
  /\ \/ /\ limit' = ClampedLimit(SettingsRead.loop)
        /\ costAlert' = SettingsRead.cost
        /\ diskRow' = IF flags.db THEN SettingsRead ELSE diskRow
     \/ /\ flags.db /\ "settings" \in Failures
        /\ UNCHANGED <<limit, costAlert, diskRow>>
  /\ Enter("serving")
  /\ UNCHANGED <<flags, book, memRow, callers, next, starts, edited>>

(* The process is killed, or ListenAndServe fails and run returns.          *)
Crash ==
  /\ phase # "down"
  /\ Die
  /\ UNCHANGED <<flags, diskVars, starts, edited>>

(* The bound on starts is reached. *)
BoundReached == phase = "down" /\ starts = MaxStarts /\ UNCHANGED vars

-----------------------------------------------------------------------------
(* The seams others write through: UpdateSettings, an upsert on id 1, and   *)
(* the rows an administration tool keeps in model_prices.                   *)
UpdateSettings(s) ==
  /\ phase = "serving"
  /\ IF flags.db
     THEN diskRow' = s /\ written' = [written EXCEPT !.disk = s] /\ UNCHANGED memRow
     ELSE memRow' = s /\ written' = [written EXCEPT !.memory = s] /\ UNCHANGED diskRow
  /\ UNCHANGED <<phase, flags, book, limit, costAlert, callers, next, starts, edited>>

EditPrice(m, row) ==
  /\ m \in DOMAIN book
  /\ book' = Put(book, m, row) /\ edited' = Put(edited, m, row)
  /\ UNCHANGED <<phase, flags, diskRow, localVars, starts, written>>

AllFlags == [db : BOOLEAN, limit : LimitFlags, keys : KeyFiles \cup {Bad, None},
             prices : PriceFiles]

Init ==
  /\ phase = "down"
  /\ flags = [db |-> FALSE, limit |-> 0, keys |-> None, prices |-> Bad]
  /\ diskRow = None /\ memRow = None /\ book = Nothing
  /\ limit = 0 /\ costAlert = 0 /\ callers = Nothing /\ next = 1
  /\ starts = 0
  /\ written = [disk |-> None, memory |-> None] /\ edited = Nothing

Next ==
  \/ \E f \in AllFlags : Start(f)
  \/ LoadPricing \/ OpenStore \/ SeedModelPrices \/ LoadKey \/ KeysDone \/ ApplySettings
  \/ Crash \/ BoundReached
  \/ \E s \in Settings : UpdateSettings(s)
  \/ \E m \in DOMAIN book, row \in EditedRows : EditPrice(m, row)

Spec == Init /\ [][Next]_vars

-----------------------------------------------------------------------------
(* A process that serves has got through its start completely: with a keys  *)
(* file it knows every key of the file and no other, each as its last entry *)
(* says, although entries were stored one by one before a bad one was met;  *)
(* and it runs with the settings last stored in its store, by whichever     *)
(* process, or the defaults, unless they were stored or failed to be read   *)
(* while it ran.                                                            *)
KeysAreComplete ==
  flags.keys # None =>
    /\ \A i \in DOMAIN flags.keys : flags.keys[i].key # None /\ flags.keys[i].id # None
    /\ DOMAIN callers = {flags.keys[i].key : i \in DOMAIN flags.keys}
    /\ \A k \in DOMAIN callers : \E i \in DOMAIN flags.keys :
         /\ flags.keys[i].key = k /\ callers[k].id = flags.keys[i].id
         /\ callers[k].budget = flags.keys[i].budget
         /\ \A j \in DOMAIN flags.keys : j > i => flags.keys[j].key # k

StoredSettings ==
  LET last == IF flags.db THEN written.disk ELSE written.memory
  IN  IF last = None THEN DefaultSettings ELSE last

ServesAsConfigured ==
  [][(phase # "serving" /\ phase' = "serving") =>
       /\ KeysAreComplete
       /\ \/ limit' = ClampedLimit(StoredSettings.loop) /\ costAlert' = StoredSettings.cost
          \/ flags.db /\ "settings" \in Failures /\ limit' = limit /\ costAlert' = 0]_vars

(* The price book outlives every restart with whatever price file: a row    *)
(* that was edited stays as it was edited last, and from the first start    *)
(* that served with the database on, every model of the file it was started *)
(* with has a row.                                                          *)
PriceBookIsKept ==
  /\ \A m \in DOMAIN edited : m \in DOMAIN book /\ book[m] = edited[m]
  /\ (phase = "serving" /\ flags.db) => DOMAIN flags.prices \subseteq DOMAIN book

(* README.md, the table of flags: -limit is the repeat threshold before     *)
(* blocking.  As long as nobody has stored other settings, it is what the   *)
(* detector runs with.                                                      *)
LimitFlagCounts ==
  (phase = "serving" /\ written = [disk |-> None, memory |-> None]) =>
    limit = ConstructedLimit(flags.limit)
=============================================================================

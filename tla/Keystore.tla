------------------------------ MODULE Keystore ------------------------------
(***************************************************************************)
(* One user's wallets (backend/src/wallets/keystore.js): the live keystore *)
(* and the archive of deleted wallets, two encrypted files, each read once *)
(* by a process, cached, and rewritten whole through a temporary file and  *)
(* a rename.  The server adds, moves and deletes wallets; the archive      *)
(* commands (backend/scripts/archive.js) restore and purge them from a     *)
(* process of their own, with caches of their own.                         *)
(*                                                                         *)
(* A wallet is its key: an id is not kept apart from the address, as a     *)
(* file holds an address once.  Encryption, labels and the caps on counts  *)
(* in routes/wallets.js are left out.  Writing the temporary file is one   *)
(* step and the rename another; deletedAt is a counter.                    *)
(***************************************************************************)
EXTENDS Naturals, FiniteSets

CONSTANTS
  Keys,          \* private keys
  Roles,         \* ROLES
  Singletons,    \* SINGLETON_ROLES
  MaxArchived,   \* MAX_ARCHIVED
  Before,        \* a key in the archive at the start, or none
  Commands,      \* when archive commands are run: the server "stopped", "between"
                 \* two of its requests, or at "any" time
  None,          \* no cache, no temporary file
  MaxAsks,       \* bound on requests and commands
  MaxFaults,     \* bound on file writes that fail
  MaxStops       \* bound on crashes of either process

ASSUME KeystoreAssumption ==
  /\ "dev" \in Singletons /\ Singletons \subseteq Roles
  /\ MaxArchived \in Nat \ {0} /\ "bundle" \in Roles
  /\ Before \subseteq Keys /\ IsFiniteSet(Keys) /\ Cardinality(Before) <= 1
  /\ Commands \in {"stopped", "between", "any"}
  /\ MaxAsks \in Nat /\ MaxFaults \in Nat /\ MaxStops \in Nat

Files == {"live", "bin"}
Procs == {"server", "shell"}

VARIABLES
  disk,     \* the two files
  tmp,      \* their temporary files, which the two processes share
  cache,    \* vault(): what each process holds of each file, None before load()
  todo,     \* writes left in the running call of a process: file and new contents
  wrote,    \* the first of them has its temporary file written
  call,     \* what the running call answers when its writes are done
  up,       \* the server runs
  asks, faults, stops,
  owed,     \* history: keys the user was told are his, and not told are destroyed
  out,      \* history: keys deleted, with an answer, and not brought back
  dead      \* history: keys purged, with an answer, and not archived again

files == <<disk, tmp>>
ghosts == <<owed, out, dead>>
vars == <<disk, tmp, cache, todo, wrote, call, up, asks, faults, stops, owed, out, dead>>

(* The contents of the files: which wallets, in which role, deleted when.  *)
LiveStores == UNION {[S -> Roles] : S \in SUBSET Keys}
BinStores  == UNION {[S -> [role : Roles, at : 0..MaxAsks]] : S \in SUBSET Keys}
Contents(f) == IF f = "live" THEN LiveStores ELSE BinStores
Empty == [k \in {} |-> None]

ASSUME NoneAssumption == \A f \in Files : None \notin Contents(f)

With(store, k, entry) == [j \in DOMAIN store \cup {k} |-> IF j = k THEN entry ELSE store[j]]
Without(store, k) == [j \in DOMAIN store \ {k} |-> store[j]]
Only(store, S) == [j \in S |-> store[j]]

(* The newest MAX_ARCHIVED of an archive: what eviction leaves.            *)
Newest(bin) ==
  {k \in DOMAIN bin :
     Cardinality({j \in DOMAIN bin : bin[j].at > bin[k].at}) < MaxArchived}

Held(store, role) == \E k \in DOMAIN store : store[k] = role
Taken(store, role) == role \in Singletons /\ Held(store, role)

NoCall == [kind |-> "none", keys |-> {}]
Idle(p) == call[p].kind = "none"
Ready(p, f) == cache[p][f] # None
Step(f, store) == [file |-> f, store |-> store]

Init ==
  /\ disk = [f \in Files |-> IF f = "live" THEN Empty
                             ELSE [k \in Before |-> [role |-> "bundle", at |-> 0]]]
  /\ tmp = [f \in Files |-> None]
  /\ cache = [p \in Procs |-> [f \in Files |-> None]]
  /\ todo = [p \in Procs |-> <<>>]
  /\ wrote = [p \in Procs |-> FALSE]
  /\ call = [p \in Procs |-> NoCall]
  /\ up = TRUE
  /\ asks = 0 /\ faults = 0 /\ stops = 0
  /\ owed = Before /\ out = {} /\ dead = {}
-----------------------------------------------------------------------------
(* load(): a file is read at its first use and kept until the process ends.*)
Load(p, f) ==
  /\ ~Ready(p, f)
  /\ IF p = "server" THEN up /\ Idle(p) ELSE call[p].kind = "restore"
  /\ cache' = [cache EXCEPT ![p][f] = disk[f]]
  /\ UNCHANGED <<files, todo, wrote, call, up, asks, faults, stops, ghosts>>

Ask == asks < MaxAsks /\ asks' = asks + 1
Alone == Commands = "any" \/ Idle("shell")

(* A call of the server that rewrites the given files in turn.             *)
Serve(kind, keys, steps) ==
  /\ up /\ Idle("server") /\ Alone /\ Ask
  /\ call' = [call EXCEPT !["server"] = [kind |-> kind, keys |-> keys]]
  /\ todo' = [todo EXCEPT !["server"] = steps]
  /\ UNCHANGED <<files, cache, wrote, up, faults, stops>>

(* generate(): add() puts each fresh wallet in the cache and one write     *)
(* follows.  A second wallet in a singleton role throws before that write  *)
(* and leaves the first in the cache.                                      *)
Generate(S, role) ==
  LET live == cache["server"]["live"]
      fresh == S \cap (DOMAIN disk["live"] \cup DOMAIN disk["bin"] \cup DOMAIN live
                         \cup owed \cup out \cup dead) = {}
  IN /\ Ready("server", "live") /\ fresh /\ ~Taken(live, role)
     /\ IF role \in Singletons /\ Cardinality(S) > 1
          THEN /\ up /\ Idle("server") /\ Alone /\ Ask
               /\ \E k \in S : cache' = [cache EXCEPT !["server"]["live"] = With(live, k, role)]
               /\ UNCHANGED <<files, todo, wrote, call, up, faults, stops, ghosts>>
          ELSE /\ Serve("add", S, <<Step("live", [k \in DOMAIN live \cup S |->
                                       IF k \in S THEN role ELSE live[k]])>>)
               /\ UNCHANGED ghosts

(* importKeys() with one key: add() and a write.                           *)
ImportKey(k, role) ==
  LET live == cache["server"]["live"] IN
  /\ Ready("server", "live") /\ k \notin DOMAIN live /\ ~Taken(live, role)
  /\ Serve("add", {k}, <<Step("live", With(live, k, role))>>)
  /\ out' = out \ {k} /\ UNCHANGED <<owed, dead>>

SetRole(k, role) ==
  LET live == cache["server"]["live"] IN
  /\ Ready("server", "live") /\ k \in DOMAIN live
  /\ live[k] # role /\ ~Taken(live, role)
  /\ Serve("role", {}, <<Step("live", With(live, k, role))>>)
  /\ UNCHANGED ghosts

(* What remove() makes of the archive: the key first, the oldest evicted.  *)
Archived(bin, k, role) ==
  LET grown == With(bin, k, [role |-> role, at |-> asks + 1])
  IN  Only(grown, Newest(grown))

(* Mutant: the live store is written first.                                *)
LiveFirst(live, bin, k) ==
  <<Step("live", Without(live, k)), Step("bin", Archived(bin, k, live[k]))>>

(* Mutant: the live store is not written.                                  *)
ArchiveOnly(live, bin, k) == <<Step("bin", Archived(bin, k, live[k]))>>

(* remove(): the archive is written before the key leaves the live store.  *)
RemoveSteps(live, bin, k) ==
  <<Step("bin", Archived(bin, k, live[k])), Step("live", Without(live, k))>>

Remove(k) ==
  LET live == cache["server"]["live"]
      bin == cache["server"]["bin"]
  IN /\ Ready("server", "live") /\ Ready("server", "bin") /\ k \in DOMAIN live
     /\ Serve("remove", {k}, RemoveSteps(live, bin, k))
     /\ dead' = dead \ {k} /\ UNCHANGED <<owed, out>>

(* archive.js: a command is a process that begins by reading the archive.  *)
Command(kind, k) ==
  /\ Idle("shell") /\ Ask
  /\ Commands = "stopped" => ~up
  /\ Commands = "between" => Idle("server")
  /\ k \in DOMAIN disk["bin"]
  /\ call' = [call EXCEPT !["shell"] = [kind |-> kind, keys |-> {k}]]
  /\ cache' = [cache EXCEPT !["shell"]["bin"] = disk["bin"]]
  /\ UNCHANGED <<files, todo, wrote, up, faults, stops, ghosts>>

Done(p) ==
  /\ call' = [call EXCEPT ![p] = NoCall]
  /\ todo' = [todo EXCEPT ![p] = <<>>]
  /\ wrote' = [wrote EXCEPT ![p] = FALSE]

(* restore(): refused for an address that is live already, or a second dev *)
(* wallet; the live store is written before the archive forgets the key.   *)
RestoreRefused(live, k, role) ==
  k \in DOMAIN live \/ (role = "dev" /\ Held(live, "dev"))

RestoreSteps(live, bin, k) ==
  <<Step("live", With(live, k, bin[k].role)), Step("bin", Without(bin, k))>>

Restore(k) ==
  LET live == cache["shell"]["live"]
      bin == cache["shell"]["bin"]
  IN /\ call["shell"] = [kind |-> "restore", keys |-> {k}]
     /\ todo["shell"] = <<>> /\ Ready("shell", "live")
     /\ IF RestoreRefused(live, k, bin[k].role)
          THEN /\ Done("shell")
               /\ cache' = [cache EXCEPT !["shell"] = [f \in Files |-> None]]
               /\ UNCHANGED out
          ELSE /\ todo' = [todo EXCEPT !["shell"] = RestoreSteps(live, bin, k)]
               /\ out' = out \ {k}
               /\ UNCHANGED <<cache, call, wrote>>
     /\ UNCHANGED <<files, up, asks, faults, stops, owed, dead>>

Purge(k) ==
  /\ call["shell"] = [kind |-> "purge", keys |-> {k}] /\ todo["shell"] = <<>>
  /\ todo' = [todo EXCEPT !["shell"] = <<Step("bin", Without(cache["shell"]["bin"], k))>>]
  /\ owed' = owed \ {k}
  /\ UNCHANGED <<files, cache, wrote, call, up, asks, faults, stops, out, dead>>
-----------------------------------------------------------------------------
Writing(p) == todo[p] # <<>>
Target(p) == todo[p][1].file

(* The keys a write of the archive drops to make room: logged as destroyed *)
(* before the write, whatever becomes of it.                               *)
Evicted(p) ==
  IF call[p].kind = "remove" /\ Target(p) = "bin"
    THEN (DOMAIN cache[p]["bin"] \ DOMAIN todo[p][1].store)
           \ (DOMAIN cache[p]["live"] \cap DOMAIN disk["live"])
    ELSE {}

(* persist(): the cache has the change; the temporary file is written.     *)
WriteTmp(p) ==
  /\ Writing(p) /\ ~wrote[p]
  /\ cache' = [cache EXCEPT ![p][Target(p)] = todo[p][1].store]
  /\ tmp' = [tmp EXCEPT ![Target(p)] = todo[p][1].store]
  /\ wrote' = [wrote EXCEPT ![p] = TRUE]
  /\ owed' = owed \ Evicted(p)
  /\ UNCHANGED <<disk, todo, call, up, asks, faults, stops, out, dead>>

(* A command that has ended takes its caches with it.                      *)
Kept(p) == IF p = "shell" THEN [f \in Files |-> None] ELSE cache[p]

WriteFails(p) ==
  /\ Writing(p) /\ ~wrote[p] /\ faults < MaxFaults
  /\ faults' = faults + 1
  /\ cache' = [cache EXCEPT ![p] = IF p = "shell" THEN Kept(p)
                                   ELSE [@ EXCEPT ![Target(p)] = todo[p][1].store]]
  /\ owed' = owed \ Evicted(p)
  /\ Done(p)
  /\ UNCHANGED <<files, up, asks, stops, out, dead>>

(* The rename, and after the last one the answer.                          *)
Rename(p) ==
  /\ Writing(p) /\ wrote[p] /\ tmp[Target(p)] # None
  /\ disk' = [disk EXCEPT ![Target(p)] = tmp[Target(p)]]
  /\ tmp' = [tmp EXCEPT ![Target(p)] = None]
  /\ IF 2 \in DOMAIN todo[p]
       THEN /\ todo' = [todo EXCEPT ![p] = <<todo[p][2]>>]
            /\ wrote' = [wrote EXCEPT ![p] = FALSE]
            /\ UNCHANGED <<cache, call, ghosts>>
       ELSE /\ cache' = [cache EXCEPT ![p] = Kept(p)]
            /\ owed' = IF call[p].kind \in {"add", "restore"} THEN owed \cup call[p].keys ELSE owed
            /\ out' = IF call[p].kind = "remove" THEN out \cup call[p].keys ELSE out
            /\ dead' = IF call[p].kind = "purge" THEN dead \cup call[p].keys ELSE dead
            /\ Done(p)
  /\ UNCHANGED <<up, asks, faults, stops>>

(* A rename that fails: also one whose temporary file the other process    *)
(* has renamed already.                                                    *)
RenameFails(p) ==
  /\ Writing(p) /\ wrote[p]
  /\ tmp[Target(p)] # None => faults < MaxFaults
  /\ faults' = IF tmp[Target(p)] = None THEN faults ELSE faults + 1
  /\ cache' = [cache EXCEPT ![p] = Kept(p)]
  /\ Done(p)
  /\ UNCHANGED <<files, up, asks, stops, ghosts>>

(* A process ends, between any two of its steps; the server's caches, and  *)
(* what they held that was never written, are gone.                        *)
Stop(p) ==
  /\ IF p = "server" THEN up ELSE ~Idle(p)
  /\ stops < MaxStops /\ stops' = stops + 1
  /\ up' = (up /\ p # "server")
  /\ cache' = [cache EXCEPT ![p] = [f \in Files |-> None]]
  /\ Done(p)
  /\ UNCHANGED <<files, asks, faults, ghosts>>

Boot ==
  /\ ~up /\ Alone
  /\ up' = TRUE
  /\ UNCHANGED <<files, cache, todo, wrote, call, asks, faults, stops, ghosts>>

Next ==
  \/ \E p \in Procs, f \in Files : Load(p, f)
  \/ \E S \in SUBSET Keys \ {{}}, role \in Roles : Generate(S, role)
  \/ \E k \in Keys, role \in Roles : ImportKey(k, role) \/ SetRole(k, role)
  \/ \E k \in Keys : Remove(k) \/ Restore(k) \/ Purge(k)
  \/ \E kind \in {"restore", "purge"}, k \in Keys : Command(kind, k)
  \/ \E p \in Procs : WriteTmp(p) \/ WriteFails(p) \/ Rename(p) \/ RenameFails(p) \/ Stop(p)
  \/ Boot

Spec == Init /\ [][Next]_vars
-----------------------------------------------------------------------------
TypeOK ==
  /\ \A f \in Files : disk[f] \in Contents(f) /\ tmp[f] \in Contents(f) \cup {None}
  /\ \A p \in Procs, f \in Files : cache[p][f] \in Contents(f) \cup {None}
  /\ \A p \in Procs :
       /\ \A i \in DOMAIN todo[p] : /\ todo[p][i].file \in Files
                                   /\ todo[p][i].store \in Contents(todo[p][i].file)
       /\ cache[p]["bin"] # None => Cardinality(DOMAIN cache[p]["bin"]) <= MaxArchived
       /\ wrote[p] \in BOOLEAN /\ call[p].keys \subseteq Keys
       /\ call[p].kind \in {"none", "add", "role", "remove", "restore", "purge"}
  /\ up \in BOOLEAN
  /\ asks \in 0..MaxAsks /\ faults \in 0..MaxFaults /\ stops \in 0..MaxStops
  /\ owed \cup out \cup dead  \subseteq Keys

(* A key the user was told is his is in one of the two files, whatever     *)
(* write fails and whichever process dies between two writes, until he     *)
(* purges it or the server's log says an eviction destroys it              *)
(* (keystore.js:485-486, "the other order loses it").  Holds while the     *)
(* commands are run with the server stopped, and not beside a running one, *)
(* whatever archive.js:154 tells the operator.                             *)
KeyKept == \A k \in owed : \E f \in Files : k \in DOMAIN disk[f]

(* A delete and a purge that were answered last: neither a stale cache nor *)
(* a restart puts the key back into the file it was taken from.            *)
GoneStaysGone ==
  /\ out \cap DOMAIN disk["live"] = {}
  /\ dead \cap DOMAIN disk["bin"] = {}

(* One wallet per singleton role, in the file and in what the server       *)
(* serves (keystore.js:177-193).  Does not hold: restore() looks for a     *)
(* second holder of "dev" only.                                            *)
OneHolder ==
  \A r \in Singletons, store \in {disk["live"], cache["server"]["live"]} :
    store # None => Cardinality({k \in DOMAIN store : store[k] = r}) <= 1
=============================================================================

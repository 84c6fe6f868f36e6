----------------------------- MODULE CertStore -----------------------------
(***************************************************************************)
(* tls/cert_store.rs and tls/sni.rs: one proxy instance's view of the      *)
(* certificates.  The database is the authority; below it are two files    *)
(* per domain, a map in memory, and the keys the handshake is answered     *)
(* with, which one task reloads from the database every minute.            *)
(*                                                                         *)
(* A certificate is a serial number; a pair is the serial of its chain and *)
(* the serial of its key, so a chain read with another's key shows.        *)
(***************************************************************************)
EXTENDS Naturals, Sequences

CONSTANTS
  CertNames,     \* the domains certificates are stored for, as sequences of labels
  Renewed,       \* those whose certificates are read and written in a behaviour
  Hellos,        \* SNI names clients ask for; <<>> is none
  Unreadable,    \* serials whose PEM does not parse
  Savers,        \* tasks of this instance that may save: the worker, an upload
  MaxSerial,     \* bound: certificates ever stored
  MaxLosses      \* bound: calls of remove and losses of the process

ASSUME CertAssumption ==
  /\ MaxSerial \in Nat \ {0} /\ MaxLosses \in Nat
  /\ Renewed \subseteq CertNames /\ CertNames \cup Hellos \subseteq Seq(STRING)

Serial == 0..MaxSerial                       \* 0: there is none
Pair == [crt : Serial, key : Serial]
Whole(s) == [crt |-> s, key |-> s]
Nothing == Whole(0)
NoPairs == [n \in CertNames |-> Nothing]

VARIABLES
  certDb,        \* proxy_certificates
  crtFile, keyFile,   \* <domain>.crt and <domain>.key
  cache,         \* CertificateStore.cache
  served,        \* SniCertResolver.keys
  saving,        \* per saver: where its save stands
  getting, removing, refreshing,
  serial, losses

certVars == <<certDb, crtFile, keyFile, cache, served, saving, getting, removing, refreshing, serial, losses>>

Task(pc, name, pair) == [pc |-> pc, name |-> name, pair |-> pair]
Idle == Task("idle", CHOOSE n \in Renewed : TRUE, Nothing)

\* Every domain has the certificate first, or none has one when that is 0;
\* used serials were issued and lost processes counted before.
CertStart(first, used, lost) ==
  /\ certDb = [n \in CertNames |-> Whole(first)] /\ serial = used
  /\ crtFile = [n \in CertNames |-> 0] /\ keyFile = crtFile
  /\ cache = NoPairs /\ served = NoPairs
  /\ saving = [s \in Savers |-> Idle]
  /\ getting = Idle /\ removing = 0 /\ losses = lost
  /\ refreshing = [pc |-> "sleep", rows |-> NoPairs]

CertInit == CertStart(1, 1, 0)

(***************************************************************************)
(* save: the database, the two files, the map                              *)
(***************************************************************************)
SaveToDatabase(s, n) ==
  /\ saving[s].pc = "idle" /\ serial < MaxSerial
  /\ serial' = serial + 1
  /\ certDb' = [certDb EXCEPT ![n] = Whole(serial + 1)]
  /\ saving' = [saving EXCEPT ![s] = Task("crt", n, Whole(serial + 1))]
  /\ UNCHANGED <<crtFile, keyFile, cache, served, getting, removing, refreshing, losses>>

\* save_to_file: a write that fails ends the save, the row being stored already.
SaveToFile(s) ==
  /\ \/ /\ saving[s].pc = "crt"
        /\ crtFile' = [crtFile EXCEPT ![saving[s].name] = saving[s].pair.crt]
        /\ saving' = [saving EXCEPT ![s].pc = "key"] /\ UNCHANGED keyFile
     \/ /\ saving[s].pc = "key"
        /\ keyFile' = [keyFile EXCEPT ![saving[s].name] = saving[s].pair.key]
        /\ saving' = [saving EXCEPT ![s].pc = "cache"] /\ UNCHANGED crtFile
     \/ /\ saving[s].pc \in {"crt", "key"}
        /\ saving' = [saving EXCEPT ![s] = Idle] /\ UNCHANGED <<crtFile, keyFile>>
  /\ UNCHANGED <<certDb, cache, served, getting, removing, refreshing, serial, losses>>

SaveToCache(s) ==
  /\ saving[s].pc = "cache"
  /\ cache' = [cache EXCEPT ![saving[s].name] = saving[s].pair]
  /\ saving' = [saving EXCEPT ![s] = Idle]
  /\ UNCHANGED <<certDb, crtFile, keyFile, served, getting, removing, refreshing, serial, losses>>

\* Another instance stores a certificate.
OtherInstance(n) ==
  /\ serial < MaxSerial /\ serial' = serial + 1
  /\ certDb' = [certDb EXCEPT ![n] = Whole(serial + 1)]
  /\ UNCHANGED <<crtFile, keyFile, cache, served, saving, getting, removing, refreshing, losses>>

(***************************************************************************)
(* get: memory, then the files, then the database, with no lock held while *)
(* it reads and none over the insertion's inputs                           *)
(***************************************************************************)
Get(n) ==
  /\ getting.pc = "idle" /\ cache[n] = Nothing
  /\ getting' = Task("readcrt", n, Nothing)
  /\ UNCHANGED <<certDb, crtFile, keyFile, cache, served, saving, removing, refreshing, serial, losses>>

LoadFromFile ==
  /\ \/ /\ getting.pc = "readcrt" /\ crtFile[getting.name] # 0
        /\ getting' = [getting EXCEPT !.pc = "readkey", !.pair.crt = crtFile[getting.name]]
     \/ /\ getting.pc = "readkey" /\ keyFile[getting.name] # 0
        /\ getting' = [getting EXCEPT !.pc = "insert", !.pair.key = keyFile[getting.name]]
     \/ /\ \/ getting.pc = "readcrt" /\ crtFile[getting.name] = 0
           \/ getting.pc = "readkey" /\ keyFile[getting.name] = 0
        /\ getting' = [getting EXCEPT !.pc = "database"]
  /\ UNCHANGED <<certDb, crtFile, keyFile, cache, served, saving, removing, refreshing, serial, losses>>

LoadFromDatabase ==
  /\ getting.pc = "database"
  /\ getting' = IF certDb[getting.name] = Nothing THEN Idle
                ELSE Task("writecrt", getting.name, certDb[getting.name])
  /\ UNCHANGED <<certDb, crtFile, keyFile, cache, served, saving, removing, refreshing, serial, losses>>

\* What came from the database goes to the files; a failure there is ignored.
CacheToFile ==
  /\ \/ /\ getting.pc = "writecrt" /\ getting' = [getting EXCEPT !.pc = "writekey"]
        /\ crtFile' = [crtFile EXCEPT ![getting.name] = getting.pair.crt] /\ UNCHANGED keyFile
     \/ /\ getting.pc = "writekey" /\ getting' = [getting EXCEPT !.pc = "insert"]
        /\ keyFile' = [keyFile EXCEPT ![getting.name] = getting.pair.key] /\ UNCHANGED crtFile
     \/ /\ getting.pc \in {"writecrt", "writekey"} /\ getting' = [getting EXCEPT !.pc = "insert"]
        /\ UNCHANGED <<crtFile, keyFile>>
  /\ UNCHANGED <<certDb, cache, served, saving, removing, refreshing, serial, losses>>

CacheInsert ==
  /\ getting.pc = "insert"
  /\ cache' = [cache EXCEPT ![getting.name] = getting.pair]
  /\ getting' = Idle
  /\ UNCHANGED <<certDb, crtFile, keyFile, served, saving, removing, refreshing, serial, losses>>

(***************************************************************************)
(* remove: the row, the files, the map, counted by removing.               *)
(***************************************************************************)
RemovedName == CHOOSE n \in Renewed : TRUE
Remove ==
  /\ removing = 0 => losses < MaxLosses
  /\ losses' = IF removing = 0 THEN losses + 1 ELSE losses
  /\ removing' = (removing + 1) % 4
  /\ certDb' = IF removing = 0 THEN [certDb EXCEPT ![RemovedName] = Nothing] ELSE certDb
  /\ crtFile' = IF removing = 1 THEN [crtFile EXCEPT ![RemovedName] = 0] ELSE crtFile
  /\ keyFile' = IF removing = 2 THEN [keyFile EXCEPT ![RemovedName] = 0] ELSE keyFile
  /\ cache' = IF removing = 3 THEN [cache EXCEPT ![RemovedName] = Nothing] ELSE cache
  /\ UNCHANGED <<served, saving, getting, refreshing, serial>>

(***************************************************************************)
(* refresh, by the one task that runs it.  A read that fails changes       *)
(* nothing: the next minute tries again.                                   *)
(***************************************************************************)

LoadAll ==
  /\ refreshing.pc = "sleep"
  /\ refreshing' = [pc |-> "cache", rows |-> certDb]
  /\ UNCHANGED <<certDb, crtFile, keyFile, cache, served, saving, getting, removing, serial, losses>>

ReplaceCache ==
  /\ refreshing.pc = "cache"
  /\ cache' = refreshing.rows
  /\ refreshing' = [refreshing EXCEPT !.pc = "serve"]
  /\ UNCHANGED <<certDb, crtFile, keyFile, served, saving, getting, removing, serial, losses>>

\* Mutant: a row that does not parse fails the refresh.
AllOrNothing(rows) ==
  IF \E n \in CertNames : rows[n].crt \in Unreadable THEN served ELSE rows

\* A row that does not parse is left out; the others are served.
Parsed(rows) == [n \in CertNames |-> IF rows[n].crt \in Unreadable THEN Nothing ELSE rows[n]]

\* Mutant: what the map holds by now is served.
ServeCache ==
  /\ refreshing.pc = "serve"
  /\ served' = Parsed(cache)
  /\ refreshing' = [pc |-> "sleep", rows |-> NoPairs]
  /\ UNCHANGED <<certDb, crtFile, keyFile, cache, saving, getting, removing, serial, losses>>

Serve ==
  /\ refreshing.pc = "serve"
  /\ served' = Parsed(refreshing.rows)
  /\ refreshing' = [pc |-> "sleep", rows |-> NoPairs]
  /\ UNCHANGED <<certDb, crtFile, keyFile, cache, saving, getting, removing, serial, losses>>

\* The process stops and starts: the files and the database stay.
CertRestart ==
  /\ losses < MaxLosses /\ losses' = losses + 1
  /\ cache' = NoPairs /\ served' = NoPairs
  /\ saving' = [s \in Savers |-> Idle] /\ getting' = Idle
  /\ removing' = 0
  /\ refreshing' = [pc |-> "sleep", rows |-> NoPairs]
  /\ UNCHANGED <<certDb, crtFile, keyFile, serial>>

(***************************************************************************)
(* The handshake, answered from served alone                               *)
(***************************************************************************)
Fallback == Whole(MaxSerial + 1)             \* the certificate of the config file
Holds(name) == name \in CertNames /\ served[name] # Nothing

\* The exact name, else the wildcard in place of its first label.
Lookup(name) ==
  IF Holds(name) THEN served[name]
  ELSE IF Len(name) > 2 /\ Holds(<<"*">> \o Tail(name)) THEN served[<<"*">> \o Tail(name)]
  ELSE Nothing

Resolve(name) ==
  IF name = <<>> \/ Lookup(name) = Nothing THEN Fallback ELSE Lookup(name)

Refresh == LoadAll \/ ReplaceCache \/ Serve
GetSteps == LoadFromFile \/ LoadFromDatabase \/ CacheToFile \/ CacheInsert
SaveSteps == \E s \in Savers : SaveToFile(s) \/ SaveToCache(s)

CertNext ==
  \/ \E s \in Savers, n \in Renewed : SaveToDatabase(s, n)
  \/ \E n \in Renewed : OtherInstance(n) \/ Get(n)
  \/ SaveSteps \/ GetSteps \/ Remove \/ Refresh \/ CertRestart

CertFairness == WF_certVars(Refresh) /\ WF_certVars(GetSteps) /\ WF_certVars(SaveSteps)
CertSpec == CertInit /\ [][CertNext]_certVars /\ CertFairness

(***************************************************************************)
(* Properties                                                              *)
(***************************************************************************)
\* The variables of the certificate store keep their types.
CertTypeOK ==
  /\ certDb \in [CertNames -> Pair] /\ cache \in [CertNames -> Pair] /\ served \in [CertNames -> Pair]
  /\ crtFile \in [CertNames -> Serial] /\ keyFile \in [CertNames -> Serial]
  /\ serial \in Serial /\ removing \in 0..3 /\ losses \in 0..MaxLosses

\* No handshake is answered with one certificate's chain and another's key,
\* though the files may hold such a pair and get may put it in memory
\* (load_all: "from the database rather than from a cache").
ServedPairsMatch == \A n \in CertNames : served[n].crt = served[n].key

\* A client is answered with a certificate issued for the name it asked for,
\* its own before a wildcard's, and with the fallback only when none is
\* loaded (RFC 6125: a wildcard stands for exactly one label).
Covers(d, name) == d = name \/ (d[1] = "*" /\ Len(d) > 2 /\ Len(d) = Len(name) /\ Tail(d) = Tail(name))
HandshakeCovered ==
  \A h \in Hellos \ {<<>>} :
    LET loaded == {d \in CertNames : Holds(d) /\ Covers(d, h)}
    IN Resolve(h) = IF loaded = {} THEN Fallback
                    ELSE served[IF h \in loaded THEN h ELSE CHOOSE d \in loaded : TRUE]

\* A renewed certificate is never replaced by the one it renewed, whatever
\* older copy a file, the map or a slow reader still holds.
ServedNeverOlder ==
  [][\A n \in CertNames : served'[n] # Nothing => served'[n].crt >= served[n].crt]_certVars

\* Once the database rests, what it holds comes to be served and stays served,
\* other instances' renewals too, and what was removed stops; a row that does
\* not parse takes nobody else's certificate with it.
DatabaseRests == <>[][certDb' = certDb]_certVars
StoredIsServed ==
  DatabaseRests =>
    <>[](\A n \in CertNames : served[n] = IF certDb[n].crt \in Unreadable THEN Nothing ELSE certDb[n])

\* Whatever saves, reads, removals and refreshes meet, a handshake is answered
\* with a whole pair, issued for the name asked for, and never an older one.
HandshakesAreSound == []ServedPairsMatch /\ []HandshakeCovered /\ ServedNeverOlder
=============================================================================

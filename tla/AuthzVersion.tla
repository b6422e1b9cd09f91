----------------------------- MODULE AuthzVersion -----------------------------
(***************************************************************************)
(* One user's authz_version in the database and its copy in Redis, which   *)
(* SessionVersionGuard compares with the version of an access token on     *)
(* every request.  Redis commands may fail, before or after they took      *)
(* effect, and the key may be lost at any time.                            *)
(***************************************************************************)
EXTENDS Naturals

CONSTANTS Procs,  \* requests and session ends under way
          MaxAuthz,  \* bound on authz_version
          NoKey

ASSUME AuthzAssumption == MaxAuthz \in Nat /\ NoKey \notin Nat

VARIABLES
    dbVersion,  \* users.authz_version
    cache,      \* the key authz:v:<user>, NoKey if missing
    published,  \* highest version written since the key was last lost, 0 if none
    step, val,  \* step of a process and the version it holds
    due         \* the version that a guard may not fall behind

authzVars == <<dbVersion, cache, published, step, val, due>>

AuthzTypeOK ==
    /\ dbVersion \in 0 .. MaxAuthz
    /\ cache \in 0 .. MaxAuthz \cup {NoKey}
    /\ published \in 0 .. MaxAuthz
    /\ step \in [Procs -> {"idle", "publish", "delete", "read", "readOnly", "fill", "decide"}]
    /\ val \in [Procs -> 0 .. MaxAuthz]
    /\ due \in [Procs -> 0 .. MaxAuthz]

AuthzInit ==
    /\ dbVersion = 0
    /\ cache = NoKey
    /\ published = 0
    /\ step = [p \in Procs |-> "idle"]
    /\ val = [p \in Procs |-> 0]
    /\ due = [p \in Procs |-> 0]

Go(p, label, v) ==
    /\ step' = [step EXCEPT ![p] = label]
    /\ val' = [val EXCEPT ![p] = v]

Larger(m, n) == IF m < n THEN n ELSE m

\* Fault: the last writer wins.
SetLast(v) == v

\* SET_MAX: what the key holds after writing v.
SetMax(v) == IF cache = NoKey THEN v ELSE Larger(cache, v)

-----------------------------------------------------------------------------
(* Write path.                                                             *)

\* The committed UPDATE of endSessions, bumpUsers or bumpRole.
bump(p) ==
    /\ step[p] = "idle"
    /\ dbVersion < MaxAuthz
    /\ dbVersion' = dbVersion + 1
    /\ Go(p, "publish", dbVersion + 1)
    /\ UNCHANGED <<cache, published, due>>

\* writeThrough.
WriteThrough(p) ==
    /\ step[p] = "publish"
    /\ cache' = SetMax(val[p])
    /\ published' = Larger(published, val[p])
    /\ Go(p, "idle", 0)
    /\ UNCHANGED <<dbVersion, due>>

\* The command raises an error, whether or not it reached Redis.
WriteThroughFails(p) ==
    /\ step[p] = "publish"
    /\ cache' \in {cache, SetMax(val[p])}
    /\ Go(p, "delete", 0)
    /\ UNCHANGED <<dbVersion, published, due>>

LoseKey == cache' = NoKey /\ published' = 0

DeleteKey(p) ==
    /\ step[p] = "delete"
    /\ LoseKey
    /\ Go(p, "idle", 0)
    /\ UNCHANGED <<dbVersion, due>>

\* The delete fails as well, or the server stops.
GiveUp(p) ==
    /\ step[p] \in {"publish", "delete"}
    /\ Go(p, "idle", 0)
    /\ UNCHANGED <<dbVersion, cache, published, due>>

\* The TTL runs out, or Redis is restarted.
ExpireKey ==
    /\ cache # NoKey
    /\ LoseKey
    /\ UNCHANGED <<dbVersion, step, val, due>>

-----------------------------------------------------------------------------
(* Read path: AuthzVersionService.current for a request.                   *)

\* The key is there: the guard decides on it.
GetHit(p) ==
    /\ step[p] = "idle"
    /\ cache # NoKey
    /\ due' = [due EXCEPT ![p] = published]
    /\ Go(p, "decide", cache)
    /\ UNCHANGED <<dbVersion, cache, published>>

\* It is missing ("read"), or Redis cannot be reached ("readOnly").
GetMiss(p, label) ==
    /\ step[p] = "idle"
    /\ label = "read" => cache = NoKey
    /\ due' = [due EXCEPT ![p] = dbVersion]
    /\ Go(p, label, 0)
    /\ UNCHANGED <<dbVersion, cache, published>>

ReadDb(p) ==
    /\ step[p] \in {"read", "readOnly"}
    /\ Go(p, IF step[p] = "read" THEN "fill" ELSE "decide", dbVersion)
    /\ UNCHANGED <<dbVersion, cache, published, due>>

\* A fill returns what the key holds then.
Fill(p) ==
    /\ step[p] = "fill"
    /\ cache' = SetMax(val[p])
    /\ Go(p, "decide", SetMax(val[p]))
    /\ UNCHANGED <<dbVersion, published, due>>

FillFails(p) ==
    /\ step[p] = "fill"
    /\ cache' \in {cache, SetMax(val[p])}
    /\ Go(p, "decide", val[p])
    /\ UNCHANGED <<dbVersion, published, due>>

\* SessionVersionGuard lets the token of version val[p] pass and no other.
Decide(p) ==
    /\ step[p] = "decide"
    /\ Go(p, "idle", 0)
    /\ due' = [due EXCEPT ![p] = 0]
    /\ UNCHANGED <<dbVersion, cache, published>>

AuthzNext ==
    \/ \E p \in Procs :
          \/ bump(p) \/ WriteThrough(p) \/ WriteThroughFails(p) \/ DeleteKey(p) \/ GiveUp(p)
          \/ GetHit(p) \/ GetMiss(p, "read") \/ GetMiss(p, "readOnly") \/ ReadDb(p)
          \/ Fill(p) \/ FillFails(p) \/ Decide(p)
    \/ ExpireKey

AuthzSpec == AuthzInit /\ [][AuthzNext]_authzVars

-----------------------------------------------------------------------------
(* Properties.                                                             *)

\* As long as the key lives it never falls behind a version that was published,
\* whatever fills from older reads are under way, and never runs ahead of the
\* database, so that no token of the present version is refused for good.
CacheKeepsUp ==
    cache # NoKey => published <= cache /\ cache <= dbVersion

\* The version a request is judged by is at least the one published before it
\* began, and the database's own if it found no key: an ended session's token is
\* refused on the next request, with Redis up or down.
GuardIsUpToDate ==
    \A p \in Procs : step[p] = "decide" => due[p] <= val[p] /\ val[p] <= dbVersion
=============================================================================

---------------------------- MODULE SessionsProofs ----------------------------
(***************************************************************************)
(* Both sides of a signed-in request, for any number of browsers, requests *)
(* at the same time and tokens.  Refresh-token families do not fork and do *)
(* not come back, an ended session's access tokens are refused, and a      *)
(* browser that sends what it was last given stays signed in.  The version *)
(* cache keeps up with what was published and the guard decides on a       *)
(* version that is up to date.  A tab is sent to the sign-in page only     *)
(* when its session ended.                                                 *)
(***************************************************************************)
EXTENDS Sessions, AuthzVersion, Client, TLAPS

-----------------------------------------------------------------------------
(* Refresh-token families.                                                 *)

Labels == {"idle", "sign", "store", "wait", "rotate", "renew", "respond", "end", "bump"}

SessionsType ==
    /\ version \in Nat
    /\ token \in [Tokens -> TokenRow \cup {NULL}]
    /\ access \in SUBSET [family : Tokens, av : Nat]
    /\ cookie \in [Browsers -> Tokens \cup {NULL}]
    /\ pc \in [Reqs -> Labels]
    /\ arg \in [Reqs -> Arg]

\* k is issued and not revoked.
Alive(k) == k \in Issued /\ token[k].state \in {"LIVE", "EXPIRED"}

\* Tokens and families that are referred to exist.
Refers ==
    /\ \A k \in Issued : token[k].family \in Issued
    /\ \A w \in Browsers : cookie[w] \in Issued \cup {NULL}
    /\ ended \subseteq Issued
    /\ \A a \in access : a.family \in Issued

\* What a request remembers.  The token it found to rotate is still there, since
\* whoever revokes one waits for the lock; and when the session of the token it has
\* rotated ended meanwhile, its version is behind.
ReqOK(o) ==
    /\ arg[o].k \in Issued \cup {NULL} /\ arg[o].row \in Issued \cup {NULL}
    /\ arg[o].av <= version
    /\ pc[o] \in {"wait", "rotate", "renew"} => arg[o].k \in Issued
    /\ pc[o] = "rotate" /\ arg[o].row # NULL => Alive(arg[o].row)
    /\ pc[o] = "renew" /\ token[arg[o].k].family \in ended => arg[o].av < version

OneRotates == \A r, o \in Reqs : pc[r] = "rotate" /\ pc[o] = "rotate" => r = o

OneAlive ==
    \A k, j \in Tokens : Alive(k) /\ Alive(j) /\ token[k].family = token[j].family => k = j

EndedAreDead == \A k \in Tokens : Alive(k) => token[k].family \notin ended

AccessOK == \A a \in access : a.av <= version /\ (a.family \in ended => a.av < version)

SessionsInv ==
    /\ SessionsType /\ Refers /\ (\A o \in Reqs : ReqOK(o))
    /\ OneRotates /\ OneAlive /\ EndedAreDead /\ AccessOK

LEMMA NoArgFits == NoArg \in Arg /\ NoArg.k = NULL /\ NoArg.av = 0 /\ NoArg.row = NULL
  BY DEF NoArg, Arg

LEMMA SessionsInitOK == Init => SessionsInv
<1> SUFFICES ASSUME Init PROVE SessionsInv
  OBVIOUS
<1>1. Issued = {}
  BY DEF Init, Issued
<1>2. SessionsType
  BY NoArgFits DEF Init, SessionsType, Labels
<1>3. \A o \in Reqs : ReqOK(o)
  BY NoArgFits DEF Init, ReqOK
<1> QED
  BY <1>1, <1>2, <1>3 DEF Init, SessionsInv, Refers, OneRotates, OneAlive, EndedAreDead, AccessOK, Alive

LEMMA PropertiesFollow == SessionsInv => OneTokenPerFamily /\ EndedSessionsAreRefused
<1> SUFFICES ASSUME SessionsInv PROVE OneTokenPerFamily /\ EndedSessionsAreRefused
  OBVIOUS
<1>1. ASSUME NEW k \in Issued, NEW f, k \in Unrevoked(f)
      PROVE  Alive(k) /\ k \in Tokens
  BY <1>1 DEF Unrevoked, Family, Alive, Issued
<1>2. OneTokenPerFamily
  BY <1>1 DEF SessionsInv, OneAlive, OneTokenPerFamily, Issued
<1> QED
  BY <1>2 DEF SessionsInv, AccessOK, EndedSessionsAreRefused

-----------------------------------------------------------------------------
(* What a step leaves of the rest.                                         *)

\* No token goes away or changes its family, and sessions end with a new version.
Grows ==
    /\ \A k \in Issued : k \in Issued' /\ token'[k].family = token[k].family
    /\ version' \in Nat /\ version <= version'
    /\ ended' = ended \/ version < version'

\* The token that another request is about to rotate is not revoked.
KeepsRows(r) ==
    \A o \in Reqs \ {r} : pc[o] = "rotate" /\ arg[o].row # NULL /\ Alive(arg[o].row) => Alive(arg[o].row)'

LEMMA OtherReqs ==
    ASSUME SessionsInv, Grows, NEW r, KeepsRows(r), NEW o \in Reqs \ {r},
           pc'[o] = pc[o], arg'[o] = arg[o]
    PROVE  ReqOK(o)'
<1>1. ReqOK(o) /\ arg[o] \in Arg /\ version \in Nat
  BY DEF SessionsInv, SessionsType
<1>2. arg[o].av \in Nat
  BY <1>1 DEF Arg
<1>3. arg'[o].k \in Issued' \cup {NULL} /\ arg'[o].row \in Issued' \cup {NULL}
  BY <1>1 DEF ReqOK, Grows
<1>4. arg'[o].av <= version'
  BY <1>1, <1>2 DEF ReqOK, Grows
<1>5. pc'[o] \in {"wait", "rotate", "renew"} => arg'[o].k \in Issued'
  BY <1>1 DEF ReqOK, Grows
<1>6. pc'[o] = "rotate" /\ arg'[o].row # NULL => Alive(arg[o].row)'
  BY <1>1 DEF ReqOK, KeepsRows
<1>7. ASSUME pc'[o] = "renew", token'[arg'[o].k].family \in ended' PROVE arg'[o].av < version'
  <2>1. token'[arg'[o].k].family = token[arg[o].k].family
    BY <1>1, <1>7 DEF ReqOK, Grows
  <2>2. CASE ended' = ended
    BY <1>1, <1>2, <1>7, <2>1, <2>2 DEF ReqOK, Grows
  <2>3. CASE version < version'
    BY <1>1, <1>2, <2>3 DEF ReqOK, Grows
  <2> QED
    BY <2>2, <2>3 DEF Grows
<1> QED
  BY <1>3, <1>4, <1>5, <1>6, <1>7 DEF ReqOK, Alive

LEMMA AfterGoto ==
    ASSUME SessionsType, NEW r \in Reqs, NEW label, NEW a, Goto(r, label, a)
    PROVE  /\ pc'[r] = label /\ arg'[r] = a
           /\ \A o \in Reqs \ {r} : pc'[o] = pc[o] /\ arg'[o] = arg[o]
  BY DEF SessionsType, Goto

\* The invariant from what the step does to the tokens and from what r remembers.
LEMMA Assemble ==
    ASSUME SessionsInv, SessionsType', Grows, NEW r \in Reqs, KeepsRows(r),
           \A o \in Reqs \ {r} : pc'[o] = pc[o] /\ arg'[o] = arg[o],
           pc'[r] = "rotate" => LockFree, ReqOK(r)',
           Refers', OneAlive', EndedAreDead', AccessOK'
    PROVE  SessionsInv'
<1>1. ASSUME NEW o \in Reqs PROVE ReqOK(o)'
  BY OtherReqs
<1>2. OneRotates'
  BY DEF SessionsInv, OneRotates, LockFree
<1> QED
  BY <1>1, <1>2 DEF SessionsInv

\* Tokens keep their families and are at most revoked.
Fades ==
    /\ Issued' = Issued
    /\ \A k \in Issued : token'[k].family = token[k].family
    /\ \A k \in Tokens : Alive(k)' => Alive(k)

LEMMA FadingStep ==
    ASSUME SessionsInv, SessionsType', Fades, Grows, NEW r \in Reqs, NEW label, NEW a,
           Goto(r, label, a), KeepsRows(r), UNCHANGED access,
           ended' \subseteq Issued, \A k \in Tokens : Alive(k)' => token[k].family \notin ended',
           \A w \in Browsers : cookie'[w] \in Issued \cup {NULL},
           a.k \in Issued \cup {NULL}, a.row \in Issued \cup {NULL}, a.av <= version',
           label \in {"wait", "rotate"} => a.k \in Issued,
           label = "rotate" => LockFree /\ (a.row # NULL => Alive(a.row)'),
           label # "renew"
    PROVE  SessionsInv'
<1>1. /\ pc'[r] = label /\ arg'[r] = a
      /\ \A o \in Reqs \ {r} : pc'[o] = pc[o] /\ arg'[o] = arg[o]
  BY AfterGoto DEF SessionsInv
<1>2. ReqOK(r)'
  BY <1>1 DEF ReqOK, Fades, Alive
<1>3. Refers'
  BY DEF Refers, SessionsInv, Fades
<1>4. \A k \in Tokens : Alive(k) => k \in Issued
  BY DEF Alive
<1>5. OneAlive'
  BY <1>4 DEF OneAlive, SessionsInv, Fades
<1>6. EndedAreDead'
  BY <1>4 DEF EndedAreDead, Fades
<1>7. AccessOK'
  <2> SUFFICES ASSUME NEW b \in access PROVE b.av <= version' /\ (b.family \in ended' => b.av < version')
    BY DEF AccessOK
  <2>1. b.av \in Nat /\ version \in Nat
    BY DEF SessionsInv, SessionsType
  <2>2. b.av <= version /\ (b.family \in ended => b.av < version)
    BY DEF SessionsInv, AccessOK
  <2> QED
    BY <2>1, <2>2 DEF Grows
<1> QED
  BY <1>1, <1>2, <1>3, <1>5, <1>6, <1>7, Assemble

\* Steps that leave tokens and versions alone.
LEMMA QuietStep ==
    ASSUME SessionsInv, UNCHANGED <<version, token, access, ended>>,
           NEW r \in Reqs, NEW label \in Labels, NEW a \in Arg, Goto(r, label, a),
           \A w \in Browsers : cookie'[w] \in Issued \cup {NULL}, cookie' \in [Browsers -> Tokens \cup {NULL}],
           a.k \in Issued \cup {NULL}, a.row \in Issued \cup {NULL}, a.av <= version,
           label \in {"wait", "rotate"} => a.k \in Issued,
           label = "rotate" => LockFree /\ (a.row # NULL => Alive(a.row)),
           label # "renew"
    PROVE  SessionsInv'
<1>1. SessionsType'
  BY DEF SessionsInv, SessionsType, Goto
<1>2. Issued' = Issued
  BY DEF Issued
<1>3. ASSUME NEW k PROVE Alive(k)' <=> Alive(k)
  BY <1>2 DEF Alive
<1>4. version \in Nat /\ ended \subseteq Issued /\ \A k \in Tokens : Alive(k) => token[k].family \notin ended
  BY DEF SessionsInv, SessionsType, Refers, EndedAreDead
<1>5. Fades /\ Grows
  BY <1>2, <1>3, <1>4 DEF Fades, Grows
<1>7. KeepsRows(r)
  <2>1. \A o \in Reqs \ {r} : arg'[o] = arg[o]
    BY AfterGoto DEF SessionsInv
  <2> QED
    BY <2>1, <1>2 DEF KeepsRows, Alive
<1>6. a.row # NULL /\ Alive(a.row) => Alive(a.row)'
  BY <1>3
<1> QED
  BY <1>1, <1>3, <1>4, <1>5, <1>6, <1>7, FadingStep

-----------------------------------------------------------------------------
(* Revoking.                                                               *)

LEMMA RevokedRows ==
    ASSUME SessionsType, NEW ks \in SUBSET Issued, token' = Revoke(ks)
    PROVE  /\ token' \in [Tokens -> TokenRow \cup {NULL}]
           /\ Fades
           /\ \A k \in Tokens : Alive(k)' => k \notin ks
<1>1. ASSUME NEW k \in Tokens, k \in Issued
      PROVE  token[k] \in TokenRow /\ token[k].family \in Tokens
  BY <1>1 DEF SessionsType, Issued, TokenRow
<1>2. ASSUME NEW f \in Tokens
      PROVE  /\ [family |-> f, state |-> "RECENT"] \in TokenRow
             /\ [family |-> f, state |-> "RECENT"].family = f
             /\ [family |-> f, state |-> "RECENT"].state = "RECENT"
  BY DEF TokenRow, State
<1>3. ASSUME NEW k \in Tokens
      PROVE  \/ /\ k \in ks /\ token'[k] \in TokenRow
                /\ token'[k].family = token[k].family /\ token'[k].state = "RECENT"
             \/ token'[k] = token[k] /\ (k \in ks => token[k].state \notin {"LIVE", "EXPIRED"})
  <2>1. CASE k \in ks /\ token[k].state \in {"LIVE", "EXPIRED"}
    <3>1. token'[k] = [family |-> token[k].family, state |-> "RECENT"]
      BY <2>1 DEF Revoke
    <3> QED
      BY <1>1, <1>2, <2>1, <3>1
  <2>2. CASE ~(k \in ks /\ token[k].state \in {"LIVE", "EXPIRED"})
    BY <2>2 DEF Revoke
  <2> QED
    BY <2>1, <2>2
<1>4. token' \in [Tokens -> TokenRow \cup {NULL}]
  <2>1. token' = [k \in Tokens |-> token'[k]]
    BY DEF Revoke
  <2>2. \A k \in Tokens : token'[k] \in TokenRow \cup {NULL}
    BY <1>3 DEF SessionsType
  <2> QED
    BY <2>1, <2>2
<1>5. Issued' = Issued
  BY <1>3, SessionsAssumption DEF Issued
<1>6. \A k \in Issued : k \in Tokens /\ token'[k].family = token[k].family
  BY <1>3 DEF Issued
<1>7. \A k \in Tokens : Alive(k)' => Alive(k) /\ k \notin ks
  BY <1>3, <1>5 DEF Alive
<1> QED
  BY <1>4, <1>5, <1>6, <1>7 DEF Fades

\* A request that holds or needs no lock revokes tokens when nobody rotates.
LEMMA RevokingStep ==
    ASSUME SessionsInv, NEW ks \in SUBSET Issued, token' = Revoke(ks), UNCHANGED <<access, cookie>>,
           NEW r \in Reqs, NEW label \in {"idle", "respond"}, NEW a \in Arg, Goto(r, label, a),
           LockFree \/ pc[r] = "rotate",
           a.k \in Issued \cup {NULL}, a.row \in Issued \cup {NULL}, a.av <= version',
           version' \in Nat, version <= version', ended' = ended \/ version < version',
           ended' \subseteq Issued,
           \A k \in Issued : token[k].family \in ended' => k \in ks \/ token[k].family \in ended
    PROVE  SessionsInv'
<1>1. /\ token' \in [Tokens -> TokenRow \cup {NULL}]
      /\ Fades
      /\ \A k \in Tokens : Alive(k)' => k \notin ks
  BY RevokedRows DEF SessionsInv
<1>2. SessionsType'
  BY <1>1 DEF SessionsInv, SessionsType, Goto, Labels
<1>3. Grows
  BY <1>1 DEF Grows, Fades
<1>4. KeepsRows(r)
  BY DEF KeepsRows, LockFree, SessionsInv, OneRotates
<1>5. \A k \in Tokens : Alive(k)' => token[k].family \notin ended'
  BY <1>1 DEF Fades, SessionsInv, EndedAreDead, Alive
<1>6. \A w \in Browsers : cookie'[w] \in Issued \cup {NULL}
  BY DEF SessionsInv, Refers
<1> QED
  BY <1>1, <1>2, <1>3, <1>4, <1>5, <1>6, FadingStep

\* Time changes the state of one token.
LEMMA SetStateStep ==
    ASSUME SessionsInv, NEW k \in Tokens, NEW s \in State, SetState(k, s), token[k] # NULL,
           Alive(k) <=> s \in {"LIVE", "EXPIRED"}
    PROVE  SessionsInv'
<1>1. token[k] \in TokenRow
  BY DEF SessionsInv, SessionsType
<1> DEFINE v == [token[k] EXCEPT !.state = s]
<1>2. v \in TokenRow /\ v.family = token[k].family /\ v.state = s
  BY <1>1 DEF TokenRow
<1>3. token' = [token EXCEPT ![k] = v]
  BY DEF SetState
<1> HIDE DEF v
<1>4. token'[k] = v /\ \A j \in Tokens \ {k} : token'[j] = token[j]
  BY <1>3 DEF SessionsInv, SessionsType
<1>5. SessionsType'
  BY <1>2, <1>3 DEF SetState, user, SessionsInv, SessionsType
<1>6. Issued' = Issued
  BY <1>2, <1>4, SessionsAssumption DEF Issued
<1>7. \A j \in Issued : j \in Tokens /\ token'[j].family = token[j].family
  BY <1>2, <1>4 DEF Issued
<1>8. \A j \in Tokens : Alive(j)' <=> Alive(j)
  BY <1>2, <1>4, <1>6 DEF Alive
<1>9. UNCHANGED <<version, access, cookie, ended, pc, arg>>
  BY DEF SetState, user
<1>10. Refers'
  BY <1>6, <1>7, <1>9 DEF SessionsInv, Refers
<1>11. ASSUME NEW o \in Reqs PROVE ReqOK(o)'
  <2>1. ReqOK(o)
    BY DEF SessionsInv
  <2>2. arg[o].row # NULL => arg[o].row \in Tokens
    BY <2>1 DEF ReqOK, Issued
  <2>3. pc[o] = "rotate" /\ arg[o].row # NULL => Alive(arg[o].row)'
    BY <1>8, <1>9, <2>1, <2>2 DEF ReqOK
  <2> QED
    BY <1>6, <1>7, <1>9, <2>1, <2>3 DEF ReqOK
<1>12. OneAlive' /\ EndedAreDead'
  <2>1. \A j \in Tokens : Alive(j) => j \in Issued
    BY DEF Alive
  <2> QED
    BY <1>7, <1>8, <1>9, <2>1 DEF SessionsInv, OneAlive, EndedAreDead
<1> QED
  BY <1>5, <1>9, <1>10, <1>11, <1>12 DEF SessionsInv, OneRotates, AccessOK

-----------------------------------------------------------------------------
(* Issuing.                                                                *)

LEMMA ArgWithToken ==
    ASSUME NEW a \in Arg, NEW x \in Tokens \cup {NULL}
    PROVE  /\ [a EXCEPT !.k = x] \in Arg /\ [a EXCEPT !.k = x].k = x
           /\ [a EXCEPT !.k = x].av = a.av /\ [a EXCEPT !.k = x].row = a.row
  BY DEF Arg

LEMMA ArgWithVersion ==
    ASSUME NEW a \in Arg, NEW n \in Nat
    PROVE  /\ [a EXCEPT !.av = n] \in Arg /\ [a EXCEPT !.av = n].k = a.k
           /\ [a EXCEPT !.av = n].av = n /\ [a EXCEPT !.av = n].row = a.row
  BY DEF Arg

LEMMA FirstArg ==
    ASSUME NEW w \in Browsers \cup {NULL}, NEW x \in Tokens \cup {NULL}
    PROVE  /\ [NoArg EXCEPT !.w = w, !.k = x] \in Arg /\ [NoArg EXCEPT !.w = w, !.k = x].k = x
           /\ [NoArg EXCEPT !.w = w, !.k = x].av = 0 /\ [NoArg EXCEPT !.w = w, !.k = x].row = NULL
  BY DEF Arg, NoArg

\* A new token k that is alone in its family, or succeeds row in it.
LEMMA NewToken ==
    ASSUME SessionsInv, NEW k \in Tokens, token[k] = NULL, SessionsType',
           NEW row \in Tokens \cup {NULL}, row # NULL => Alive(row),
           token'[k] # NULL, token'[k].state = "LIVE",
           token'[k].family = IF row = NULL THEN k ELSE token[row].family,
           \A j \in Tokens \ {k, row} : token'[j] = token[j],
           row # NULL => /\ token'[row] # NULL /\ token'[row].family = token[row].family
                         /\ token'[row].state = "RECENT",
           UNCHANGED <<cookie, ended>>,
           \A a \in access' : a.family \in Issued'
    PROVE  /\ Issued' = Issued \cup {k}
           /\ \A j \in Issued : j # k /\ token'[j].family = token[j].family
           /\ \A j \in Tokens \ {k, row} : Alive(j)' <=> Alive(j)
           /\ Refers' /\ OneAlive' /\ EndedAreDead'
<1>1. k \notin Issued /\ row # k
  BY SessionsAssumption DEF Issued, Alive
<1>a. ASSUME NEW j \in Tokens, j # k
      PROVE  /\ token'[j] # NULL <=> token[j] # NULL
             /\ token'[j].family = token[j].family
             /\ j = row => token'[j].state = "RECENT"
  <2>1. CASE j = row
    <3>1. row # NULL /\ token[row] # NULL
      BY <2>1, SessionsAssumption DEF Alive, Issued
    <3> QED
      BY <2>1, <3>1
  <2>2. CASE j # row
    BY <1>a, <2>2
  <2> QED
    BY <2>1, <2>2
<1>2. Issued' = Issued \cup {k}
  BY <1>a DEF Issued
<1>3. \A j \in Issued : j \in Tokens /\ j # k /\ token'[j].family = token[j].family
  BY <1>1, <1>a DEF Issued
<1>4. \A j \in Tokens \ {k, row} : Alive(j)' <=> Alive(j)
  BY <1>2 DEF Alive
<1>5. \A j \in Tokens : Alive(j) => j \in Issued /\ token[j].family \in Issued
  BY DEF Alive, SessionsInv, Refers
<1>6. \A j \in Tokens : Alive(j)' /\ j # k => Alive(j) /\ j # row
  BY <1>4, <1>a DEF Alive
<1>7. \A j \in Tokens : Alive(j)' /\ j # k => token'[j].family # token'[k].family
  <2> SUFFICES ASSUME NEW j \in Tokens, Alive(j)', j # k PROVE token'[j].family # token'[k].family
    OBVIOUS
  <2>1. Alive(j) /\ j # row /\ token'[j].family = token[j].family /\ token[j].family \in Issued
    BY <1>3, <1>5, <1>6
  <2>2. CASE row = NULL
    BY <1>1, <2>1, <2>2
  <2>3. CASE row # NULL
    BY <2>1, <2>3 DEF SessionsInv, OneAlive
  <2> QED
    BY <2>2, <2>3
<1>8. OneAlive'
  <2> SUFFICES ASSUME NEW i \in Tokens, NEW j \in Tokens, Alive(i)', Alive(j)',
                      token'[i].family = token'[j].family
               PROVE  i = j
    BY DEF OneAlive
  <2>1. CASE i = k \/ j = k
    BY <1>7, <2>1
  <2>2. CASE i # k /\ j # k
    BY <1>3, <1>5, <1>6, <2>2 DEF SessionsInv, OneAlive
  <2> QED
    BY <2>1, <2>2
<1>9. EndedAreDead'
  <2> SUFFICES ASSUME NEW j \in Tokens, Alive(j)' PROVE token'[j].family \notin ended
    BY DEF EndedAreDead
  <2>1. CASE j = k
    BY <1>1, <2>1 DEF SessionsInv, EndedAreDead, Refers
  <2>2. CASE j # k
    BY <1>3, <1>5, <1>6, <2>2 DEF SessionsInv, EndedAreDead
  <2> QED
    BY <2>1, <2>2
<1>10. Refers'
  <2>1. \A j \in Issued' : token'[j].family \in Issued'
    BY <1>2, <1>3, <1>5 DEF SessionsInv, Refers
  <2>2. (\A w \in Browsers : cookie'[w] \in Issued' \cup {NULL}) /\ ended' \subseteq Issued'
    BY <1>2 DEF SessionsInv, Refers
  <2> QED
    BY <2>1, <2>2 DEF Refers
<1> QED
  BY <1>2, <1>3, <1>4, <1>8, <1>9, <1>10

LEMMA StoreStep ==
    ASSUME SessionsInv, NEW r \in Reqs, NEW k \in Tokens, createRefreshToken(r, k)
    PROVE  SessionsInv'
<1> DEFINE a == [arg[r] EXCEPT !.k = k]
           n == [family |-> k, state |-> "LIVE"]
<1>t. SessionsType /\ ReqOK(r) /\ arg[r] \in Arg
  BY DEF SessionsInv, SessionsType
<1>1. a \in Arg /\ a.k = k /\ a.av = arg[r].av /\ a.row = arg[r].row
  BY <1>t, ArgWithToken
<1>2. n \in TokenRow /\ n.family = k /\ n.state = "LIVE"
  BY DEF TokenRow, State
<1>3. /\ token[k] = NULL /\ token' = [token EXCEPT ![k] = n] /\ LockFree
      /\ access' = access \cup {[family |-> k, av |-> arg[r].av]}
      /\ Goto(r, "respond", a) /\ UNCHANGED <<version, cookie, ended>>
  BY DEF createRefreshToken, user
<1> HIDE DEF a, n
<1>4. n # NULL /\ token'[k] = n /\ \A j \in Tokens \ {k} : token'[j] = token[j]
  BY <1>t, <1>2, <1>3, SessionsAssumption DEF SessionsType
<1>5. [family |-> k, av |-> arg[r].av] \in [family : Tokens, av : Nat] /\ arg[r].av \in Nat
  BY <1>t DEF Arg
<1>6. SessionsType'
  BY <1>t, <1>1, <1>2, <1>3, <1>5 DEF SessionsType, Goto, Labels
<1>7. \A b \in access' : b.family \in Issued'
  <2>1. \A j \in Issued : j \in Issued'
    BY <1>3, <1>4 DEF Issued
  <2>2. k \in Issued'
    BY <1>4 DEF Issued
  <2> QED
    BY <1>3, <2>1, <2>2 DEF SessionsInv, Refers
<1>8. /\ Issued' = Issued \cup {k}
      /\ \A j \in Issued : j # k /\ token'[j].family = token[j].family
      /\ Refers' /\ OneAlive' /\ EndedAreDead'
  <2>1. NULL \in Tokens \cup {NULL} /\ (NULL # NULL => Alive(NULL))
    OBVIOUS
  <2> QED
    BY <1>2, <1>3, <1>4, <1>6, <1>7, <2>1, NewToken
<1>9. Grows
  BY <1>t, <1>3, <1>8 DEF Grows, SessionsType
<1>10. KeepsRows(r)
  BY <1>3 DEF KeepsRows, LockFree
<1>11. /\ pc'[r] = "respond" /\ arg'[r] = a
       /\ \A o \in Reqs \ {r} : pc'[o] = pc[o] /\ arg'[o] = arg[o]
  BY <1>t, <1>3, AfterGoto
<1>12. ReqOK(r)'
  BY <1>t, <1>1, <1>3, <1>8, <1>11 DEF ReqOK
<1>13. AccessOK'
  <2>1. k \notin ended
    BY <1>3 DEF SessionsInv, Refers, Issued
  <2>2. arg[r].av <= version
    BY <1>t DEF ReqOK
  <2> QED
    BY <1>3, <2>1, <2>2 DEF SessionsInv, AccessOK
<1> QED
  BY <1>6, <1>8, <1>9, <1>10, <1>11, <1>12, <1>13, Assemble

LEMMA RotateStep ==
    ASSUME SessionsInv, NEW r \in Reqs, NEW k \in Tokens, RotateRow(r, k)
    PROVE  SessionsInv'
<1>t. SessionsType /\ ReqOK(r) /\ arg[r] \in Arg
  BY DEF SessionsInv, SessionsType
<1>0. PICK row \in Tokens : row = arg[r].row /\ Alive(row) /\ token[row] \in TokenRow /\ token[row].family \in Tokens
  BY <1>t DEF RotateRow, ReqOK, Alive, Issued, SessionsType, TokenRow
<1> DEFINE a == [arg[r] EXCEPT !.k = k]
           n == [family |-> token[row].family, state |-> "LIVE"]
           v == [token[row] EXCEPT !.state = "RECENT"]
<1>1. a \in Arg /\ a.k = k /\ a.av = arg[r].av /\ a.row = arg[r].row
  BY <1>t, ArgWithToken
<1>2. n \in TokenRow /\ n.family = token[row].family /\ n.state = "LIVE"
  BY <1>0 DEF TokenRow, State
<1>3. v \in TokenRow /\ v.family = token[row].family /\ v.state = "RECENT"
  BY <1>0 DEF TokenRow, State
<1>4. /\ pc[r] = "rotate" /\ token[k] = NULL
      /\ Goto(r, "renew", a) /\ UNCHANGED <<version, access, cookie, ended>>
  BY DEF RotateRow, user
<1>5. token' = [token EXCEPT ![row] = v, ![k] = n]
  BY <1>0 DEF RotateRow
<1>6. row # k
  BY <1>0, <1>4 DEF Alive, Issued
<1> HIDE DEF a, n, v
<1>7. /\ n # NULL /\ v # NULL /\ token'[k] = n /\ token'[row] = v
      /\ \A j \in Tokens \ {k, row} : token'[j] = token[j]
  BY <1>t, <1>2, <1>3, <1>5, <1>6, SessionsAssumption DEF SessionsType
<1>8. SessionsType'
  BY <1>t, <1>1, <1>2, <1>3, <1>4, <1>5 DEF SessionsType, Goto, Labels
<1>9. \A b \in access' : b.family \in Issued'
  <2>1. \A j \in Issued : j \in Issued'
    BY <1>4, <1>7 DEF Issued
  <2> QED
    BY <1>4, <2>1 DEF SessionsInv, Refers
<1>10. /\ Issued' = Issued \cup {k}
       /\ \A j \in Issued : j # k /\ token'[j].family = token[j].family
       /\ Refers' /\ OneAlive' /\ EndedAreDead'
  <2>1. row # NULL
    BY <1>0, SessionsAssumption
  <2> QED
    BY <1>0, <1>2, <1>3, <1>4, <1>7, <1>8, <1>9, <2>1, NewToken
<1>11. Grows
  BY <1>t, <1>4, <1>10 DEF Grows, SessionsType
<1>12. KeepsRows(r)
  BY <1>4 DEF KeepsRows, SessionsInv, OneRotates
<1>13. /\ pc'[r] = "renew" /\ arg'[r] = a
       /\ \A o \in Reqs \ {r} : pc'[o] = pc[o] /\ arg'[o] = arg[o]
  BY <1>t, <1>4, AfterGoto
<1>14. ReqOK(r)'
  <2>1. token'[k].family \notin ended
    BY <1>0, <1>2, <1>7 DEF SessionsInv, EndedAreDead
  <2> QED
    BY <1>t, <1>1, <1>4, <1>10, <1>13, <2>1 DEF ReqOK
<1>15. AccessOK'
  BY <1>4 DEF SessionsInv, AccessOK
<1> QED
  BY <1>8, <1>10, <1>11, <1>12, <1>13, <1>14, <1>15, Assemble

LEMMA RenewStep ==
    ASSUME SessionsInv, NEW r \in Reqs, Renew(r)
    PROVE  SessionsInv'
<1>t. SessionsType /\ ReqOK(r) /\ arg[r] \in Arg /\ Refers /\ AccessOK
  BY DEF SessionsInv, SessionsType
<1>1. pc[r] = "renew" /\ arg[r].k \in Issued /\ arg[r].k \in Tokens /\ UNCHANGED <<version, token, cookie, ended>>
  BY <1>t DEF Renew, ReqOK, Issued, user
<1>2. CASE ~active
  <2> DEFINE a == [arg[r] EXCEPT !.k = NULL]
  <2>1. a \in Arg /\ a.k = NULL /\ a.av = arg[r].av /\ a.row = arg[r].row
    BY <1>t, ArgWithToken
  <2>2. Goto(r, "respond", a) /\ UNCHANGED access
    BY <1>2 DEF Renew
  <2> HIDE DEF a
  <2> QED
    BY <1>t, <1>1, <2>1, <2>2, QuietStep DEF ReqOK, Refers, SessionsType, Labels
<1>3. CASE active
  <2> DEFINE f == token[arg[r].k].family
             b == [family |-> f, av |-> arg[r].av]
  <2>1. access' = access \cup {b} /\ Goto(r, "respond", arg[r])
    BY <1>3 DEF Renew, RenewVersion
  <2>2. f \in Issued /\ f \in Tokens
    BY <1>t, <1>1 DEF Refers, Issued
  <2>3. arg[r].av \in Nat
    BY <1>t DEF Arg
  <2>4. b \in [family : Tokens, av : Nat] /\ b.family = f /\ b.av = arg[r].av
    BY <2>2, <2>3
  <2>5. b.av <= version /\ (b.family \in ended => b.av < version)
    BY <1>t, <1>1, <2>4 DEF ReqOK
  <2> HIDE DEF f, b
  <2>6. Issued' = Issued /\ \A k \in Tokens : Alive(k)' <=> Alive(k)
    BY <1>1 DEF Issued, Alive
  <2>7. SessionsType'
    BY <1>t, <1>1, <2>1, <2>4 DEF SessionsType, Goto, Labels
  <2>8. AccessOK'
    BY <1>t, <1>1, <2>1, <2>5 DEF AccessOK
  <2>9. Refers'
    BY <1>t, <1>1, <2>1, <2>2, <2>4, <2>6 DEF Refers
  <2>10. OneAlive' /\ EndedAreDead'
    BY <1>1, <2>6 DEF SessionsInv, OneAlive, EndedAreDead
  <2>11. /\ pc'[r] = "respond" /\ arg'[r] = arg[r]
         /\ \A o \in Reqs \ {r} : pc'[o] = pc[o] /\ arg'[o] = arg[o]
    BY <1>t, <2>1, AfterGoto
  <2>12. ReqOK(r)'
    BY <1>t, <1>1, <2>6, <2>11 DEF ReqOK
  <2>13. Grows
    BY <1>t, <1>1, <2>6 DEF Grows, SessionsType
  <2>14. KeepsRows(r)
    BY <1>1, <2>6, <2>11 DEF KeepsRows, Alive
  <2> QED
    BY <2>7, <2>8, <2>9, <2>10, <2>11, <2>12, <2>13, <2>14, Assemble
<1> QED
  BY <1>2, <1>3

-----------------------------------------------------------------------------
(* All steps.                                                              *)

LEMMA RowIsAlive ==
    ASSUME SessionsInv, NEW k \in Issued, RowToRotate(k) # NULL
    PROVE  Alive(RowToRotate(k))
<1>1. CASE token[k].state = "LIVE"
  BY <1>1 DEF RowToRotate, Alive
<1>2. CASE token[k].state # "LIVE"
  <2>1. Live(token[k].family) # {} /\ RowToRotate(k) = CHOOSE j \in Live(token[k].family) : TRUE
    BY <1>2 DEF RowToRotate
  <2>2. RowToRotate(k) \in Live(token[k].family)
    BY <2>1
  <2> QED
    BY <2>2 DEF Live, Family, Alive
<1> QED
  BY <1>1, <1>2

LEMMA SessionsStep == SessionsInv /\ [Next]_vars => SessionsInv'
<1> SUFFICES ASSUME SessionsInv, [Next]_vars PROVE SessionsInv'
  OBVIOUS
<1>t. SessionsType /\ Refers /\ version \in Nat /\ \A o \in Reqs : ReqOK(o)
  BY DEF SessionsInv, SessionsType
<1>c. cookie \in [Browsers -> Tokens \cup {NULL}] /\ \A w \in Browsers : cookie[w] \in Issued \cup {NULL}
  BY <1>t DEF SessionsType, Refers
<1>i. Issued \subseteq Tokens
  BY DEF Issued
<1>0. ASSUME UNCHANGED vars PROVE SessionsInv'
  BY <1>0 DEF vars, SessionsInv, SessionsType, Refers, ReqOK, OneRotates, OneAlive, EndedAreDead, AccessOK,
     Alive, Issued
<1>s. ASSUME NEW r \in Reqs, NEW label \in {"sign", "wait", "end", "bump"}, NEW w \in Browsers \cup {NULL},
             NEW k \in Issued \cup {NULL}, Start(r, label, w, k), label = "wait" => k \in Issued,
             UNCHANGED <<version, token, access, cookie, ended>>
      PROVE  SessionsInv'
  <2> DEFINE a == [NoArg EXCEPT !.w = w, !.k = k]
  <2>1. a \in Arg /\ a.k = k /\ a.av = 0 /\ a.row = NULL
    BY <1>i, FirstArg
  <2>2. Goto(r, label, a)
    BY <1>s DEF Start
  <2> HIDE DEF a
  <2> QED
    BY <1>t, <1>c, <1>s, <2>1, <2>2, QuietStep DEF Labels
<1>1. ASSUME NEW r \in Reqs, NEW w \in Browsers, login(r, w) PROVE SessionsInv'
  BY <1>1, <1>s DEF login, user
<1>2. ASSUME NEW r \in Reqs, NEW w \in Browsers, refresh(r, w) PROVE SessionsInv'
  BY <1>2, <1>c, <1>s DEF refresh, user
<1>3. ASSUME NEW r \in Reqs, NEW w \in Browsers, changeCredentials(r, w) PROVE SessionsInv'
  BY <1>3, <1>c, <1>s DEF changeCredentials, user
<1>4. ASSUME NEW r \in Reqs, resetCredentials(r) \/ deactivate(r) \/ reactivate(r) \/ changeRole(r)
      PROVE SessionsInv'
  <2>1. UNCHANGED <<version, token, access, cookie, ended>> /\ \E label \in {"end", "bump"} : Start(r, label, NULL, NULL)
    BY <1>4 DEF resetCredentials, deactivate, reactivate, changeRole, user
  <2> QED
    BY <2>1, <1>s
<1>5. ASSUME NEW r \in Reqs, SignAccessToken(r) PROVE SessionsInv'
  <2> DEFINE a == [arg[r] EXCEPT !.av = version]
  <2>1. arg[r] \in Arg /\ ReqOK(r)
    BY <1>t DEF SessionsType
  <2>2. a \in Arg /\ a.k = arg[r].k /\ a.av = version /\ a.row = arg[r].row
    BY <1>t, <2>1, ArgWithVersion
  <2>3. Goto(r, "store", a) /\ UNCHANGED <<version, token, access, cookie, ended>>
    BY <1>5 DEF SignAccessToken, user
  <2> HIDE DEF a
  <2> QED
    BY <1>t, <1>c, <2>1, <2>2, <2>3, QuietStep DEF ReqOK, Labels
<1>6. ASSUME NEW r \in Reqs, LockUser(r) PROVE SessionsInv'
  <2>1. arg[r] \in Arg /\ ReqOK(r) /\ pc[r] = "wait" /\ LockFree /\ UNCHANGED <<version, token, access, cookie, ended>>
    BY <1>t, <1>6 DEF SessionsType, LockUser, user
  <2>2. CASE ~active
    <3> DEFINE a == [arg[r] EXCEPT !.k = NULL]
    <3>1. a \in Arg /\ a.k = NULL /\ a.av = arg[r].av /\ a.row = arg[r].row
      BY <2>1, ArgWithToken
    <3>2. Goto(r, "respond", a)
      BY <1>6, <2>2 DEF LockUser
    <3> HIDE DEF a
    <3> QED
      BY <1>t, <1>c, <2>1, <3>1, <3>2, QuietStep DEF ReqOK, Labels
  <2>3. CASE active
    <3>1. arg[r].k \in Issued
      BY <2>1 DEF ReqOK
    <3> DEFINE x == RowToRotate(arg[r].k)
               a == [arg[r] EXCEPT !.av = version, !.row = x]
    <3>2. x # NULL => Alive(x)
      BY <3>1, RowIsAlive
    <3>3. x \in Issued \cup {NULL} /\ x \in Tokens \cup {NULL}
      BY <1>i, <3>2 DEF Alive
    <3>4. Goto(r, "rotate", a)
      BY <1>6, <2>3 DEF LockUser
    <3> HIDE DEF x
    <3>5. a \in Arg /\ a.k = arg[r].k /\ a.av = version /\ a.row = x
      <4>1. PICK b \in Arg, n \in Nat, y \in Tokens \cup {NULL} : b = arg[r] /\ n = version /\ y = x
        BY <1>t, <2>1, <3>3
      <4>2. [b EXCEPT !.av = n, !.row = y] \in Arg /\ [b EXCEPT !.av = n, !.row = y].k = b.k
            /\ [b EXCEPT !.av = n, !.row = y].av = n /\ [b EXCEPT !.av = n, !.row = y].row = y
        BY DEF Arg
      <4> QED
        BY <4>1, <4>2, Zenon
    <3> HIDE DEF a
    <3> QED
      BY <1>t, <1>c, <2>1, <3>1, <3>2, <3>3, <3>4, <3>5, QuietStep DEF Labels
  <2> QED
    BY <2>2, <2>3
<1>7. ASSUME NEW r \in Reqs, Deliver(r) PROVE SessionsInv'
  <2>1. arg[r].k \in Issued \cup {NULL}
    BY <1>t DEF ReqOK
  <2>2. cookie' = [cookie EXCEPT ![arg[r].w] = arg[r].k] /\ Goto(r, "idle", NoArg)
        /\ UNCHANGED <<version, token, access, ended>>
    BY <1>7 DEF Deliver, Done, user
  <2>3. cookie' \in [Browsers -> Tokens \cup {NULL}] /\ \A w \in Browsers : cookie'[w] \in Issued \cup {NULL}
    BY <1>c, <1>i, <2>1, <2>2
  <2> QED
    BY <1>t, <2>2, <2>3, NoArgFits, QuietStep DEF Labels
<1>8. ASSUME NEW r \in Reqs, Fail(r) PROVE SessionsInv'
  BY <1>8, <1>t, <1>c, NoArgFits, QuietStep DEF Fail, Done, user, Labels
<1>9. ASSUME NEW r \in Reqs, bumpVersion(r) PROVE SessionsInv'
  <2>1. version' = version + 1 /\ Goto(r, "idle", NoArg) /\ UNCHANGED <<token, access, cookie, ended>>
    BY <1>9 DEF bumpVersion, Done
  <2>2. Issued' = Issued /\ \A k \in Tokens : Alive(k)' <=> Alive(k)
    BY <2>1 DEF Issued, Alive
  <2>3. SessionsType'
    BY <1>t, <2>1, NoArgFits DEF SessionsType, Goto, Labels
  <2>4. Fades
    BY <2>1, <2>2 DEF Fades
  <2>5. Grows
    BY <1>t, <2>1, <2>2 DEF Grows
  <2>6. KeepsRows(r)
    <3>1. \A o \in Reqs \ {r} : arg'[o] = arg[o]
      BY <1>t, <2>1, AfterGoto
    <3> QED
      BY <2>1, <2>2, <3>1 DEF KeepsRows, Alive
  <2>7. ended' \subseteq Issued /\ \A k \in Tokens : Alive(k)' => token[k].family \notin ended'
    BY <1>t, <2>1, <2>2 DEF SessionsInv, Refers, EndedAreDead
  <2>8. NoArg.k \in Issued \cup {NULL} /\ NoArg.row \in Issued \cup {NULL} /\ NoArg.av <= version'
    BY <1>t, <2>1, NoArgFits
  <2> QED
    BY <1>c, <2>1, <2>3, <2>4, <2>5, <2>6, <2>7, <2>8, FadingStep
<1>10. ASSUME NEW r \in Reqs, RefuseRotation(r) PROVE SessionsInv'
  <2> DEFINE ks == IF token[arg[r].k].state = "EXPIRED" THEN {arg[r].k} ELSE Family(token[arg[r].k].family)
             a == [arg[r] EXCEPT !.k = NULL]
  <2>1. arg[r] \in Arg /\ ReqOK(r) /\ pc[r] = "rotate"
    BY <1>t, <1>10 DEF SessionsType, RefuseRotation
  <2>2. ks \in SUBSET Issued
    BY <2>1 DEF ReqOK, Family
  <2>3. token' = Revoke(ks) /\ Goto(r, "respond", a) /\ UNCHANGED <<version, access, cookie, ended>>
    BY <1>10 DEF RefuseRotation, user
  <2>4. a \in Arg /\ a.k = NULL /\ a.av = arg[r].av /\ a.row = arg[r].row
    BY <2>1, ArgWithToken
  <2> HIDE DEF ks, a
  <2>5. ended' \subseteq Issued /\ a.k \in Issued \cup {NULL} /\ a.row \in Issued \cup {NULL} /\ a.av <= version'
    BY <1>t, <2>1, <2>3, <2>4 DEF Refers, ReqOK
  <2> QED
    BY <1>t, <2>1, <2>2, <2>3, <2>4, <2>5, RevokingStep
<1>l. ASSUME NEW r \in Reqs, NEW w \in Browsers, NEW ks \in SUBSET Issued, token' = Revoke(ks),
             Start(r, "respond", w, NULL), LockFree, UNCHANGED <<version, access, cookie, ended>>
      PROVE  SessionsInv'
  <2> DEFINE a == [NoArg EXCEPT !.w = w, !.k = NULL]
  <2>1. a \in Arg /\ a.k = NULL /\ a.av = 0 /\ a.row = NULL
    BY FirstArg
  <2>2. Goto(r, "respond", a)
    BY <1>l DEF Start
  <2> HIDE DEF a
  <2>3. ended' \subseteq Issued /\ a.k \in Issued \cup {NULL} /\ a.row \in Issued \cup {NULL} /\ a.av <= version'
    BY <1>t, <1>l, <2>1 DEF Refers
  <2> QED
    BY <1>t, <1>l, <2>1, <2>2, <2>3, RevokingStep
<1>11. ASSUME NEW r \in Reqs, NEW w \in Browsers, logout(r, w) PROVE SessionsInv'
  <2>1. Family(token[cookie[w]].family) \in SUBSET Issued
    BY DEF Family
  <2> QED
    BY <1>11, <2>1, <1>l DEF logout, user
<1>12. ASSUME NEW r \in Reqs, NEW w \in Browsers, logoutAll(r, w) PROVE SessionsInv'
  BY <1>12, <1>l DEF logoutAll, user
<1>13. ASSUME NEW r \in Reqs, endSessions(r) PROVE SessionsInv'
  <2> DEFINE fs == Ends(arg[r].k)
             ks == {k \in Issued : token[k].family \in fs}
  <2>1. /\ LockFree /\ version' = version + 1 /\ token' = Revoke(ks) /\ ended' = ended \cup fs
        /\ Goto(r, "idle", NoArg) /\ UNCHANGED <<access, cookie>>
    BY <1>13 DEF endSessions, Done
  <2>2. ks \in SUBSET Issued /\ fs \subseteq Issued
    BY <1>t DEF Ends, Refers
  <2>3. \A k \in Issued : token[k].family \in ended' => k \in ks \/ token[k].family \in ended
    BY <2>1
  <2> HIDE DEF ks, fs
  <2>4. ended' \subseteq Issued /\ version' \in Nat /\ version <= version' /\ version < version'
    BY <1>t, <2>1, <2>2 DEF Refers
  <2>5. NoArg \in Arg /\ NoArg.k \in Issued \cup {NULL} /\ NoArg.row \in Issued \cup {NULL} /\ NoArg.av <= version'
    BY <1>t, <2>1, NoArgFits
  <2> QED
    BY <2>1, <2>2, <2>3, <2>4, <2>5, RevokingStep
<1>14. ASSUME NEW k \in Tokens, GraceOver(k) PROVE SessionsInv'
  BY <1>14, SetStateStep DEF GraceOver, Alive, State
<1>15. ASSUME NEW k \in Tokens, Expire(k) PROVE SessionsInv'
  <2>1. PICK s \in State : s = "EXPIRED" /\ SetState(k, s)
    BY <1>15 DEF Expire, State
  <2>2. Alive(k) /\ token[k] # NULL
    BY <1>15 DEF Expire, Alive, Issued
  <2> QED
    BY <2>1, <2>2, SetStateStep
<1> QED
  BY <1>0, <1>1, <1>2, <1>3, <1>4, <1>5, <1>6, <1>7, <1>8, <1>9, <1>10, <1>11, <1>12, <1>13, <1>14, <1>15,
     StoreStep, RotateStep, RenewStep DEF Next

-----------------------------------------------------------------------------
(* Families that are dead.                                                 *)

\* A live token belongs to a new family or to one that had a live token.
NewLife ==
    \A k \in Tokens : Alive(k)' =>
        token'[k].family \notin Issued \/ \E j \in Tokens : Alive(j) /\ token[j].family = token'[k].family

LEMMA FadingIsNoNewLife == Fades => NewLife
<1> SUFFICES ASSUME Fades, NEW k \in Tokens, Alive(k)'
             PROVE  \E j \in Tokens : Alive(j) /\ token[j].family = token'[k].family
  BY DEF NewLife
<1>1. Alive(k) /\ k \in Issued
  BY DEF Fades, Alive
<1> QED
  BY <1>1 DEF Fades

LEMMA NewLifeStep == SessionsInv /\ [Next]_vars => NewLife
<1> SUFFICES ASSUME SessionsInv, [Next]_vars PROVE NewLife
  OBVIOUS
<1>t. SessionsType /\ Refers /\ \A o \in Reqs : ReqOK(o)
  BY DEF SessionsInv
<1>1. ASSUME UNCHANGED token PROVE NewLife
  <2>1. Fades
    BY <1>1 DEF Fades, Alive, Issued
  <2> QED
    BY <2>1, FadingIsNoNewLife
<1>2. ASSUME NEW ks \in SUBSET Issued, token' = Revoke(ks) PROVE NewLife
  BY <1>t, <1>2, RevokedRows, FadingIsNoNewLife
<1>3. ASSUME NEW r \in Reqs, NEW k \in Tokens, createRefreshToken(r, k) PROVE NewLife
  <2> DEFINE n == [family |-> k, state |-> "LIVE"]
  <2>1. n.family = k /\ token[k] = NULL /\ token' = [token EXCEPT ![k] = n]
    BY <1>3 DEF createRefreshToken
  <2> HIDE DEF n
  <2>2. token'[k] = n /\ \A j \in Tokens \ {k} : token'[j] = token[j]
    BY <1>t, <2>1 DEF SessionsType
  <2>3. k \notin Issued
    BY <2>1 DEF Issued
  <2> QED
    BY <2>1, <2>2, <2>3 DEF NewLife, Alive, Issued
<1>4. ASSUME NEW r \in Reqs, NEW k \in Tokens, RotateRow(r, k) PROVE NewLife
  <2>0. PICK row \in Tokens : row = arg[r].row /\ Alive(row)
    BY <1>t, <1>4 DEF RotateRow, ReqOK, Alive, Issued
  <2> DEFINE n == [family |-> token[row].family, state |-> "LIVE"]
             v == [token[row] EXCEPT !.state = "RECENT"]
  <2>1. n.family = token[row].family
    OBVIOUS
  <2>2. v.state = "RECENT"
    <3>1. token[row] \in TokenRow
      BY <1>t, <2>0 DEF Alive, Issued, SessionsType
    <3> QED
      BY <3>1 DEF TokenRow
  <2>3. token' = [token EXCEPT ![row] = v, ![k] = n]
    BY <1>4, <2>0 DEF RotateRow
  <2> HIDE DEF n, v
  <2>4. token'[k] = n /\ \A j \in Tokens \ {k, row} : token'[j] = token[j]
    BY <1>t, <2>3 DEF SessionsType
  <2>5. \A j \in Tokens \ {k, row} : Alive(j)' => Alive(j) /\ token'[j].family = token[j].family
    BY <2>4 DEF Alive, Issued
  <2>6. row # k => ~Alive(row)'
    <3>1. row # k => token'[row] = v
      BY <1>t, <2>3 DEF SessionsType
    <3> QED
      BY <2>2, <3>1 DEF Alive
  <2> QED
    BY <2>0, <2>1, <2>4, <2>5, <2>6 DEF NewLife
<1>5. ASSUME NEW k \in Tokens, GraceOver(k) \/ Expire(k) PROVE NewLife
  <2>0. token[k] # NULL /\ token[k] \in TokenRow
    BY <1>t, <1>5 DEF GraceOver, Expire, SessionsType
  <2>1. PICK s \in {"OLD", "EXPIRED"} : SetState(k, s) /\ (s = "EXPIRED" => Alive(k))
    BY <1>5 DEF GraceOver, Expire, Alive, Issued
  <2> DEFINE v == [token[k] EXCEPT !.state = s]
  <2>2. v.state = s /\ v.family = token[k].family
    BY <2>0 DEF TokenRow
  <2>3. token' = [token EXCEPT ![k] = v]
    BY <2>1 DEF SetState
  <2> HIDE DEF v
  <2>4. token'[k] = v /\ \A j \in Tokens \ {k} : token'[j] = token[j]
    BY <1>t, <2>3 DEF SessionsType
  <2>5. \A j \in Tokens : Alive(j)' => Alive(j) /\ token'[j].family = token[j].family
    BY <2>0, <2>1, <2>2, <2>4 DEF Alive, Issued
  <2> QED
    BY <2>5 DEF NewLife
<1>6. ASSUME NEW r \in Reqs, RefuseRotation(r) PROVE NewLife
  <2>1. arg[r].k \in Issued
    BY <1>t, <1>6 DEF RefuseRotation, ReqOK
  <2>2. PICK ks \in SUBSET Issued : token' = Revoke(ks)
    BY <1>6, <2>1 DEF RefuseRotation, Family
  <2> QED
    BY <2>2, <1>2
<1>7. ASSUME NEW r \in Reqs, NEW w \in Browsers, logout(r, w) \/ logoutAll(r, w) PROVE NewLife
  <2>1. PICK ks \in SUBSET Issued : token' = Revoke(ks)
    BY <1>7 DEF logout, logoutAll, Family
  <2> QED
    BY <2>1, <1>2
<1>8. ASSUME NEW r \in Reqs, endSessions(r) PROVE NewLife
  <2>1. PICK ks \in SUBSET Issued : token' = Revoke(ks)
    BY <1>8 DEF endSessions
  <2> QED
    BY <2>1, <1>2
<1>9. CASE UNCHANGED vars
  BY <1>1, <1>9 DEF vars
<1>10. CASE \E r \in Reqs :
               \/ \E w \in Browsers : login(r, w) \/ refresh(r, w) \/ changeCredentials(r, w)
               \/ SignAccessToken(r) \/ LockUser(r) \/ Renew(r) \/ Deliver(r) \/ Fail(r)
               \/ resetCredentials(r) \/ deactivate(r) \/ reactivate(r) \/ changeRole(r) \/ bumpVersion(r)
  BY <1>1, <1>10 DEF login, refresh, changeCredentials, SignAccessToken, LockUser, Renew, Deliver, Fail,
     resetCredentials, deactivate, reactivate, changeRole, bumpVersion
<1> QED
  BY <1>3, <1>4, <1>5, <1>6, <1>7, <1>8, <1>9, <1>10 DEF Next

-----------------------------------------------------------------------------
(* Browsers that come back within the grace.                               *)

HasLive(f) == \E j \in Tokens : token[j] # NULL /\ token[j].family = f /\ token[j].state = "LIVE"

\* Its session was closed, or the token still opens it.
SignedIn(k) ==
    \/ token[k].family \in closed
    \/ token[k].state \in {"LIVE", "RECENT"} /\ HasLive(token[k].family)

\* A family is in the hands of one browser.
OneHolder ==
    \A w, v \in Browsers, k, j \in Tokens :
        InHand(w, k) /\ InHand(v, j) /\ token[k].family = token[j].family => w = v

PromptHandsOpen == \A w \in Prompt, k \in Tokens : InHand(w, k) => SignedIn(k)

\* A rotation stays in the family of the presented token, and finds a row unless
\* the browser is late or its session was closed.
RotationOK(o) ==
    /\ pc[o] \in {"wait", "rotate"} => arg[o].w \in Browsers
    /\ pc[o] = "rotate" /\ arg[o].row # NULL => token[arg[o].row].family = token[arg[o].k].family
    /\ pc[o] = "rotate" /\ arg[o].row = NULL /\ arg[o].w \in Prompt => token[arg[o].k].family \in closed

HandInv == OneHolder /\ PromptHandsOpen /\ \A o \in Reqs : RotationOK(o)

LEMMA HandInitOK == Init => HandInv
<1> SUFFICES ASSUME Init PROVE HandInv
  OBVIOUS
<1>1. ASSUME NEW w \in Browsers, NEW k \in Tokens PROVE ~InHand(w, k)
  BY NoArgFits, SessionsAssumption DEF Init, InHand
<1>2. Prompt \subseteq Browsers
  BY SessionsAssumption
<1> QED
  BY <1>1, <1>2 DEF Init, HandInv, OneHolder, PromptHandsOpen, RotationOK

LEMMA InHandIsIssued ==
    ASSUME SessionsInv, NEW w \in Browsers, NEW k \in Tokens, InHand(w, k)
    PROVE  k \in Issued
<1>1. k # NULL
  BY SessionsAssumption
<1> QED
  BY <1>1 DEF InHand, SessionsInv, Refers, ReqOK

\* What the rest of the invariant needs of a step that goes on with a: the
\* browser's tokens were in its hands before.
LEMMA HandsAfter ==
    ASSUME SessionsInv, NEW r \in Reqs, NEW label, NEW a, Goto(r, label, a),
           NEW w \in Browsers, NEW k \in Tokens, InHand(w, k)'
    PROVE  cookie'[w] = k \/ (a.w = w /\ a.k = k) \/ InHand(w, k)
<1>1. arg'[r] = a /\ \A o \in Reqs \ {r} : arg'[o] = arg[o]
  BY AfterGoto DEF SessionsInv
<1> QED
  BY <1>1 DEF InHand

LEMMA OtherRotations ==
    ASSUME SessionsInv, HandInv, NEW o \in Reqs, pc'[o] = pc[o], arg'[o] = arg[o],
           \A k \in Issued : token'[k].family = token[k].family, closed \subseteq closed'
    PROVE  RotationOK(o)'
<1>1. RotationOK(o) /\ ReqOK(o)
  BY DEF HandInv, SessionsInv
<1>2. pc[o] = "rotate" => arg[o].k \in Issued
  BY <1>1 DEF ReqOK
<1>3. pc[o] = "rotate" /\ arg[o].row # NULL => arg[o].row \in Issued
  BY <1>1 DEF ReqOK
<1> QED
  BY <1>1, <1>2, <1>3 DEF RotationOK

\* Tokens fade, hands keep or lose what they held.
LEMMA FadingHands ==
    ASSUME SessionsInv, HandInv, Fades, closed \subseteq closed',
           NEW r \in Reqs, NEW label, NEW a, Goto(r, label, a),
           \A w \in Browsers, k \in Tokens : cookie'[w] = k \/ (a.w = w /\ a.k = k) => InHand(w, k),
           \A w \in Prompt, k \in Tokens : InHand(w, k) /\ SignedIn(k) => SignedIn(k)',
           label \in {"wait", "rotate"} => a.w \in Browsers,
           label = "rotate" =>
               /\ a.row # NULL => token'[a.row].family = token'[a.k].family
               /\ a.row = NULL /\ a.w \in Prompt => token'[a.k].family \in closed'
    PROVE  HandInv'
<1>1. ASSUME NEW w \in Browsers, NEW k \in Tokens, InHand(w, k)'
      PROVE  InHand(w, k) /\ token'[k].family = token[k].family
  <2>1. InHand(w, k)
    BY <1>1, HandsAfter
  <2> QED
    BY <2>1, InHandIsIssued DEF Fades
<1>2. OneHolder'
  <2> SUFFICES ASSUME NEW w \in Browsers, NEW v \in Browsers, NEW k \in Tokens, NEW j \in Tokens,
                      InHand(w, k)', InHand(v, j)', token'[k].family = token'[j].family
               PROVE  w = v
    BY DEF OneHolder
  <2> QED
    BY <1>1 DEF HandInv, OneHolder
<1>3. PromptHandsOpen'
  <2> SUFFICES ASSUME NEW w \in Prompt, NEW k \in Tokens, InHand(w, k)' PROVE SignedIn(k)'
    BY DEF PromptHandsOpen
  <2>1. w \in Browsers
    BY SessionsAssumption
  <2>2. InHand(w, k)
    BY <1>1, <2>1
  <2> QED
    BY <2>2 DEF HandInv, PromptHandsOpen
<1>4. /\ pc'[r] = label /\ arg'[r] = a
      /\ \A o \in Reqs \ {r} : pc'[o] = pc[o] /\ arg'[o] = arg[o]
  BY AfterGoto DEF SessionsInv
<1>5. RotationOK(r)'
  BY <1>4 DEF RotationOK
<1>6. \A o \in Reqs \ {r} : RotationOK(o)'
  BY <1>4, OtherRotations DEF Fades
<1> QED
  BY <1>2, <1>3, <1>5, <1>6 DEF HandInv

\* The same when tokens are left alone.
LEMMA QuietHands ==
    ASSUME SessionsInv, HandInv, UNCHANGED <<token, closed>>,
           NEW r \in Reqs, NEW label, NEW a, Goto(r, label, a),
           \A w \in Browsers, k \in Tokens : cookie'[w] = k \/ (a.w = w /\ a.k = k) => InHand(w, k),
           label \in {"wait", "rotate"} => a.w \in Browsers,
           label = "rotate" =>
               /\ a.row # NULL => token[a.row].family = token[a.k].family
               /\ a.row = NULL /\ a.w \in Prompt => token[a.k].family \in closed
    PROVE  HandInv'
<1>1. Fades
  BY DEF Fades, Issued, Alive
<1>2. \A k \in Tokens : SignedIn(k) => SignedIn(k)'
  BY DEF SignedIn, HasLive
<1> QED
  BY <1>1, <1>2, FadingHands

\* The same when tokens are revoked, of closed families or of a late browser's.
LEMMA RevokingHands ==
    ASSUME SessionsInv, HandInv, NEW ks \in SUBSET Issued, token' = Revoke(ks), UNCHANGED cookie,
           closed \subseteq closed',
           NEW r \in Reqs, NEW label \in {"idle", "respond"}, NEW a, Goto(r, label, a), a.k = NULL,
           \A w \in Prompt, k \in Tokens, j \in ks :
               InHand(w, k) /\ token[j].family = token[k].family => token[k].family \in closed'
    PROVE  HandInv'
<1>1. Fades
  BY RevokedRows DEF SessionsInv
<1>2. \A k \in Tokens \ ks : token'[k] = token[k]
  BY DEF Revoke
<1>3. ASSUME NEW w \in Prompt, NEW k \in Tokens, InHand(w, k), SignedIn(k)
      PROVE  SignedIn(k)'
  <2>0. w \in Browsers
    BY SessionsAssumption
  <2>1. k \in Issued /\ token'[k].family = token[k].family
    BY <1>1, <1>3, <2>0, InHandIsIssued DEF Fades
  <2>2. CASE token[k].family \in closed'
    BY <2>1, <2>2 DEF SignedIn
  <2>3. CASE token[k].family \notin closed'
    <3>1. \A j \in ks : token[j].family # token[k].family
      BY <1>3, <2>3
    <3>2. token[k].state \in {"LIVE", "RECENT"} /\ HasLive(token[k].family)
      BY <1>3, <2>3 DEF SignedIn
    <3>3. k \notin ks
      BY <3>1
    <3>4. PICK j \in Tokens : token[j] # NULL /\ token[j].family = token[k].family /\ token[j].state = "LIVE"
      BY <3>2 DEF HasLive
    <3>5. j \notin ks
      BY <3>1, <3>4
    <3>6. token'[k] = token[k] /\ token'[j] = token[j]
      BY <1>2, <3>3, <3>5
    <3> QED
      BY <3>2, <3>4, <3>6 DEF SignedIn, HasLive
  <2> QED
    BY <2>2, <2>3
<1>4. \A w \in Browsers, k \in Tokens : cookie'[w] = k \/ (a.w = w /\ a.k = k) => InHand(w, k)
  BY SessionsAssumption DEF InHand
<1> QED
  BY <1>1, <1>3, <1>4, FadingHands

\* Time passes for a token, and closes no prompt browser's session.
LEMMA TimeHands ==
    ASSUME SessionsInv, HandInv, NEW k \in Tokens, GraceOver(k) \/ Expire(k)
    PROVE  HandInv'
<1>0. token[k] # NULL /\ token[k] \in TokenRow
  BY DEF GraceOver, Expire, SessionsInv, SessionsType
<1>1. PICK s \in {"OLD", "EXPIRED"} : SetState(k, s)
  BY DEF GraceOver, Expire
<1> DEFINE v == [token[k] EXCEPT !.state = s]
<1>2. v \in TokenRow /\ v.family = token[k].family
  BY <1>0 DEF TokenRow, State
<1>3. token' = [token EXCEPT ![k] = v] /\ UNCHANGED <<cookie, closed, pc, arg>>
  BY <1>1 DEF SetState
<1> HIDE DEF v
<1>4. token'[k] = v /\ v # NULL /\ \A j \in Tokens \ {k} : token'[j] = token[j]
  BY <1>2, <1>3, SessionsAssumption DEF SessionsInv, SessionsType
<1>5. \A j \in Tokens : token'[j].family = token[j].family
  BY <1>2, <1>4
<1>6. ASSUME NEW w, NEW j PROVE InHand(w, j)' <=> InHand(w, j)
  BY <1>3 DEF InHand
<1>7. ASSUME NEW w \in Prompt, NEW j \in Tokens, InHand(w, j)
      PROVE  SignedIn(j)'
  <2>0. SignedIn(j) /\ w \in Browsers
    BY <1>7, SessionsAssumption DEF HandInv, PromptHandsOpen
  <2>1. CASE token[j].family \in closed
    BY <1>3, <1>5, <2>1 DEF SignedIn
  <2>2. CASE token[j].family \notin closed
    <3>1. token[j].state \in {"LIVE", "RECENT"} /\ HasLive(token[j].family)
      BY <2>0, <2>2 DEF SignedIn
    <3>2. PICK i \in Tokens : token[i] # NULL /\ token[i].family = token[j].family /\ token[i].state = "LIVE"
      BY <3>1 DEF HasLive
    <3>3. j # k /\ i # k
      <4>1. CASE GraceOver(k)
        BY <1>7, <3>2, <4>1 DEF GraceOver
      <4>2. CASE Expire(k)
        <5>1. j \in Issued
          BY <1>7, <2>0, InHandIsIssued
        <5>2. token[j].family # token[k].family
          BY <1>7, <4>2, <5>1 DEF Expire, Family
        <5> QED
          BY <3>2, <5>2
      <4> QED
        BY <4>1, <4>2
    <3>4. token'[j] = token[j] /\ token'[i] = token[i]
      BY <1>4, <3>3
    <3> QED
      BY <3>1, <3>2, <3>4 DEF SignedIn, HasLive
  <2> QED
    BY <2>1, <2>2
<1>8. OneHolder'
  BY <1>5, <1>6 DEF HandInv, OneHolder
<1>9. PromptHandsOpen'
  BY <1>6, <1>7 DEF PromptHandsOpen
<1>10. \A o \in Reqs : RotationOK(o)'
  BY <1>3, <1>5, OtherRotations DEF Issued
<1> QED
  BY <1>8, <1>9, <1>10 DEF HandInv

LEMMA ArgKeepsBrowser ==
    /\ \A a \in Arg, x \in Tokens \cup {NULL} : [a EXCEPT !.k = x].w = a.w
    /\ \A a \in Arg, n \in Nat : [a EXCEPT !.av = n].w = a.w
    /\ \A w \in Browsers \cup {NULL}, x \in Tokens \cup {NULL} : [NoArg EXCEPT !.w = w, !.k = x].w = w
    /\ NoArg.w = NULL
  BY DEF Arg, NoArg

\* A new family is in the hands of the browser that signed in.
LEMMA StoreHands ==
    ASSUME SessionsInv, HandInv, NEW r \in Reqs, NEW k \in Tokens, createRefreshToken(r, k)
    PROVE  HandInv'
<1>t. SessionsType /\ Refers /\ arg[r] \in Arg
  BY DEF SessionsInv, SessionsType
<1> DEFINE a == [arg[r] EXCEPT !.k = k]
           n == [family |-> k, state |-> "LIVE"]
<1>1. a.k = k /\ a.w = arg[r].w
  BY <1>t, ArgWithToken, ArgKeepsBrowser
<1>2. n \in TokenRow /\ n.family = k /\ n.state = "LIVE"
  BY DEF TokenRow, State
<1>3. /\ token[k] = NULL /\ token' = [token EXCEPT ![k] = n]
      /\ Goto(r, "respond", a) /\ UNCHANGED <<cookie, closed>>
  BY DEF createRefreshToken
<1> HIDE DEF a, n
<1>4. n # NULL /\ token'[k] = n /\ \A j \in Tokens \ {k} : token'[j] = token[j]
  BY <1>t, <1>2, <1>3, SessionsAssumption DEF SessionsType
<1>5. k \notin Issued
  BY <1>3 DEF Issued
<1>6. ASSUME NEW w \in Browsers, NEW j \in Tokens, InHand(w, j)'
      PROVE  \/ j = k /\ w = arg[r].w
             \/ j # k /\ InHand(w, j) /\ token'[j] = token[j] /\ token[j].family # k
  <2>1. (j = k /\ w = arg[r].w) \/ InHand(w, j)
    <3>1. cookie'[w] = j => InHand(w, j)
      BY <1>3 DEF InHand
    <3> QED
      BY <1>1, <1>3, <1>6, <3>1, HandsAfter
  <2>2. InHand(w, j) => j \in Issued
    BY InHandIsIssued
  <2> QED
    BY <1>t, <1>4, <1>5, <2>1, <2>2 DEF Refers
<1>7. OneHolder'
  <2> SUFFICES ASSUME NEW w \in Browsers, NEW v \in Browsers, NEW i \in Tokens, NEW j \in Tokens,
                      InHand(w, i)', InHand(v, j)', token'[i].family = token'[j].family
               PROVE  w = v
    BY DEF OneHolder
  <2> QED
    BY <1>2, <1>4, <1>6 DEF HandInv, OneHolder
<1>8. PromptHandsOpen'
  <2> SUFFICES ASSUME NEW w \in Prompt, NEW j \in Tokens, InHand(w, j)' PROVE SignedIn(j)'
    BY DEF PromptHandsOpen
  <2>0. w \in Browsers
    BY SessionsAssumption
  <2>1. CASE j = k
    BY <1>2, <1>4, <2>1 DEF SignedIn, HasLive
  <2>2. CASE j # k
    <3>1. SignedIn(j) /\ token'[j] = token[j]
      BY <1>6, <2>0, <2>2 DEF HandInv, PromptHandsOpen
    <3>2. HasLive(token[j].family) => HasLive(token[j].family)'
      <4> SUFFICES ASSUME NEW i \in Tokens, token[i] # NULL, token[i].family = token[j].family,
                          token[i].state = "LIVE"
                   PROVE  HasLive(token[j].family)'
        BY DEF HasLive
      <4>1. token'[i] = token[i]
        BY <1>3, <1>4
      <4> QED
        BY <3>1, <4>1 DEF HasLive
    <3> QED
      BY <1>3, <3>1, <3>2 DEF SignedIn
  <2> QED
    BY <2>1, <2>2
<1>9. /\ pc'[r] = "respond"
      /\ \A o \in Reqs \ {r} : pc'[o] = pc[o] /\ arg'[o] = arg[o]
  BY <1>t, <1>3, AfterGoto
<1>10. \A o \in Reqs \ {r} : RotationOK(o)'
  <2>1. \A j \in Issued : token'[j].family = token[j].family
    BY <1>4, <1>5 DEF Issued
  <2> QED
    BY <1>3, <1>9, <2>1, OtherRotations
<1>11. RotationOK(r)'
  BY <1>9 DEF RotationOK
<1> QED
  BY <1>7, <1>8, <1>10, <1>11 DEF HandInv

\* A rotation passes the family on within one pair of hands.
LEMMA RotateHands ==
    ASSUME SessionsInv, HandInv, NEW r \in Reqs, NEW k \in Tokens, RotateRow(r, k)
    PROVE  HandInv'
<1>t. SessionsType /\ ReqOK(r) /\ RotationOK(r) /\ arg[r] \in Arg /\ pc[r] = "rotate"
  BY DEF SessionsInv, SessionsType, HandInv, RotateRow
<1>0. PICK row \in Tokens : row = arg[r].row /\ Alive(row) /\ token[row] \in TokenRow /\ token[row].family \in Tokens
  BY <1>t DEF RotateRow, ReqOK, Alive, Issued, SessionsType, TokenRow
<1>f. PICK f \in Tokens : f = token[row].family
  BY <1>0
<1> DEFINE a == [arg[r] EXCEPT !.k = k]
           n == [family |-> f, state |-> "LIVE"]
           v == [token[row] EXCEPT !.state = "RECENT"]
<1>1. a.k = k /\ a.w = arg[r].w
  BY <1>t, ArgWithToken, ArgKeepsBrowser
<1>2. n \in TokenRow /\ n.family = f /\ n.state = "LIVE"
  BY DEF TokenRow, State
<1>3. v \in TokenRow /\ v.family = f /\ v.state = "RECENT"
  BY <1>0, <1>f DEF TokenRow, State
<1>4. token[k] = NULL /\ Goto(r, "renew", a) /\ UNCHANGED <<cookie, closed>>
  BY DEF RotateRow
<1>5. token' = [token EXCEPT ![row] = v, ![k] = n]
  BY <1>0, <1>f DEF RotateRow
<1>6. row # k /\ k \notin Issued
  BY <1>0, <1>4 DEF Alive, Issued
<1> HIDE DEF a, n, v
<1>7. /\ n # NULL /\ token'[k] = n /\ token'[row] = v
      /\ \A j \in Tokens \ {k, row} : token'[j] = token[j]
  BY <1>t, <1>2, <1>3, <1>5, <1>6, SessionsAssumption DEF SessionsType
<1>8. \A j \in Issued : j \in Tokens /\ token'[j].family = token[j].family
  BY <1>3, <1>6, <1>7, <1>f DEF Issued
<1>9. arg[r].w \in Browsers /\ arg[r].k \in Issued /\ token[arg[r].k].family = f
  <2>1. row # NULL
    BY <1>0, SessionsAssumption
  <2> QED
    BY <1>t, <1>0, <1>f, <2>1 DEF ReqOK, RotationOK
<1>10. InHand(arg[r].w, arg[r].k)
  BY DEF InHand
\* Before, the browser held a token of the same family.
<1>11. ASSUME NEW w \in Browsers, NEW j \in Tokens, InHand(w, j)'
       PROVE  \E i \in Tokens : InHand(w, i) /\ token[i].family = token'[j].family
  <2>1. (j = k /\ w = arg[r].w) \/ InHand(w, j)
    <3>1. cookie'[w] = j => InHand(w, j)
      BY <1>4 DEF InHand
    <3> QED
      BY <1>1, <1>4, <1>11, <3>1, HandsAfter
  <2>2. CASE j = k /\ w = arg[r].w
    BY <1>2, <1>7, <1>8, <1>9, <1>10, <2>2
  <2>3. CASE InHand(w, j)
    BY <1>8, <2>3, InHandIsIssued
  <2> QED
    BY <2>1, <2>2, <2>3
<1>12. OneHolder'
  <2> SUFFICES ASSUME NEW w \in Browsers, NEW u \in Browsers, NEW i \in Tokens, NEW j \in Tokens,
                      InHand(w, i)', InHand(u, j)', token'[i].family = token'[j].family
               PROVE  w = u
    BY DEF OneHolder
  <2>1. PICK x \in Tokens : InHand(w, x) /\ token[x].family = token'[i].family
    BY <1>11
  <2>2. PICK y \in Tokens : InHand(u, y) /\ token[y].family = token'[j].family
    BY <1>11
  <2> QED
    BY <2>1, <2>2 DEF HandInv, OneHolder
<1>13. ASSUME NEW g, HasLive(g) PROVE HasLive(g)'
  <2>1. CASE g = f
    BY <1>2, <1>7, <2>1 DEF HasLive
  <2>2. CASE g # f
    <3>1. PICK i \in Tokens : token[i] # NULL /\ token[i].family = g /\ token[i].state = "LIVE"
      BY <1>13 DEF HasLive
    <3>2. token'[i] = token[i]
      BY <1>4, <1>7, <1>f, <2>2, <3>1
    <3> QED
      BY <3>1, <3>2 DEF HasLive
  <2> QED
    BY <2>1, <2>2
<1>14. PromptHandsOpen'
  <2> SUFFICES ASSUME NEW w \in Prompt, NEW j \in Tokens, InHand(w, j)' PROVE SignedIn(j)'
    BY DEF PromptHandsOpen
  <2>0. w \in Browsers
    BY SessionsAssumption
  <2>1. CASE j = k
    BY <1>2, <1>7, <2>1 DEF SignedIn, HasLive
  <2>2. CASE j # k
    <3>1. InHand(w, j)
      <4>1. cookie'[w] = j => InHand(w, j)
        BY <1>4 DEF InHand
      <4> QED
        BY <1>1, <1>4, <2>0, <2>2, <4>1, HandsAfter
    <3>2. SignedIn(j) /\ j \in Issued
      BY <2>0, <3>1, InHandIsIssued DEF HandInv, PromptHandsOpen
    <3>3. token'[j].family = token[j].family /\ token'[j].state \in {token[j].state, "RECENT"}
      BY <1>3, <1>7, <1>8, <2>2, <3>2
    <3>4. PICK g : g = token[j].family
      OBVIOUS
    <3> QED
      BY <1>4, <1>13, <3>2, <3>3, <3>4 DEF SignedIn
  <2> QED
    BY <2>1, <2>2
<1>15. /\ pc'[r] = "renew"
       /\ \A o \in Reqs \ {r} : pc'[o] = pc[o] /\ arg'[o] = arg[o]
  BY <1>t, <1>4, AfterGoto
<1>16. \A o \in Reqs \ {r} : RotationOK(o)'
  BY <1>4, <1>8, <1>15, OtherRotations
<1>17. RotationOK(r)'
  BY <1>15 DEF RotationOK
<1> QED
  BY <1>12, <1>14, <1>16, <1>17 DEF HandInv

\* rotateLocked finds a row of the presented token's family, unless that token is
\* of no use any more.
LEMMA RowIsOfTheFamily ==
    ASSUME SessionsInv, NEW k \in Issued
    PROVE  /\ RowToRotate(k) # NULL => token[RowToRotate(k)].family = token[k].family
           /\ RowToRotate(k) = NULL /\ SignedIn(k) => token[k].family \in closed
<1>0. k # NULL /\ \A f : Live(f) \subseteq Tokens
  BY SessionsAssumption DEF Issued, Live, Family
<1>1. CASE token[k].state = "LIVE"
  BY <1>0, <1>1 DEF RowToRotate
<1>2. CASE token[k].state = "RECENT" /\ Live(token[k].family) # {}
  <2>1. RowToRotate(k) = CHOOSE j \in Live(token[k].family) : TRUE
    BY <1>2 DEF RowToRotate
  <2>2. RowToRotate(k) \in Live(token[k].family)
    BY <1>2, <2>1
  <2>3. RowToRotate(k) # NULL
    BY <1>0, <2>2, SessionsAssumption
  <2> QED
    BY <2>2, <2>3 DEF Live, Family
<1>3. CASE token[k].state # "LIVE" /\ ~(token[k].state = "RECENT" /\ Live(token[k].family) # {})
  <2>1. RowToRotate(k) = NULL
    BY <1>3 DEF RowToRotate
  <2>2. HasLive(token[k].family) => Live(token[k].family) # {}
    BY DEF HasLive, Live, Family, Issued
  <2> QED
    BY <1>3, <2>1, <2>2 DEF SignedIn
<1> QED
  BY <1>1, <1>2, <1>3

LEMMA HandStep == SessionsInv /\ HandInv /\ [Next]_vars => HandInv'
<1> SUFFICES ASSUME SessionsInv, HandInv, [Next]_vars PROVE HandInv'
  OBVIOUS
<1>t. SessionsType /\ Refers /\ version \in Nat /\ \A o \in Reqs : ReqOK(o) /\ RotationOK(o) /\ arg[o] \in Arg
  BY DEF SessionsInv, SessionsType, HandInv
<1>c. \A w \in Browsers, k \in Tokens : cookie[w] = k => InHand(w, k)
  BY DEF InHand
<1>a. \A r \in Reqs, w \in Browsers, k \in Tokens : arg[r].w = w /\ arg[r].k = k => InHand(w, k)
  BY DEF InHand
<1>n. NULL \notin Tokens /\ NULL \notin Browsers /\ Prompt \subseteq Browsers
  BY SessionsAssumption
<1>i. Issued \subseteq Tokens
  BY DEF Issued
<1>0. ASSUME UNCHANGED vars PROVE HandInv'
  BY <1>0 DEF vars, HandInv, OneHolder, PromptHandsOpen, RotationOK, InHand, SignedIn, HasLive
\* A request begins, with the browser's own cookie or with no token.
<1>s. ASSUME NEW r \in Reqs, NEW label \in {"sign", "wait", "end", "bump"}, NEW w \in Browsers \cup {NULL},
             NEW k \in Tokens \cup {NULL}, Start(r, label, w, k), label = "wait" => w \in Browsers,
             k = NULL \/ cookie[w] = k, UNCHANGED <<token, closed, cookie>>
      PROVE  HandInv'
  <2> DEFINE a == [NoArg EXCEPT !.w = w, !.k = k]
  <2>1. a.w = w /\ a.k = k
    BY FirstArg, ArgKeepsBrowser
  <2>2. Goto(r, label, a)
    BY <1>s DEF Start
  <2> HIDE DEF a
  <2>3. \A v \in Browsers, j \in Tokens : cookie'[v] = j \/ (a.w = v /\ a.k = j) => InHand(v, j)
    BY <1>c, <1>n, <1>s, <2>1
  <2> QED
    BY <1>s, <2>1, <2>2, <2>3, QuietHands
<1>1. ASSUME NEW r \in Reqs, NEW w \in Browsers, login(r, w) PROVE HandInv'
  BY <1>1, <1>s DEF login
<1>2. ASSUME NEW r \in Reqs, NEW w \in Browsers, refresh(r, w) \/ changeCredentials(r, w) PROVE HandInv'
  <2>1. cookie[w] \in Tokens \cup {NULL}
    BY <1>t DEF SessionsType
  <2> QED
    BY <1>2, <2>1, <1>s DEF refresh, changeCredentials
<1>4. ASSUME NEW r \in Reqs, resetCredentials(r) \/ deactivate(r) \/ reactivate(r) \/ changeRole(r)
      PROVE HandInv'
  <2>1. UNCHANGED <<token, closed, cookie>> /\ \E label \in {"end", "bump"} : Start(r, label, NULL, NULL)
    BY <1>4 DEF resetCredentials, deactivate, reactivate, changeRole, user
  <2> QED
    BY <2>1, <1>s
\* A request goes on with the browser and the token it has, or drops the token.
<1>g. ASSUME NEW r \in Reqs, NEW label \in {"store", "respond"}, NEW a, Goto(r, label, a),
             a.w = arg[r].w, a.k \in {arg[r].k, NULL}, UNCHANGED <<token, closed, cookie>>
      PROVE  HandInv'
  <2>1. \A v \in Browsers, j \in Tokens : cookie'[v] = j \/ (a.w = v /\ a.k = j) => InHand(v, j)
    BY <1>a, <1>c, <1>n, <1>g
  <2> QED
    BY <1>g, <2>1, QuietHands
<1>5. ASSUME NEW r \in Reqs, SignAccessToken(r) PROVE HandInv'
  <2> DEFINE a == [arg[r] EXCEPT !.av = version]
  <2>1. a.w = arg[r].w /\ a.k = arg[r].k
    BY <1>t, ArgWithVersion, ArgKeepsBrowser
  <2>2. Goto(r, "store", a) /\ UNCHANGED <<token, closed, cookie>>
    BY <1>5 DEF SignAccessToken
  <2> HIDE DEF a
  <2> QED
    BY <2>1, <2>2, <1>g
<1>d. ASSUME NEW r \in Reqs, Goto(r, "respond", [arg[r] EXCEPT !.k = NULL]), UNCHANGED <<token, closed, cookie>>
      PROVE  HandInv'
  <2>1. [arg[r] EXCEPT !.k = NULL].w = arg[r].w /\ [arg[r] EXCEPT !.k = NULL].k = NULL
    BY <1>t, ArgWithToken, ArgKeepsBrowser
  <2> QED
    BY <1>d, <2>1, <1>g
<1>6. ASSUME NEW r \in Reqs, LockUser(r) PROVE HandInv'
  <2>1. pc[r] = "wait" /\ UNCHANGED <<token, closed, cookie>> /\ arg[r].k \in Issued /\ arg[r].w \in Browsers
    BY <1>t, <1>6 DEF LockUser, ReqOK, RotationOK
  <2>2. CASE ~active
    BY <1>6, <1>d, <2>1, <2>2 DEF LockUser
  <2>3. CASE active
    <3> DEFINE x == RowToRotate(arg[r].k)
               a == [arg[r] EXCEPT !.av = version, !.row = x]
    <3>1. x # NULL => Alive(x)
      BY <2>1, RowIsAlive
    <3>2. x \in Tokens \cup {NULL}
      BY <1>i, <3>1 DEF Alive
    <3>3. x # NULL => token[x].family = token[arg[r].k].family
      BY <2>1, RowIsOfTheFamily
    <3>4. arg[r].w \in Prompt => SignedIn(arg[r].k)
      BY <1>a, <1>i, <2>1 DEF HandInv, PromptHandsOpen
    <3>5. x = NULL /\ arg[r].w \in Prompt => token[arg[r].k].family \in closed
      BY <2>1, <3>4, RowIsOfTheFamily
    <3>6. Goto(r, "rotate", a)
      BY <1>6, <2>3 DEF LockUser
    <3> HIDE DEF x
    <3>7. a.w = arg[r].w /\ a.k = arg[r].k /\ a.row = x
      <4>1. PICK b \in Arg, n \in Nat, y \in Tokens \cup {NULL} : b = arg[r] /\ n = version /\ y = x
        BY <1>t, <3>2
      <4>2. [b EXCEPT !.av = n, !.row = y].k = b.k /\ [b EXCEPT !.av = n, !.row = y].w = b.w
            /\ [b EXCEPT !.av = n, !.row = y].row = y
        BY DEF Arg
      <4> QED
        BY <4>1, <4>2, Zenon
    <3> HIDE DEF a
    <3>8. \A v \in Browsers, j \in Tokens : cookie'[v] = j \/ (a.w = v /\ a.k = j) => InHand(v, j)
      BY <1>a, <1>c, <2>1, <3>7
    <3> QED
      BY <2>1, <3>3, <3>5, <3>6, <3>7, <3>8, QuietHands
  <2> QED
    BY <2>2, <2>3
<1>7. ASSUME NEW r \in Reqs, Renew(r) PROVE HandInv'
  <2>1. UNCHANGED <<token, closed, cookie>>
    BY <1>7 DEF Renew
  <2>2. CASE active
    BY <1>7, <1>g, <2>1, <2>2 DEF Renew
  <2>3. CASE ~active
    BY <1>7, <1>d, <2>1, <2>3 DEF Renew
  <2> QED
    BY <2>2, <2>3
<1>8. ASSUME NEW r \in Reqs, Deliver(r) PROVE HandInv'
  <2>1. cookie' = [cookie EXCEPT ![arg[r].w] = arg[r].k] /\ Goto(r, "idle", NoArg) /\ UNCHANGED <<token, closed>>
    BY <1>8 DEF Deliver, Done
  <2>2. ASSUME NEW v \in Browsers, NEW j \in Tokens, cookie'[v] = j \/ (NoArg.w = v /\ NoArg.k = j)
        PROVE  InHand(v, j)
    <3>1. cookie'[v] = j
      BY <1>n, <2>2, NoArgFits
    <3>2. cookie'[v] = cookie[v] \/ (arg[r].w = v /\ cookie'[v] = arg[r].k)
      BY <1>t, <2>1 DEF SessionsType
    <3> QED
      BY <1>a, <1>c, <3>1, <3>2
  <2> QED
    BY <2>1, <2>2, QuietHands
<1>9. ASSUME NEW r \in Reqs, Fail(r) \/ bumpVersion(r) PROVE HandInv'
  <2>1. Goto(r, "idle", NoArg) /\ UNCHANGED <<token, closed, cookie>>
    BY <1>9 DEF Fail, bumpVersion, Done
  <2>2. \A v \in Browsers, j \in Tokens : cookie'[v] = j \/ (NoArg.w = v /\ NoArg.k = j) => InHand(v, j)
    BY <1>c, <1>n, <2>1, NoArgFits
  <2> QED
    BY <2>1, <2>2, QuietHands
\* A refused browser is late, or its session is closed: nobody else holds the family.
<1>10. ASSUME NEW r \in Reqs, RefuseRotation(r) PROVE HandInv'
  <2>1. arg[r].k \in Issued /\ arg[r].k \in Tokens /\ arg[r].w \in Browsers /\ pc[r] = "rotate" /\ arg[r].row = NULL
    BY <1>i, <1>t, <1>10 DEF RefuseRotation, ReqOK, RotationOK
  <2>f. PICK f : f = token[arg[r].k].family
    OBVIOUS
  <2> DEFINE ks == IF token[arg[r].k].state = "EXPIRED" THEN {arg[r].k} ELSE Family(token[arg[r].k].family)
             a == [arg[r] EXCEPT !.k = NULL]
  <2>2. ks \in SUBSET Issued /\ \A j \in ks : token[j].family = f
    BY <2>1, <2>f DEF Family
  <2>3. token' = Revoke(ks) /\ Goto(r, "respond", a) /\ UNCHANGED <<cookie, closed>>
    BY <1>10 DEF RefuseRotation
  <2>4. a.k = NULL
    BY <1>t, ArgWithToken
  <2> HIDE DEF ks, a
  <2>5. ASSUME NEW w \in Prompt, NEW k \in Tokens, InHand(w, k), token[k].family = f
        PROVE  f \in closed'
    <3>1. InHand(arg[r].w, arg[r].k)
      BY <1>a, <2>1
    <3>2. w = arg[r].w
      BY <1>n, <2>1, <2>5, <2>f, <3>1 DEF HandInv, OneHolder
    <3> QED
      BY <1>t, <2>1, <2>3, <2>f, <3>2 DEF RotationOK
  <2>6. \A w \in Prompt, k \in Tokens, j \in ks :
            InHand(w, k) /\ token[j].family = token[k].family => token[k].family \in closed'
    BY <2>2, <2>5
  <2> QED
    BY <2>2, <2>3, <2>4, <2>6, RevokingHands
\* logout and logoutAll close what they revoke.
<1>l. ASSUME NEW r \in Reqs, NEW w \in Browsers, NEW ks \in SUBSET Issued, token' = Revoke(ks),
             Start(r, "respond", w, NULL), UNCHANGED cookie, closed \subseteq closed',
             \A k \in ks : token[k].family \in closed'
      PROVE  HandInv'
  <2> DEFINE a == [NoArg EXCEPT !.w = w, !.k = NULL]
  <2>1. a.k = NULL
    BY FirstArg
  <2>2. Goto(r, "respond", a)
    BY <1>l DEF Start
  <2> HIDE DEF a
  <2>3. \A v \in Prompt, k \in Tokens, j \in ks :
            InHand(v, k) /\ token[j].family = token[k].family => token[k].family \in closed'
    BY <1>l
  <2> QED
    BY <1>l, <2>1, <2>2, <2>3, RevokingHands
<1>11. ASSUME NEW r \in Reqs, NEW w \in Browsers, logout(r, w) PROVE HandInv'
  <2>1. Family(token[cookie[w]].family) \in SUBSET Issued
    BY DEF Family
  <2>2. closed \subseteq closed' /\ \A k \in Family(token[cookie[w]].family) : token[k].family \in closed'
    BY <1>11 DEF logout, Family
  <2> QED
    BY <1>11, <2>1, <2>2, <1>l DEF logout
<1>12. ASSUME NEW r \in Reqs, NEW w \in Browsers, logoutAll(r, w) PROVE HandInv'
  <2>1. closed \subseteq closed' /\ \A k \in Issued : token[k].family \in closed'
    BY <1>12 DEF logoutAll
  <2> QED
    BY <1>12, <2>1, <1>l DEF logoutAll
<1>13. ASSUME NEW r \in Reqs, endSessions(r) PROVE HandInv'
  <2> DEFINE fs == Ends(arg[r].k)
             ks == {k \in Issued : token[k].family \in fs}
  <2>1. /\ token' = Revoke(ks) /\ closed' = closed \cup fs
        /\ Goto(r, "idle", NoArg) /\ UNCHANGED cookie
    BY <1>13 DEF endSessions, Done
  <2>2. ks \in SUBSET Issued /\ \A j \in ks : token[j].family \in closed'
    BY <2>1
  <2> HIDE DEF ks, fs
  <2>3. \A v \in Prompt, k \in Tokens, j \in ks :
            InHand(v, k) /\ token[j].family = token[k].family => token[k].family \in closed'
    BY <2>2
  <2> QED
    BY <2>1, <2>2, <2>3, NoArgFits, RevokingHands
<1> QED
  BY <1>0, <1>1, <1>2, <1>4, <1>5, <1>6, <1>7, <1>8, <1>9, <1>10, <1>11, <1>12, <1>13,
     StoreHands, RotateHands, TimeHands DEF Next

LEMMA PromptFollows == SessionsInv /\ HandInv => PromptBrowserStaysSignedIn
<1> SUFFICES ASSUME SessionsInv, HandInv, NEW w \in Prompt, cookie[w] # NULL,
                    token[cookie[w]].family \notin closed
             PROVE  /\ token[cookie[w]].state \in {"LIVE", "RECENT"}
                    /\ Live(token[cookie[w]].family) # {}
  BY DEF PromptBrowserStaysSignedIn
<1>1. w \in Browsers
  BY SessionsAssumption
<1>2. PICK k \in Tokens : k = cookie[w]
  BY <1>1 DEF SessionsInv, SessionsType
<1>3. InHand(w, k)
  BY <1>2 DEF InHand
<1>4. SignedIn(k)
  BY <1>3 DEF HandInv, PromptHandsOpen
<1>5. HasLive(token[k].family) => Live(token[k].family) # {}
  BY DEF HasLive, Live, Family, Issued
<1> QED
  BY <1>2, <1>4, <1>5 DEF SignedIn

-----------------------------------------------------------------------------

\* A family never forks, however many tabs refresh at once and whatever ends
\* sessions meanwhile (rotateRow under the user's lock).
THEOREM OneTokenPerFamilyHolds == Spec => []OneTokenPerFamily
  BY SessionsInitOK, SessionsStep, PropertiesFollow, PTL DEF Spec

\* The access tokens of a session that endSessions has ended carry an older version
\* than the user's, also those of a refresh that was under way
\* (rotateRefreshToken, endSessions).
THEOREM EndedSessionsAreRefusedHolds == Spec => []EndedSessionsAreRefused
  BY SessionsInitOK, SessionsStep, PropertiesFollow, PTL DEF Spec

\* A family that has no unrevoked token left never gets one again (rotateLocked).
THEOREM DeadFamilyStaysDeadHolds == Spec => DeadFamilyStaysDead
<1>1. SessionsInv /\ [Next]_vars => [\A f \in Issued : Unrevoked(f) = {} => Unrevoked(f)' = {}]_vars
  <2> SUFFICES ASSUME SessionsInv, [Next]_vars, NEW f \in Issued, Unrevoked(f) = {}
               PROVE  Unrevoked(f)' = {}
    OBVIOUS
  <2>1. NewLife
    BY NewLifeStep
  <2>2. ASSUME NEW k \in Unrevoked(f)' PROVE FALSE
    <3>1. k \in Tokens /\ Alive(k)' /\ token'[k].family = f
      BY <2>2 DEF Unrevoked, Family, Alive, Issued
    <3>2. PICK j \in Tokens : Alive(j) /\ token[j].family = f
      BY <2>1, <3>1 DEF NewLife
    <3> QED
      BY <3>2 DEF Alive, Unrevoked, Family
  <2> QED
    BY <2>2
<1> QED
  BY <1>1, SessionsInitOK, SessionsStep, PTL DEF Spec, DeadFamilyStaysDead

\* A browser that uses its cookie within the grace stays signed in until its
\* session is closed, whatever responses were lost or came late and however many
\* tabs refreshed at once (rotateLocked, reuseGraceMs).
THEOREM PromptBrowserStaysSignedInHolds == Spec => []PromptBrowserStaysSignedIn
<1>1. Init => SessionsInv /\ HandInv
  BY SessionsInitOK, HandInitOK
<1>2. SessionsInv /\ HandInv /\ [Next]_vars => (SessionsInv /\ HandInv)'
  BY SessionsStep, HandStep
<1> QED
  BY <1>1, <1>2, PromptFollows, PTL DEF Spec

-----------------------------------------------------------------------------
(* The version cache and the guard.                                        *)

\* What a process holds: a version that was committed and, on the read path, not
\* older than the one the guard may not fall behind.
HeldInv ==
    \A p \in Procs :
        /\ step[p] \in {"publish", "fill", "decide"} => val[p] <= dbVersion
        /\ step[p] \in {"fill", "decide"} => due[p] <= val[p]
        /\ step[p] \in {"read", "readOnly"} => due[p] <= dbVersion

\* The key between the published and the committed version; a lost key has
\* nothing published.
KeyInv ==
    /\ published <= dbVersion
    /\ cache = NoKey => published = 0
    /\ cache # NoKey => published <= cache /\ cache <= dbVersion

AuthzInv == AuthzTypeOK /\ HeldInv /\ KeyInv

-----------------------------------------------------------------------------

\* A process's step and value after Go; the others keep theirs.
LEMMA GoLemma ==
    ASSUME AuthzTypeOK, NEW p \in Procs, NEW label, NEW v, Go(p, label, v)
    PROVE  /\ step'[p] = label /\ val'[p] = v
           /\ \A q \in Procs : q # p => step'[q] = step[q] /\ val'[q] = val[q]
  BY DEF AuthzTypeOK, Go

\* Go keeps the types of step and val.
LEMMA GoType ==
    ASSUME AuthzTypeOK, NEW p \in Procs, NEW v \in 0 .. MaxAuthz,
           NEW label \in {"idle", "publish", "delete", "read", "readOnly", "fill", "decide"},
           Go(p, label, v)
    PROVE  /\ step' \in [Procs -> {"idle", "publish", "delete", "read", "readOnly", "fill",
                                   "decide"}]
           /\ val' \in [Procs -> 0 .. MaxAuthz]
  BY DEF AuthzTypeOK, Go

\* SET_MAX leaves a version between what it was given and what is committed.
LEMMA SetMaxLemma ==
    ASSUME AuthzTypeOK, KeyInv, NEW v \in 0 .. dbVersion
    PROVE  /\ SetMax(v) \in 0 .. MaxAuthz
           /\ v <= SetMax(v) /\ SetMax(v) <= dbVersion
           /\ published <= SetMax(v)
           /\ Larger(published, v) <= SetMax(v)
           /\ SetMax(v) # NoKey
  BY AuthzAssumption DEF AuthzTypeOK, KeyInv, SetMax, Larger

LEMMA InitInv == AuthzInit => AuthzInv
  BY AuthzAssumption DEF AuthzInit, AuthzInv, AuthzTypeOK, HeldInv, KeyInv

\* Every step of AuthzNext keeps the invariant.
LEMMA StepInv == AuthzInv /\ [AuthzNext]_authzVars => AuthzInv'
<1> SUFFICES ASSUME AuthzInv, [AuthzNext]_authzVars
             PROVE  AuthzInv'
  OBVIOUS
<1> USE AuthzAssumption
<1>t. AuthzTypeOK /\ HeldInv /\ KeyInv
  BY DEF AuthzInv
<1>1. ASSUME NEW p \in Procs, bump(p)
      PROVE  AuthzInv'
  <2>1. dbVersion' = dbVersion + 1 /\ dbVersion < MaxAuthz /\ Go(p, "publish", dbVersion + 1)
        /\ UNCHANGED <<cache, published, due>>
    BY <1>1 DEF bump
  <2>2. dbVersion + 1 \in 0 .. MaxAuthz
    BY <1>t, <2>1 DEF AuthzTypeOK
  <2>3. AuthzTypeOK'
    BY <1>t, <2>1, <2>2, GoType DEF AuthzTypeOK
  <2>4. HeldInv'
    BY <1>t, <2>1, <2>2, GoLemma DEF HeldInv, AuthzTypeOK
  <2>5. KeyInv'
    BY <1>t, <2>1 DEF KeyInv, AuthzTypeOK
  <2> QED BY <2>3, <2>4, <2>5 DEF AuthzInv
<1>2. ASSUME NEW p \in Procs, WriteThrough(p)
      PROVE  AuthzInv'
  <2>1. /\ step[p] = "publish" /\ cache' = SetMax(val[p])
        /\ published' = Larger(published, val[p])
        /\ Go(p, "idle", 0) /\ UNCHANGED <<dbVersion, due>>
    BY <1>2 DEF WriteThrough
  <2>2. val[p] \in 0 .. dbVersion
    BY <1>t, <2>1 DEF HeldInv, AuthzTypeOK
  <2>3. AuthzTypeOK'
    BY <1>t, <2>1, <2>2, GoType, SetMaxLemma DEF AuthzTypeOK, Larger
  <2>4. HeldInv'
    BY <1>t, <2>1, GoLemma DEF HeldInv
  <2>5. published' <= dbVersion
    BY <1>t, <2>1, <2>2 DEF Larger, AuthzTypeOK, KeyInv
  <2>6. KeyInv'
    BY <1>t, <2>1, <2>2, <2>5, SetMaxLemma DEF KeyInv
  <2> QED BY <2>3, <2>4, <2>6 DEF AuthzInv
<1>3. ASSUME NEW p \in Procs, WriteThroughFails(p)
      PROVE  AuthzInv'
  <2>1. /\ step[p] = "publish" /\ cache' \in {cache, SetMax(val[p])}
        /\ Go(p, "delete", 0) /\ UNCHANGED <<dbVersion, published, due>>
    BY <1>3 DEF WriteThroughFails
  <2>2. val[p] \in 0 .. dbVersion
    BY <1>t, <2>1 DEF HeldInv, AuthzTypeOK
  <2>3. AuthzTypeOK'
    BY <1>t, <2>1, <2>2, GoType, SetMaxLemma DEF AuthzTypeOK
  <2>4. HeldInv'
    BY <1>t, <2>1, GoLemma DEF HeldInv
  <2>5. KeyInv'
    BY <1>t, <2>1, <2>2, SetMaxLemma DEF KeyInv
  <2> QED BY <2>3, <2>4, <2>5 DEF AuthzInv
<1>4. ASSUME NEW p \in Procs, DeleteKey(p) \/ GiveUp(p)
      PROVE  AuthzInv'
  <2>1. /\ Go(p, "idle", 0) /\ UNCHANGED <<dbVersion, due>>
        /\ LoseKey \/ UNCHANGED <<cache, published>>
    BY <1>4 DEF DeleteKey, GiveUp
  <2>2. AuthzTypeOK'
    BY <1>t, <2>1, GoType DEF AuthzTypeOK, LoseKey
  <2>3. HeldInv'
    BY <1>t, <2>1, GoLemma DEF HeldInv
  <2>4. KeyInv'
    BY <1>t, <2>1 DEF KeyInv, LoseKey, AuthzTypeOK
  <2> QED BY <2>2, <2>3, <2>4 DEF AuthzInv
<1>5. ASSUME NEW p \in Procs, GetHit(p)
      PROVE  AuthzInv'
  <2>1. /\ cache # NoKey /\ due' = [due EXCEPT ![p] = published]
        /\ Go(p, "decide", cache) /\ UNCHANGED <<dbVersion, cache, published>>
    BY <1>5 DEF GetHit
  <2>2. cache \in 0 .. MaxAuthz /\ published <= cache /\ cache <= dbVersion
    BY <1>t, <2>1 DEF AuthzTypeOK, KeyInv
  <2>3. AuthzTypeOK'
    BY <1>t, <2>1, <2>2, GoType DEF AuthzTypeOK
  <2>4. HeldInv'
    BY <1>t, <2>1, <2>2, GoLemma DEF HeldInv, AuthzTypeOK
  <2>5. KeyInv'
    BY <1>t, <2>1 DEF KeyInv
  <2> QED BY <2>3, <2>4, <2>5 DEF AuthzInv
<1>6. ASSUME NEW p \in Procs, NEW label \in {"read", "readOnly"}, GetMiss(p, label)
      PROVE  AuthzInv'
  <2>1. /\ due' = [due EXCEPT ![p] = dbVersion]
        /\ Go(p, label, 0) /\ UNCHANGED <<dbVersion, cache, published>>
    BY <1>6 DEF GetMiss
  <2>2. AuthzTypeOK'
    BY <1>t, <2>1, GoType DEF AuthzTypeOK
  <2>3. HeldInv'
    BY <1>t, <2>1, GoLemma DEF HeldInv, AuthzTypeOK
  <2>4. KeyInv'
    BY <1>t, <2>1 DEF KeyInv
  <2> QED BY <2>2, <2>3, <2>4 DEF AuthzInv
<1>7. ASSUME NEW p \in Procs, ReadDb(p)
      PROVE  AuthzInv'
  <2>1. PICK label \in {"fill", "decide"} : Go(p, label, dbVersion)
    BY <1>7 DEF ReadDb
  <2>2. step[p] \in {"read", "readOnly"} /\ UNCHANGED <<dbVersion, cache, published, due>>
    BY <1>7 DEF ReadDb
  <2>3. dbVersion \in 0 .. MaxAuthz
    BY <1>t DEF AuthzTypeOK
  <2>4. AuthzTypeOK'
    BY <1>t, <2>1, <2>2, <2>3, GoType DEF AuthzTypeOK
  <2>5. HeldInv'
    BY <1>t, <2>1, <2>2, <2>3, GoLemma DEF HeldInv
  <2>6. KeyInv'
    BY <1>t, <2>2 DEF KeyInv
  <2> QED BY <2>4, <2>5, <2>6 DEF AuthzInv
<1>8. ASSUME NEW p \in Procs, Fill(p) \/ FillFails(p)
      PROVE  AuthzInv'
  <2>1. /\ step[p] = "fill" /\ cache' \in {cache, SetMax(val[p])}
        /\ UNCHANGED <<dbVersion, published, due>>
    BY <1>8 DEF Fill, FillFails
  <2>2. val[p] \in 0 .. dbVersion /\ due[p] <= val[p]
    BY <1>t, <2>1 DEF HeldInv, AuthzTypeOK
  <2>3. PICK v \in {val[p], SetMax(val[p])} : Go(p, "decide", v)
    BY <1>8 DEF Fill, FillFails
  <2>4. v \in 0 .. MaxAuthz /\ v <= dbVersion /\ due[p] <= v
    BY <1>t, <2>2, <2>3, SetMaxLemma DEF AuthzTypeOK
  <2>5. AuthzTypeOK'
    BY <1>t, <2>1, <2>2, <2>3, <2>4, GoType, SetMaxLemma DEF AuthzTypeOK
  <2>6. HeldInv'
    BY <1>t, <2>1, <2>3, <2>4, GoLemma DEF HeldInv
  <2>7. KeyInv'
    BY <1>t, <2>1, <2>2, SetMaxLemma DEF KeyInv
  <2> QED BY <2>5, <2>6, <2>7 DEF AuthzInv
<1>9. ASSUME NEW p \in Procs, Decide(p)
      PROVE  AuthzInv'
  <2>1. /\ Go(p, "idle", 0) /\ due' = [due EXCEPT ![p] = 0]
        /\ UNCHANGED <<dbVersion, cache, published>>
    BY <1>9 DEF Decide
  <2>2. AuthzTypeOK'
    BY <1>t, <2>1, GoType DEF AuthzTypeOK
  <2>3. HeldInv'
    BY <1>t, <2>1, GoLemma DEF HeldInv, AuthzTypeOK
  <2>4. KeyInv'
    BY <1>t, <2>1 DEF KeyInv
  <2> QED BY <2>2, <2>3, <2>4 DEF AuthzInv
<1>10. CASE ExpireKey
  BY <1>t, <1>10 DEF ExpireKey, LoseKey, AuthzInv, AuthzTypeOK, HeldInv, KeyInv
<1>11. CASE UNCHANGED authzVars
  BY <1>t, <1>11 DEF authzVars, AuthzInv, AuthzTypeOK, HeldInv, KeyInv
<1> QED
  BY <1>1, <1>2, <1>3, <1>4, <1>5, <1>6, <1>7, <1>8, <1>9, <1>10, <1>11 DEF AuthzNext

-----------------------------------------------------------------------------

\* AuthzSpec keeps the inductive invariant.
THEOREM AuthzInvariant == AuthzSpec => []AuthzInv
  BY InitInv, StepInv, PTL DEF AuthzSpec

\* The cached version stays between the published and the committed one while
\* the key lives (SET_MAX), for any number of requests and session ends.
THEOREM CacheKeepsUpHolds == AuthzSpec => []CacheKeepsUp
<1>1. AuthzInv => CacheKeepsUp
  BY DEF AuthzInv, KeyInv, CacheKeepsUp
<1> QED BY <1>1, AuthzInvariant, PTL

\* SessionVersionGuard never judges a request by a version older than the last
\* one published before it, or the database's if the key is missing or Redis is
\* down.
THEOREM GuardIsUpToDateHolds == AuthzSpec => []GuardIsUpToDate
<1>1. AuthzInv => GuardIsUpToDate
  BY DEF AuthzInv, HeldInv, GuardIsUpToDate
<1> QED BY <1>1, AuthzInvariant, PTL

-----------------------------------------------------------------------------
(* The web client.                                                         *)

\* A call whose refresh failed belongs to a tab that has lost its session, or an
\* answer.
FailedHaveExcuse ==
    \A c \in Calls : call[c] # NULL /\ call[c].step = "failed" => excuse[call[c].tab]

\* A call went out with the CSRF cookie of that moment in its header.
HeadersMatch ==
    \A c \in Calls : call[c] # NULL =>
        /\ call[c].cookie # NULL => call[c].header = call[c].cookie
        /\ call[c].answer = "403" => call[c].cookie = NULL

ClientInv == ClientTypeOK /\ FailedHaveExcuse /\ HeadersMatch /\ SentAwayOnlyWhenEnded

LEMMA ClientInitOK == ClientInit => ClientInv
<1> SUFFICES ASSUME ClientInit PROVE ClientInv
  OBVIOUS
<1>1. Asked \in Refresh
  BY DEF Asked, Refresh
<1>2. ClientTypeOK
  BY <1>1, ClientAssumption DEF ClientInit, ClientTypeOK
<1> QED
  BY <1>2 DEF ClientInit, ClientInv, FailedHaveExcuse, HeadersMatch, SentAwayOnlyWhenEnded

-----------------------------------------------------------------------------
(* The fields of a call.                                                   *)

\* v is the call w at another step, with another token or answer.
Same(v, w) == v \in Call /\ v.tab = w.tab /\ v.header = w.header /\ v.cookie = w.cookie

LEMMA CallMoved ==
    ASSUME NEW w \in Call, NEW s \in Steps
    PROVE  LET v == [w EXCEPT !.step = s] IN Same(v, w) /\ v.step = s /\ v.answer = w.answer
  BY DEF Call, Same

LEMMA CallAnswered ==
    ASSUME NEW w \in Call, NEW a \in Answers
    PROVE  LET v == [w EXCEPT !.step = "answered", !.answer = a]
           IN  Same(v, w) /\ v.step = "answered" /\ v.answer = a
  BY DEF Call, Same, Steps

LEMMA NoRefusal == NULL # "403"
  BY ClientAssumption DEF Answers

-----------------------------------------------------------------------------
(* The calls after a step.                                                 *)

\* Nobody's excuse is taken away, except from a tab without failed calls.
ExcusesStay ==
    \A t \in Tabs : excuse[t] =>
        excuse'[t] \/ \A c \in Calls : call[c] # NULL /\ call[c].tab = t => call[c].step # "failed"

CallsOK == call' \in [Calls -> Call \cup {NULL}] /\ FailedHaveExcuse' /\ HeadersMatch'

\* What the invariant says of one call.
CallOK(v) ==
    v = NULL \/
    /\ v \in Call
    /\ v.step = "failed" => excuse'[v.tab]
    /\ v.cookie # NULL => v.header = v.cookie
    /\ v.answer = "403" => v.cookie = NULL

LEMMA OldCalls ==
    ASSUME ClientInv, ExcusesStay, NEW c \in Calls
    PROVE  CallOK(call[c])
<1>1. CASE call[c] = NULL
  BY <1>1 DEF CallOK
<1>2. CASE call[c] # NULL
  <2>1. call[c] \in Call /\ call[c].tab \in Tabs
    BY <1>2 DEF ClientInv, ClientTypeOK, Call
  <2>2. call[c].step = "failed" => excuse'[call[c].tab]
    BY <1>2, <2>1 DEF ClientInv, FailedHaveExcuse, ExcusesStay
  <2> QED
    BY <1>2, <2>1, <2>2 DEF CallOK, ClientInv, HeadersMatch
<1> QED
  BY <1>1, <1>2

LEMMA AllCalls ==
    ASSUME call' = [c \in Calls |-> call'[c]], \A c \in Calls : CallOK(call'[c])
    PROVE  CallsOK
<1>1. \A c \in Calls : call'[c] \in Call \cup {NULL}
  BY DEF CallOK
<1>2. call' \in [Calls -> Call \cup {NULL}]
  BY <1>1
<1> QED
  BY <1>2 DEF CallsOK, CallOK, FailedHaveExcuse, HeadersMatch

LEMMA OneCall ==
    ASSUME ClientInv, ExcusesStay, NEW c \in Calls, NEW v, call' = [call EXCEPT ![c] = v], CallOK(v)
    PROVE  CallsOK
<1>1. call' = [d \in Calls |-> call'[d]]
  BY DEF ClientInv, ClientTypeOK
<1>2. call'[c] = v /\ \A d \in Calls \ {c} : call'[d] = call[d]
  BY DEF ClientInv, ClientTypeOK
<1>3. ASSUME NEW d \in Calls PROVE CallOK(call'[d])
  BY <1>2, OldCalls
<1> QED
  BY <1>1, <1>3, AllCalls

LEMMA NoCall ==
    ASSUME ClientInv, ExcusesStay, UNCHANGED call
    PROVE  CallsOK
<1>1. call' = [d \in Calls |-> call'[d]]
  BY DEF ClientInv, ClientTypeOK
<1> QED
  BY <1>1, OldCalls, AllCalls

LEMMA SettledCalls ==
    ASSUME ClientInv, ExcusesStay, NEW t \in Tabs, NEW result \in Nat \cup {NULL},
           call' = Settled(t, result), result = NULL => excuse'[t]
    PROVE  CallsOK
<1>1. call' = [c \in Calls |-> call'[c]]
  BY DEF Settled
<1>2. ASSUME NEW c \in Calls PROVE CallOK(call'[c])
  <2>1. CASE call[c] # NULL /\ call[c].tab = t /\ call[c].step = "waiting"
    <3> DEFINE s == IF result = NULL THEN "failed" ELSE "retry"
    <3>1. call'[c] = [call[c] EXCEPT !.step = s, !.bearer = result]
      BY <2>1 DEF Settled
    <3>2. call[c] \in Call /\ s \in Steps
      BY <2>1 DEF ClientInv, ClientTypeOK, Steps
    <3>4. s = "failed" => result = NULL
      OBVIOUS
    <3> HIDE DEF s
    <3>3. Same(call'[c], call[c]) /\ call'[c].step = s /\ call'[c].answer = call[c].answer
      <4>1. PICK w \in Call : w = call[c]
        BY <3>2
      <4>2. PICK k \in Steps : k = s
        BY <3>2
      <4>3. PICK v : v = call'[c]
        OBVIOUS
      <4>4. v = [w EXCEPT !.step = k, !.bearer = result]
        BY <3>1, <4>1, <4>2, <4>3
      <4>5. Same(v, w) /\ v.step = k /\ v.answer = w.answer
        BY <4>4 DEF Call, Same
      <4> QED
        BY <4>1, <4>2, <4>3, <4>5
    <3>5. CallOK(call[c]) /\ call[c] # NULL
      BY <2>1, OldCalls
    <3> QED
      BY <2>1, <3>3, <3>4, <3>5 DEF CallOK, Same
  <2>2. CASE ~(call[c] # NULL /\ call[c].tab = t /\ call[c].step = "waiting")
    <3>1. call'[c] = call[c]
      BY <2>2 DEF Settled
    <3> QED
      BY <3>1, OldCalls
  <2> QED
    BY <2>1, <2>2
<1> QED
  BY <1>1, <1>2, AllCalls

-----------------------------------------------------------------------------

\* What a step has to show besides the calls.
LEMMA Rest ==
    ASSUME ClientInv, CallsOK,
           /\ renewable' \in BOOLEAN /\ av' \in Nat /\ csrf' \in Nat \cup {NULL} /\ issued' \in Nat
           /\ bearer' \in [Tabs -> Nat \cup {NULL}]
           /\ shows' \in [Tabs -> {"loading", "user", "signin", "ended"}]
           /\ mounting' \in [Tabs -> BOOLEAN]
           /\ refreshing' \in [Tabs -> Refresh \cup {NULL}]
           /\ excuse' \in [Tabs -> BOOLEAN],
           \A t \in Tabs : shows'[t] = "ended" => excuse'[t]
    PROVE  ClientInv'
  BY DEF ClientInv, CallsOK, ClientTypeOK, SentAwayOnlyWhenEnded

LEMMA ClientStep == ClientInv /\ [ClientNext]_clientVars => ClientInv'
<1> SUFFICES ASSUME ClientInv, [ClientNext]_clientVars PROVE ClientInv'
  OBVIOUS
<1>t. ClientTypeOK /\ \A t \in Tabs : shows[t] = "ended" => excuse[t]
  BY DEF ClientInv, SentAwayOnlyWhenEnded
<1>x. excuse' = excuse => ExcusesStay
  BY DEF ExcusesStay
<1>y. ClearCookies => ExcusesStay /\ \A t \in Tabs : excuse'[t]
  BY DEF ClearCookies, ExcusesStay
<1>0. ASSUME UNCHANGED clientVars PROVE ClientInv'
  BY <1>0 DEF clientVars, ClientInv, ClientTypeOK, FailedHaveExcuse, HeadersMatch, SentAwayOnlyWhenEnded
<1>1. ASSUME NEW t \in Tabs, ServerRefresh(t) PROVE ClientInv'
  <2>1. CallsOK
    BY <1>1, <1>x, NoCall DEF ServerRefresh
  <2>2. [state |-> IF renewable THEN "renewed" ELSE "refused", av |-> av] \in Refresh
    BY <1>t DEF ClientTypeOK, Refresh
  <2>3. refreshing' \in [Tabs -> Refresh \cup {NULL}]
    BY <1>1, <1>t, <2>2 DEF ServerRefresh, ClientTypeOK
  <2> QED
    BY <1>1, <1>t, <2>1, <2>3, Rest DEF ServerRefresh, ClientTypeOK
<1>s. ASSUME NEW t \in Tabs, NEW result \in Nat \cup {NULL}, Settle(t, result), ExcusesStay,
             result = NULL => excuse'[t], excuse' \in [Tabs -> BOOLEAN], 
             \A o \in Tabs : excuse[o] => excuse'[o],
             renewable' \in BOOLEAN, csrf' \in Nat \cup {NULL}, issued' \in Nat
      PROVE  ClientInv'
  <2>1. CallsOK
    BY <1>s, SettledCalls DEF Settle
  <2>2. /\ bearer' \in [Tabs -> Nat \cup {NULL}] /\ mounting' \in [Tabs -> BOOLEAN]
        /\ refreshing' \in [Tabs -> Refresh \cup {NULL}] /\ av' \in Nat
    BY <1>s, <1>t DEF Settle, ClientTypeOK
  <2>3. /\ shows' \in [Tabs -> {"loading", "user", "signin", "ended"}]
        /\ \A o \in Tabs : shows'[o] = "ended" => shows[o] = "ended"
    BY <1>s, <1>t DEF Settle, Mounted, ClientTypeOK
  <2> QED
    BY <1>s, <1>t, <2>1, <2>2, <2>3, Rest
<1>2. ASSUME NEW t \in Tabs, refreshAccessToken(t) PROVE ClientInv'
  <2>1. refreshing[t] \in Refresh
    BY <1>2, <1>t DEF refreshAccessToken, ClientTypeOK
  <2>2. refreshing[t].av \in Nat
    BY <2>1 DEF Refresh
  <2>3. CASE refreshing[t].state = "refused"
    <3>1. Settle(t, NULL) /\ ClearCookies
      BY <1>2, <2>3 DEF refreshAccessToken
    <3> QED
      BY <3>1, <1>t, <1>y, <1>s DEF ClearCookies, ClientTypeOK
  <2>4. CASE refreshing[t].state # "refused"
    <3>1. Settle(t, refreshing[t].av) /\ NewCsrf /\ UNCHANGED <<renewable, excuse>>
      BY <1>2, <2>4 DEF refreshAccessToken
    <3>2. refreshing[t].av # NULL /\ csrf' \in Nat \cup {NULL} /\ issued' \in Nat
      BY <2>2, <3>1, <1>t, ClientAssumption DEF NewCsrf, ClientTypeOK
    <3> QED
      BY <2>2, <3>1, <3>2, <1>t, <1>x, <1>s DEF ClientTypeOK
  <2> QED
    BY <2>3, <2>4
<1>3. ASSUME NEW t \in Tabs, RefreshLost(t) PROVE ClientInv'
  <2>1. excuse' \in [Tabs -> BOOLEAN] /\ excuse'[t] /\ \A o \in Tabs : excuse[o] => excuse'[o]
    BY <1>3, <1>t DEF RefreshLost, ClientTypeOK
  <2>2. ExcusesStay
    BY <2>1 DEF ExcusesStay
  <2> QED
    BY <1>3, <1>t, <2>1, <2>2, <1>s DEF RefreshLost, ClientTypeOK
<1>4. ASSUME NEW t \in Tabs, clientLogin(t) PROVE ClientInv'
  <2>1. excuse' \in [Tabs -> BOOLEAN] /\ \A o \in Tabs \ {t} : excuse'[o] = excuse[o]
    BY <1>4, <1>t DEF clientLogin, ClientTypeOK
  <2>2. CallsOK
    <3>1. ExcusesStay
      BY <1>4, <2>1 DEF ExcusesStay, clientLogin
    <3> QED
      BY <1>4, <3>1, NoCall DEF clientLogin
  <2>3. /\ shows' \in [Tabs -> {"loading", "user", "signin", "ended"}]
        /\ shows'[t] = "user" /\ \A o \in Tabs \ {t} : shows'[o] = shows[o]
    BY <1>4, <1>t DEF clientLogin, ClientTypeOK
  <2>4. \A o \in Tabs : shows'[o] = "ended" => excuse'[o]
    BY <1>t, <2>1, <2>3
  <2>5. renewable' \in BOOLEAN /\ av' \in Nat /\ csrf' \in Nat \cup {NULL} /\ issued' \in Nat
    BY <1>4, <1>t DEF clientLogin, NewCsrf, ClientTypeOK
  <2>6. bearer' \in [Tabs -> Nat \cup {NULL}]
    BY <1>4, <1>t DEF clientLogin, ClientTypeOK
  <2> QED
    BY <1>4, <1>t, <2>1, <2>2, <2>3, <2>4, <2>5, <2>6, Rest DEF clientLogin, ClientTypeOK
<1>5. ASSUME NEW t \in Tabs, NEW heard \in BOOLEAN, clientLogout(t, heard) PROVE ClientInv'
  <2>1. /\ ExcusesStay /\ excuse' \in [Tabs -> BOOLEAN] /\ \A o \in Tabs : excuse[o] => excuse'[o]
        /\ renewable' \in BOOLEAN /\ csrf' \in Nat \cup {NULL} /\ issued' \in Nat
    BY <1>5, <1>t, <1>x, <1>y DEF clientLogout, ClearCookies, ClientTypeOK
  <2>2. CallsOK
    BY <1>5, <2>1, NoCall DEF clientLogout
  <2>3. /\ shows' \in [Tabs -> {"loading", "user", "signin", "ended"}] /\ bearer' \in [Tabs -> Nat \cup {NULL}]
        /\ \A o \in Tabs : shows'[o] = "ended" => shows[o] = "ended"
    BY <1>5, <1>t DEF clientLogout, ClientTypeOK
  <2> QED
    BY <1>5, <1>t, <2>1, <2>2, <2>3, Rest DEF clientLogout, ClientTypeOK
<1>6. ASSUME NEW ends \in BOOLEAN, ServerMovesOn(ends) PROVE ClientInv'
  <2>1. /\ ExcusesStay /\ excuse' \in [Tabs -> BOOLEAN] /\ \A o \in Tabs : excuse[o] => excuse'[o]
        /\ renewable' \in BOOLEAN
    BY <1>6, <1>t, <1>x DEF ServerMovesOn, ClientTypeOK, ExcusesStay
  <2>2. CallsOK
    BY <1>6, <2>1, NoCall DEF ServerMovesOn
  <2> QED
    BY <1>6, <1>t, <2>1, <2>2, Rest DEF ServerMovesOn, ClientTypeOK
<1>c. ASSUME NEW c \in Calls, NEW v, call' = [call EXCEPT ![c] = v], CallOK(v),
             UNCHANGED <<renewable, av, csrf, issued, bearer, shows, mounting, excuse>>,
             refreshing' \in [Tabs -> Refresh \cup {NULL}]
      PROVE  ClientInv'
  <2>1. CallsOK
    BY <1>c, <1>x, OneCall
  <2> QED
    BY <1>c, <1>t, <2>1, Rest DEF ClientTypeOK
<1>7. ASSUME NEW t \in Tabs, NEW c \in Calls, api(c, t) PROVE ClientInv'
  <2>1. bearer[t] \in Nat \cup {NULL} /\ csrf \in Nat \cup {NULL}
    BY <1>t DEF ClientTypeOK
  <2> DEFINE v == Sent(t, bearer[t], csrf, FALSE)
  <2>2. call' = [call EXCEPT ![c] = v]
    BY <1>7 DEF api
  <2>3. /\ v \in Call /\ v.step = "sent" /\ v.answer # "403"
        /\ v.header = csrf /\ v.cookie = csrf
    BY <2>1, NoRefusal DEF Call, Sent, Steps
  <2> HIDE DEF v
  <2>4. CallOK(v)
    BY <2>3 DEF CallOK
  <2> QED
    BY <1>7, <1>t, <2>2, <2>4, <1>c DEF api, ClientTypeOK
<1>8. ASSUME NEW c \in Calls, NEW a \in Answers, ServerAnswer(c, a) PROVE ClientInv'
  <2> DEFINE w == call[c]
             v == [w EXCEPT !.step = "answered", !.answer = a]
  <2>1. w \in Call /\ w # NULL /\ a \in Guarded(w) /\ call' = [call EXCEPT ![c] = v]
    BY <1>8, <1>t DEF ServerAnswer, ClientTypeOK
  <2>2. Same(v, w) /\ v.step = "answered" /\ v.answer = a
    BY <2>1, CallAnswered
  <2>3. w.cookie # NULL => w.header = w.cookie
    BY <2>1 DEF ClientInv, HeadersMatch
  <2>4. a = "403" => w.cookie = NULL
    BY <2>1, <2>3 DEF Guarded
  <2> HIDE DEF v, w
  <2>5. CallOK(v)
    BY <2>2, <2>3, <2>4 DEF CallOK, Same
  <2> QED
    BY <1>8, <1>t, <2>1, <2>5, <1>c DEF ServerAnswer, ClientTypeOK
<1>9. ASSUME NEW c \in Calls, AwaitRefresh(c) PROVE ClientInv'
  <2> DEFINE w == call[c]
             v == [w EXCEPT !.step = "waiting"]
  <2>1. w \in Call /\ w # NULL /\ call' = [call EXCEPT ![c] = v]
    BY <1>9, <1>t DEF AwaitRefresh, ClientTypeOK
  <2>2. Same(v, w) /\ v.step = "waiting" /\ v.answer = w.answer
    BY <2>1, CallMoved DEF Steps
  <2>3. CallOK(w)
    BY <1>9, <1>x, OldCalls DEF AwaitRefresh
  <2>4. w.tab \in Tabs /\ Asked \in Refresh
    BY <2>1 DEF Call, Asked, Refresh
  <2>5. refreshing' \in [Tabs -> Refresh \cup {NULL}]
    BY <1>9, <1>t, <2>4 DEF AwaitRefresh, ClientTypeOK
  <2>6. UNCHANGED <<renewable, av, csrf, issued, bearer, shows, mounting, excuse>>
    BY <1>9 DEF AwaitRefresh
  <2> HIDE DEF v, w
  <2>7. CallOK(v)
    BY <2>1, <2>2, <2>3 DEF CallOK, Same
  <2> QED
    BY <2>1, <2>5, <2>6, <2>7, <1>c
<1>10. ASSUME NEW c \in Calls, Retry(c) PROVE ClientInv'
  <2> DEFINE w == call[c]
             h == IF csrf = NULL THEN w.header ELSE csrf
             v == Sent(w.tab, w.bearer, h, TRUE)
  <2>1. w \in Call /\ call' = [call EXCEPT ![c] = v]
    BY <1>10, <1>t DEF Retry, ClientTypeOK
  <2>2. w.tab \in Tabs /\ w.bearer \in Nat \cup {NULL} /\ w.header \in Nat \cup {NULL}
    BY <2>1 DEF Call
  <2>3. csrf \in Nat \cup {NULL} /\ h \in Nat \cup {NULL} /\ (csrf # NULL => h = csrf)
    BY <1>t, <2>2 DEF ClientTypeOK
  <2> HIDE DEF h, w
  <2>5. /\ v \in Call /\ v.step = "sent" /\ v.answer # "403"
        /\ v.header = h /\ v.cookie = csrf
    BY <2>2, <2>3, NoRefusal DEF Call, Sent, Steps
  <2> HIDE DEF v
  <2>4. CallOK(v)
    BY <2>3, <2>5 DEF CallOK
  <2> QED
    BY <1>10, <1>t, <2>1, <2>4, <1>c DEF Retry, ClientTypeOK
<1>11. ASSUME NEW c \in Calls, CallLost(c) PROVE ClientInv'
  BY <1>11, <1>t, <1>c DEF CallLost, CallOK, ClientTypeOK
<1>12. ASSUME NEW c \in Calls, Return(c) PROVE ClientInv'
  <2> DEFINE w == call[c]
  <2>1. w \in Call /\ w # NULL /\ call' = [call EXCEPT ![c] = NULL] /\ excuse' = excuse
    BY <1>12, <1>t DEF Return, ClientTypeOK
  <2>2. CallsOK
    BY <1>x, <2>1, OneCall DEF CallOK
  <2>3. w.tab \in Tabs
    BY <2>1 DEF Call
  <2>4. CASE EndsSession(w)
    <3>1. excuse[w.tab]
      BY <2>1, <2>4 DEF EndsSession, ClientInv, FailedHaveExcuse
    <3>2. bearer' = [bearer EXCEPT ![w.tab] = NULL] /\ shows' = [shows EXCEPT ![w.tab] = "ended"]
      BY <1>12, <2>4 DEF Return
    <3>3. /\ bearer' \in [Tabs -> Nat \cup {NULL}] /\ shows' \in [Tabs -> {"loading", "user", "signin", "ended"}]
          /\ \A o \in Tabs \ {w.tab} : shows'[o] = shows[o]
      BY <1>t, <2>3, <3>2 DEF ClientTypeOK
    <3>4. \A o \in Tabs : shows'[o] = "ended" => excuse'[o]
      BY <1>t, <2>1, <3>1, <3>3
    <3> QED
      BY <1>12, <1>t, <2>1, <2>2, <3>3, <3>4, Rest DEF Return, ClientTypeOK
  <2>5. CASE ~EndsSession(w)
    BY <1>12, <1>t, <2>1, <2>2, <2>5, Rest DEF Return, ClientTypeOK
  <2> QED
    BY <2>4, <2>5
<1> QED
  BY <1>0, <1>1, <1>2, <1>3, <1>4, <1>5, <1>6, <1>7, <1>8, <1>9, <1>10, <1>11, <1>12 DEF ClientNext

\* A tab is told that its session has ended only if the session did end since it
\* signed in, or the answer to one of its refreshes was lost (api, refreshSession).
THEOREM SentAwayOnlyWhenEndedHolds == ClientSpec => []SentAwayOnlyWhenEnded
<1>1. ClientInv => SentAwayOnlyWhenEnded
  BY DEF ClientInv
<1> QED
  BY <1>1, ClientInitOK, ClientStep, PTL DEF ClientSpec

\* No call that carries the CSRF cookie is refused for its CSRF header, whichever
\* tabs refresh meanwhile (api).
THEOREM HeaderMatchesCookieHolds == ClientSpec => []HeaderMatchesCookie
<1>1. ClientInv => HeaderMatchesCookie
  BY DEF ClientInv, HeadersMatch, HeaderMatchesCookie
<1> QED
  BY <1>1, ClientInitOK, ClientStep, PTL DEF ClientSpec

===============================================================================

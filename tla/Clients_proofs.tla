---------------------------- MODULE Clients_proofs ----------------------------
(*****************************************************************************)
(* Proofs about what runs at the user's end, for any tabs, processes, calls, *)
(* tokens, panes, devices and faults.  RefreshTokens with each of its two    *)
(* kinds of clients: what WebSession and CliSession do to the tokens keeps   *)
(* TokenInv.  TerminalPane: a pane holds the session it shows.               *)
(*****************************************************************************)
EXTENDS WebSession, CliSession, TerminalPane, TLAPS

Ref == [at : {"none", "sent", "found", "revoked"} \cup Answers,
        tok : Token \cup {NoToken}, new : Token \cup {NoToken}]
Bye == [at : {"none", "sent", "answered"}, tok : Token \cup {NoToken}]

LEMMA NewTokenIsNew ==
  ASSUME Unknown # {}
  PROVE  /\ NewToken \in Token /\ NewToken # stored
         /\ \A c \in Client : NewToken # ref[c].tok /\ NewToken # ref[c].new /\ NewToken # bye[c].tok
<1>1. PICK t \in Token : t \in Unknown
  BY DEF Unknown
<1>2. NewToken \in Token /\ NewToken \in Unknown
  BY <1>1 DEF NewToken
<1>. QED
  BY <1>2 DEF Unknown, Known

LEMMA TokensStart == TokenInit => TokenInv
<1> SUFFICES ASSUME TokenInit PROVE TokenInv
  OBVIOUS
<1>1. NoRef \in Ref /\ NoBye \in Bye
  BY DEF NoRef, NoBye, Ref, Bye
<1>2. ref \in [Client -> Ref] /\ bye \in [Client -> Bye]
  BY <1>1 DEF TokenInit
<1>3. TokenTypeOK
  BY <1>2 DEF TokenInit, TokenTypeOK, Ref, Bye
<1>4. StoredIsCovered /\ NewIsSecret /\ LogoutIsFinal
  BY DEF TokenInit, StoredIsCovered, NewIsSecret, LogoutIsFinal, NoRef
<1>. QED
  BY <1>3, <1>4 DEF TokenInv

(***************************************************************************)
(* The backend.                                                            *)
(***************************************************************************)

LEMMA LoginKeeps ==
  ASSUME TokenInv, Login
  PROVE  TokenInv'
<1>1. /\ NewToken \in Token /\ NewToken # stored
      /\ \A c \in Client : NewToken # ref[c].tok /\ NewToken # ref[c].new /\ NewToken # bye[c].tok
  BY NewTokenIsNew DEF Login
<1>. QED
  BY <1>1 DEF Login, TokenInv, TokenTypeOK, StoredIsCovered, NewIsSecret, LogoutIsFinal

(* A refresh that gets to its next state, having revoked its own token or
   none; what is lost then is covered no worse.                            *)
LEMMA RefreshGoesOn ==
  ASSUME TokenInv, NEW c \in Client, NEW to \in {"found", "revoked", "refused", "error"},
         ref[c].at # "none", RefGoes(c, to),
         valid' = valid \/ (valid' = valid \ {ref[c].tok} /\ to # "error" /\ ref[c].at = "found"),
         IF to = "error" THEN lost' = lost \cup ({ref[c].tok} \ valid) ELSE UNCHANGED lost,
         ref[c].at # "error",
         UNCHANGED <<stored, bye, quiet>>
  PROVE  TokenInv'
<1>1. /\ TokenTypeOK /\ StoredIsCovered /\ NewIsSecret /\ LogoutIsFinal
      /\ ref' = [ref EXCEPT ![c].at = to]
  BY DEF TokenInv, RefGoes
<1>2. /\ ref'[c].at = to /\ ref'[c].tok = ref[c].tok /\ ref'[c].new = ref[c].new
      /\ \A d \in Client \ {c} : ref'[d] = ref[d]
      /\ ref[c].tok \in Token /\ ref' \in [Client -> Ref]
  BY <1>1, NoTokenFresh DEF TokenTypeOK, NewIsSecret, Ref, Answers
<1>3. TokenTypeOK'
  BY <1>1, <1>2 DEF TokenTypeOK, Ref
<1>4. StoredIsCovered'
  BY <1>1, <1>2 DEF StoredIsCovered
<1>5. NewIsSecret'
  BY <1>1, <1>2 DEF NewIsSecret
<1>6. LogoutIsFinal'
  BY <1>1, <1>2 DEF LogoutIsFinal, Refreshing
<1>. QED
  BY <1>3, <1>4, <1>5, <1>6 DEF TokenInv

LEMMA RefIssueKeeps ==
  ASSUME TokenInv, NEW c \in Client, RefIssue(c)
  PROVE  TokenInv'
<1>1. /\ NewToken \in Token /\ NewToken # stored
      /\ \A d \in Client : NewToken # ref[d].tok /\ NewToken # ref[d].new /\ NewToken # bye[d].tok
  BY NewTokenIsNew DEF RefIssue
<1>2. /\ TokenTypeOK /\ StoredIsCovered /\ NewIsSecret /\ LogoutIsFinal
      /\ ref' = [ref EXCEPT ![c].at = "granted", ![c].new = NewToken]
      /\ valid' = valid \cup {NewToken} /\ lost' = lost \ {NewToken}
      /\ UNCHANGED <<stored, bye, quiet>> /\ ref[c].at = "revoked"
  BY DEF TokenInv, RefIssue
<1>3. /\ ref'[c].at = "granted" /\ ref'[c].tok = ref[c].tok /\ ref'[c].new = NewToken
      /\ \A d \in Client \ {c} : ref'[d] = ref[d]
      /\ ref' \in [Client -> Ref]
  BY <1>1, <1>2 DEF TokenTypeOK, Ref, Answers
<1>4. TokenTypeOK'
  BY <1>1, <1>2, <1>3 DEF TokenTypeOK, Ref
<1>5. StoredIsCovered'
  BY <1>1, <1>2, <1>3 DEF StoredIsCovered
<1>6. NewIsSecret'
  BY <1>1, <1>2, <1>3 DEF NewIsSecret
<1>7. LogoutIsFinal'
  BY <1>2, <1>3 DEF LogoutIsFinal, Refreshing
<1>. QED
  BY <1>4, <1>5, <1>6, <1>7 DEF TokenInv

LEMMA TokenStepKeeps ==
  ASSUME TokenInv, NEW c \in Client, TokenStep(c)
  PROVE  TokenInv'
<1>1. ASSUME RefFind(c) PROVE TokenInv'
  BY <1>1, RefreshGoesOn DEF RefFind
<1>2. ASSUME RefRevoke(c) PROVE TokenInv'
  BY <1>2, RefreshGoesOn DEF RefRevoke
<1>3. ASSUME RefFails(c) PROVE TokenInv'
  BY <1>3, RefreshGoesOn DEF RefFails
<1>4. ASSUME RefLost(c) PROVE TokenInv'
  BY <1>4, RefreshGoesOn DEF RefLost
<1>. QED
  BY <1>1, <1>2, <1>3, <1>4, RefIssueKeeps DEF TokenStep

(* A logout is answered: the client still knows the token, or has forgotten
   it before.                                                              *)
LEMMA ByeKeeps ==
  ASSUME TokenInv, NEW c \in Client, NEW to \in Bye, ByeEnds(c, to),
         \/ to.tok = bye[c].tok
         \/ to.tok = NoToken /\ (stored # NoToken => bye[c].tok # stored)
  PROVE  TokenInv'
<1>1. /\ TokenTypeOK /\ StoredIsCovered /\ NewIsSecret /\ LogoutIsFinal
      /\ bye' = [bye EXCEPT ![c] = to] /\ UNCHANGED <<stored, ref, lost, quiet>>
      /\ valid' = valid \ {bye[c].tok} \/ valid' = valid
  BY DEF TokenInv, ByeEnds
<1>2. bye'[c] = to /\ (\A d \in Client \ {c} : bye'[d] = bye[d]) /\ bye' \in [Client -> Bye]
  BY <1>1 DEF TokenTypeOK, Bye
<1>3. TokenTypeOK'
  BY <1>1, <1>2 DEF TokenTypeOK, Bye
<1>4. StoredIsCovered'
  BY <1>1, <1>2 DEF StoredIsCovered
<1>5. NewIsSecret'
  BY <1>1, <1>2, NoTokenFresh DEF NewIsSecret, TokenTypeOK
<1>6. LogoutIsFinal'
  BY <1>1 DEF LogoutIsFinal, Refreshing
<1>. QED
  BY <1>3, <1>4, <1>5, <1>6 DEF TokenInv

(***************************************************************************)
(* What clients do with the token they share.                              *)
(***************************************************************************)

LEMMA StartRefKeeps ==
  ASSUME TokenInv, NEW c \in Client, ref[c].at = "none", stored # NoToken, StartRef(c),
         UNCHANGED <<valid, stored, bye, lost, quiet>>
  PROVE  TokenInv'
<1>1. /\ TokenTypeOK /\ StoredIsCovered /\ NewIsSecret /\ LogoutIsFinal
      /\ ref' = [ref EXCEPT ![c] = [at |-> "sent", tok |-> stored, new |-> NoToken]]
  BY DEF TokenInv, StartRef
<1>2. /\ ref'[c] = [at |-> "sent", tok |-> stored, new |-> NoToken]
      /\ \A d \in Client \ {c} : ref'[d] = ref[d]
      /\ ref' \in [Client -> Ref]
  BY <1>1 DEF TokenTypeOK, Ref
<1>3. TokenTypeOK'
  BY <1>1, <1>2 DEF TokenTypeOK, Ref
<1>4. StoredIsCovered'
  BY <1>1, <1>2 DEF StoredIsCovered
<1>5. NewIsSecret'
  BY <1>1, <1>2, NoTokenFresh DEF NewIsSecret, TokenTypeOK
<1>6. LogoutIsFinal'
  BY <1>1 DEF LogoutIsFinal
<1>. QED
  BY <1>3, <1>4, <1>5, <1>6 DEF TokenInv

(* A refresh ends: its new token is stored, or none, or its answer never came.
   Or its process is killed before its token was revoked.                  *)
LEMMA EndRefKeeps ==
  ASSUME TokenInv, NEW c \in Client, EndRef(c),
         \/ ref[c].at = "granted" /\ stored' = ref[c].new /\ UNCHANGED lost
         \/ ref[c].at # "none" /\ stored' = NoToken /\ UNCHANGED lost
         \/ ref[c].at = "error" /\ UNCHANGED <<stored, lost>>
         \/ UNCHANGED stored /\ lost' = lost \cup ({ref[c].tok} \ (valid \cup {NoToken})),
         UNCHANGED <<valid, bye, quiet>>
  PROVE  TokenInv'
<1>1. /\ TokenTypeOK /\ StoredIsCovered /\ NewIsSecret /\ LogoutIsFinal
      /\ ref' = [ref EXCEPT ![c] = NoRef]
  BY DEF TokenInv, EndRef
<1>2. /\ ref'[c] = NoRef /\ (\A d \in Client \ {c} : ref'[d] = ref[d])
      /\ ref' \in [Client -> Ref]
  BY <1>1 DEF TokenTypeOK, Ref, NoRef
<1>3. TokenTypeOK'
  BY <1>1, <1>2 DEF TokenTypeOK, Ref
<1>4. StoredIsCovered'
  BY <1>1, <1>2 DEF StoredIsCovered, NewIsSecret, NoRef
<1>5. NewIsSecret'
  BY <1>1, <1>2, NoTokenFresh DEF NewIsSecret, NoRef, TokenTypeOK
<1>6. LogoutIsFinal'
  BY <1>1, <1>2 DEF LogoutIsFinal, Refreshing, NoRef
<1>. QED
  BY <1>3, <1>4, <1>5, <1>6 DEF TokenInv

(* The token is forgotten.                                                 *)
LEMMA ForgetKeeps ==
  ASSUME TokenInv, stored' = NoToken,
         quiet' = quiet \/ quiet' = (Refreshing = {}),
         bye' = bye \/ \E c \in Client, b \in Bye : /\ bye' = [bye EXCEPT ![c] = b]
                                                   /\ b.tok \in {stored, NoToken},
         UNCHANGED <<valid, ref, lost>>
  PROVE  TokenInv'
<1>1. TokenTypeOK /\ NewIsSecret /\ LogoutIsFinal
  BY DEF TokenInv
<1>2. quiet' \in BOOLEAN
  BY <1>1 DEF TokenTypeOK
<1>3. /\ bye' \in [Client -> Bye]
      /\ \A c \in Client : bye'[c].tok \in {bye[c].tok, stored, NoToken}
  BY <1>1 DEF TokenTypeOK, Bye
<1>4. TokenTypeOK' /\ StoredIsCovered'
  BY <1>1, <1>2, <1>3 DEF TokenTypeOK, StoredIsCovered, Bye
<1>5. NewIsSecret'
  BY <1>1, <1>3, NoTokenFresh DEF NewIsSecret, TokenTypeOK
<1>6. LogoutIsFinal'
  BY <1>1 DEF LogoutIsFinal, Refreshing
<1>. QED
  BY <1>4, <1>5, <1>6 DEF TokenInv

LEMMA TokensUntouched ==
  ASSUME TokenInv, UNCHANGED tokenVars
  PROVE  TokenInv'
BY DEF TokenInv, TokenTypeOK, StoredIsCovered, NewIsSecret, LogoutIsFinal, Refreshing, tokenVars

(* Covered is usable, but for the time a refresh or a logout takes.        *)
LEMMA CoveredIsUsable == TokenInv => StoredIsUsable /\ LogoutIsFinal
BY DEF TokenInv, StoredIsCovered, StoredIsUsable
(***************************************************************************)
(* The web client.                                                         *)
(***************************************************************************)

LEMMA WebStarts == WebInit => WebInv
<1> SUFFICES ASSUME WebInit PROVE WebInv
  OBVIOUS
<1>1. TokenInv
  BY TokensStart DEF WebInit
<1>2. WebTypeOK /\ ByeIsForgotten
  BY DEF WebInit, TokenInit, WebTypeOK, ByeIsForgotten
<1>3. RefreshIsAwaited
  BY DEF WebInit, TokenInit, RefreshIsAwaited, Waiting, NoRef
<1>. QED
  BY <1>1, <1>2, <1>3 DEF WebInv

(* The answers of the backend: no call stops or starts to wait.            *)
LEMMA WebBackend ==
  ASSUME WebInv, UNCHANGED webVars,
         Login \/ \E w \in Client : TokenStep(w) \/ ByeEnds(w, NoBye)
  PROVE  WebInv'
<1>1. TokenInv /\ TokenTypeOK /\ WebTypeOK /\ RefreshIsAwaited /\ ByeIsForgotten
  BY DEF WebInv, TokenInv
<1>2. WebTypeOK' /\ \A w \in Client : Waiting(w)' = Waiting(w)
  BY <1>1 DEF WebTypeOK, webVars, Waiting
<1>3. CASE Login
  <2>1. RefreshIsAwaited'
    BY <1>1, <1>2, <1>3 DEF RefreshIsAwaited, Login
  <2>2. Unknown # {} /\ stored' = NewToken /\ bye' = bye
    BY <1>3 DEF Login
  <2>3. ByeIsForgotten'
    BY <2>2, NewTokenIsNew DEF ByeIsForgotten
  <2>. QED
    BY <1>1, <1>2, <1>3, <2>1, <2>3, LoginKeeps DEF WebInv
<1>4. ASSUME NEW w \in Client, TokenStep(w) PROVE WebInv'
  <2>1. UNCHANGED <<stored, bye>>
    BY <1>4 DEF TokenStep, RefFind, RefRevoke, RefIssue, RefFails, RefLost
  <2>2. ref[w].at # "none" /\ ref'[w].at # "none" /\ \A v \in Client \ {w} : ref'[v] = ref[v]
    BY <1>1, <1>4 DEF TokenStep, RefFind, RefRevoke, RefIssue, RefFails, RefLost, RefGoes, TokenTypeOK
  <2>3. RefreshIsAwaited' /\ ByeIsForgotten'
    BY <1>1, <1>2, <2>1, <2>2 DEF RefreshIsAwaited, ByeIsForgotten
  <2>. QED
    BY <1>1, <1>2, <1>4, <2>3, TokenStepKeeps DEF WebInv
<1>5. ASSUME NEW w \in Client, ByeEnds(w, NoBye) PROVE WebInv'
  <2>1. TokenInv'
    <3>1. NoBye \in Bye /\ NoBye.tok = NoToken /\ (stored # NoToken => bye[w].tok # stored)
      BY <1>1 DEF NoBye, Bye, ByeIsForgotten
    <3>. QED
      BY <1>1, <1>5, <3>1, ByeKeeps
  <2>2. RefreshIsAwaited' /\ ByeIsForgotten'
    BY <1>1, <1>2, <1>5 DEF RefreshIsAwaited, ByeIsForgotten, ByeEnds, NoBye, TokenTypeOK
  <2>. QED
    BY <1>2, <2>1, <2>2 DEF WebInv
<1>. QED
  BY <1>3, <1>4, <1>5

(* A call moves, and may start the refresh of its tab.                     *)
LEMMA WebCall ==
  ASSUME WebInv, NEW q \in Call, Send(q) \/ Answered(q) \/ Unauthorized(q)
  PROVE  WebInv'
<1>1. TokenInv /\ TokenTypeOK /\ WebTypeOK /\ RefreshIsAwaited /\ ByeIsForgotten
      /\ TabOf[q] \in Client
  BY TabOfType DEF WebInv, TokenInv
<1>2. stage[q] # "waiting" /\ UNCHANGED <<stored, bye, asking>>
  BY DEF Send, Answered, Unauthorized, tokenVars
<1>3. CASE \E to \in {"idle", "sent"} : stage' = [stage EXCEPT ![q] = to] /\ UNCHANGED tokenVars
  <2>1. WebTypeOK' /\ \A w \in Client : Waiting(w)' = Waiting(w)
    BY <1>1, <1>2, <1>3 DEF WebTypeOK, Waiting
  <2>2. RefreshIsAwaited' /\ ByeIsForgotten'
    BY <1>1, <1>3, <2>1 DEF RefreshIsAwaited, ByeIsForgotten, tokenVars
  <2>. QED
    BY <1>1, <1>3, <2>1, <2>2, TokensUntouched DEF WebInv
<1>4. CASE /\ stored # NoToken /\ stage' = [stage EXCEPT ![q] = "waiting"]
           /\ IF ref[TabOf[q]].at = "none" THEN StartRef(TabOf[q]) ELSE UNCHANGED ref
           /\ UNCHANGED <<valid, stored, bye, lost, quiet, asking>>
  <2>1. WebTypeOK' /\ ByeIsForgotten'
    BY <1>1, <1>4 DEF WebTypeOK, ByeIsForgotten
  <2>2. TokenInv'
    <3>1. CASE ref[TabOf[q]].at = "none"
      BY <1>1, <1>4, <3>1, StartRefKeeps
    <3>2. CASE ref[TabOf[q]].at # "none"
      BY <1>1, <1>4, <3>2, TokensUntouched DEF tokenVars
    <3>. QED
      BY <3>1, <3>2
  <2>3. Waiting(TabOf[q])' # {} /\ \A w \in Client \ {TabOf[q]} : Waiting(w)' = Waiting(w)
    BY <1>1, <1>2, <1>4 DEF WebTypeOK, Waiting
  <2>4. ref'[TabOf[q]].at # "none" /\ \A w \in Client \ {TabOf[q]} : ref'[w] = ref[w]
    BY <1>1, <1>4 DEF StartRef, TokenTypeOK
  <2>5. RefreshIsAwaited'
    BY <1>1, <2>3, <2>4 DEF RefreshIsAwaited
  <2>. QED
    BY <2>1, <2>2, <2>5 DEF WebInv
<1>. QED
  BY <1>3, <1>4 DEF Send, Answered, Unauthorized, tokenVars

(* The refresh of a tab ends, and with it the wait of all its calls.       *)
LEMMA WebRefreshEnds ==
  ASSUME WebInv, NEW w \in Client, RefreshEnds(w)
  PROVE  WebInv'
<1>1. TokenInv /\ TokenTypeOK /\ WebTypeOK /\ RefreshIsAwaited /\ ByeIsForgotten /\ NewIsSecret
  BY DEF WebInv, TokenInv
<1>2. PICK to \in {"again", "idle"} : Resume(w, to)
  BY DEF RefreshEnds
<1>3. /\ EndRef(w) /\ UNCHANGED <<valid, bye, lost, quiet, asking>>
      /\ \/ ref[w].at = "granted" /\ stored' = ref[w].new
         \/ ref[w].at # "none" /\ stored' = NoToken
         \/ ref[w].at = "error" /\ UNCHANGED stored
  BY DEF RefreshEnds
<1>4. TokenInv'
  BY <1>1, <1>3, EndRefKeeps
<1>5. WebTypeOK'
  BY <1>1, <1>2, <1>3 DEF WebTypeOK, Resume
<1>6. ByeIsForgotten'
  BY <1>1, <1>3 DEF ByeIsForgotten, NewIsSecret
<1>7. Waiting(w)' = {} /\ \A v \in Client \ {w} : Waiting(v)' = Waiting(v)
  <2>1. \A q \in Call : stage'[q] = IF q \in Waiting(w) THEN to ELSE stage[q]
    BY <1>2 DEF Resume
  <2>2. \A q \in Call : q \in Waiting(w) <=> TabOf[q] = w /\ stage[q] = "waiting"
    BY DEF Waiting
  <2>. QED
    BY <2>1, <2>2 DEF Waiting
<1>8. ref'[w].at = "none" /\ \A v \in Client \ {w} : ref'[v] = ref[v]
  BY <1>1, <1>3 DEF EndRef, NoRef, TokenTypeOK
<1>9. RefreshIsAwaited'
  BY <1>1, <1>7, <1>8 DEF RefreshIsAwaited
<1>. QED
  BY <1>4, <1>5, <1>6, <1>9 DEF WebInv

(* A tab logs out, is loaded, or has been.                                 *)
LEMMA WebTab ==
  ASSUME WebInv, NEW w \in Client, Logout(w) \/ Load(w) \/ Loaded(w)
  PROVE  WebInv'
<1>1. TokenInv /\ TokenTypeOK /\ WebTypeOK /\ RefreshIsAwaited /\ ByeIsForgotten
  BY DEF WebInv, TokenInv
<1>2. /\ UNCHANGED <<stage, valid, ref, lost>> /\ asking' \subseteq Client
      /\ stored' \in {stored, NoToken}
  BY <1>1 DEF Logout, Load, Loaded, Forget, tokenVars, webVars, WebTypeOK
<1>3. RefreshIsAwaited' /\ WebTypeOK'
  BY <1>1, <1>2 DEF RefreshIsAwaited, Waiting, WebTypeOK
<1>4. CASE Logout(w)
  <2>1. /\ [at |-> "sent", tok |-> stored] \in Bye
        /\ bye' = [bye EXCEPT ![w] = [at |-> "sent", tok |-> stored]]
        /\ stored' = NoToken /\ quiet' = (Refreshing = {})
    BY <1>1, <1>4 DEF Logout, Forget, Bye, TokenTypeOK
  <2>2. TokenInv'
    BY <1>1, <1>2, <2>1, ForgetKeeps
  <2>3. ByeIsForgotten'
    BY <2>1 DEF ByeIsForgotten
  <2>. QED
    BY <1>3, <2>2, <2>3 DEF WebInv
<1>5. CASE Load(w) \/ Loaded(w)
  <2>1. UNCHANGED <<bye, quiet>>
    BY <1>5 DEF Load, Loaded, tokenVars
  <2>2. ByeIsForgotten'
    BY <1>1, <1>2, <2>1 DEF ByeIsForgotten
  <2>3. TokenInv'
    BY <1>1, <1>2, <2>1, ForgetKeeps, TokensUntouched DEF tokenVars
  <2>. QED
    BY <1>3, <2>2, <2>3 DEF WebInv
<1>. QED
  BY <1>4, <1>5

LEMMA WebSteps == WebInv /\ [WebNext]_allWeb => WebInv'
<1> SUFFICES ASSUME WebInv, [WebNext]_allWeb PROVE WebInv'
  OBVIOUS
<1>1. CASE WebNext
  BY <1>1, WebBackend, WebCall, WebRefreshEnds, WebTab DEF WebNext
<1>2. CASE UNCHANGED allWeb
  <2>1. UNCHANGED <<tokenVars, stage, asking, ref, stored, bye>>
    BY <1>2 DEF allWeb, webVars, tokenVars
  <2>. QED
    BY <2>1, TokensUntouched DEF WebInv, WebTypeOK, RefreshIsAwaited, ByeIsForgotten, Waiting
<1>. QED
  BY <1>1, <1>2

(* The invariant of the web client, for any number of tabs and of calls in
   each, whatever requests fail and however late they are answered.        *)
THEOREM WebInvariant == WebSpec => []WebInv
BY WebStarts, WebSteps, PTL DEF WebSpec

(* What the tabs have stored is usable and stays forgotten after a logout. *)
THEOREM WebTokensAreKept == WebSpec => [](StoredIsUsable /\ LogoutIsFinal)
<1>1. WebInv => StoredIsUsable /\ LogoutIsFinal
  BY CoveredIsUsable DEF WebInv
<1>. QED
  BY <1>1, WebInvariant, PTL

(***************************************************************************)
(* The CLI.                                                                *)
(***************************************************************************)

LEMMA CliStarts == CliInit => CliInv
BY TokensStart DEF CliInit, CliInv, CliTypeOK

LEMMA CliTypes == CliInv /\ [CliNext]_allCli => CliTypeOK'
<1> SUFFICES ASSUME CliTypeOK, [CliNext]_allCli PROVE CliTypeOK'
  BY DEF CliInv
<1>1. ASSUME NEW p \in Client, NEW f \in [Slot -> {"idle", "sent", "queued", "refreshing", "again",
                                                  "dropped", "done", "thrown"}],
             reqs' = [reqs EXCEPT ![p] = f]
      PROVE  CliTypeOK'
  BY <1>1 DEF CliTypeOK
<1>2. ASSUME NEW p \in Client, NEW k \in Slot, CliAnswered(p, k) \/ CliUnauthorized(p, k)
      PROVE  CliTypeOK'
  BY <1>2 DEF CliAnswered, CliUnauthorized, Becomes, CliTypeOK
<1>3. ASSUME NEW p \in Client, CliRefreshEnds(p) PROVE CliTypeOK'
  <2>1. \A granted \in BOOLEAN :
          Fate(p, granted) \in [Slot -> {"idle", "sent", "queued", "refreshing", "again",
                                        "dropped", "done", "thrown"}]
    BY DEF CliTypeOK, Fate
  <2>. QED
    BY <1>1, <1>3, <2>1 DEF CliRefreshEnds
<1>4. ASSUME NEW p \in Client, Command(p) \/ Kill(p) PROVE CliTypeOK'
  BY <1>1, <1>4 DEF Command, Kill
<1>5. UNCHANGED reqs => CliTypeOK'
  BY DEF CliTypeOK
<1>. QED
  BY <1>2, <1>3, <1>4, <1>5 DEF CliNext, CliLogout, CliLogoutEnds, allCli

LEMMA CliTokens == CliInv /\ [CliNext]_allCli => TokenInv'
<1> SUFFICES ASSUME TokenInv, [CliNext]_allCli PROVE TokenInv'
  BY DEF CliInv
<1>0. TokenTypeOK
  BY DEF TokenInv
<1>1. ASSUME NEW p \in Client, ByeEnds(p, [at |-> "answered", tok |-> bye[p].tok]) PROVE TokenInv'
  <2>1. [at |-> "answered", tok |-> bye[p].tok] \in Bye
    BY <1>0 DEF TokenTypeOK, Bye
  <2>. QED
    BY <1>1, <2>1, ByeKeeps
<1>2. ASSUME NEW p \in Client, NEW k \in Slot, CliUnauthorized(p, k) PROVE TokenInv'
  BY <1>2, StartRefKeeps, TokensUntouched DEF CliUnauthorized, tokenVars
<1>3. ASSUME NEW p \in Client, CliRefreshEnds(p) PROVE TokenInv'
  BY <1>3, EndRefKeeps DEF CliRefreshEnds, Answers
<1>4. ASSUME NEW p \in Client, Kill(p) PROVE TokenInv'
  BY <1>4, EndRefKeeps DEF Kill
<1>5. ASSUME NEW p \in Client, CliLogout(p) PROVE TokenInv'
  <2>1. /\ TokenTypeOK /\ StoredIsCovered /\ NewIsSecret /\ LogoutIsFinal
        /\ UNCHANGED <<valid, stored, ref, lost, quiet>>
        /\ bye' = [bye EXCEPT ![p] = [at |-> "sent", tok |-> stored]] /\ bye[p].at = "none"
    BY <1>5 DEF TokenInv, CliLogout
  <2>2. /\ bye'[p] = [at |-> "sent", tok |-> stored] /\ (\A q \in Client \ {p} : bye'[q] = bye[q])
        /\ bye' \in [Client -> Bye]
    BY <2>1 DEF TokenTypeOK, Bye
  <2>3. TokenTypeOK' /\ StoredIsCovered'
    BY <2>1, <2>2 DEF TokenTypeOK, StoredIsCovered, Bye
  <2>4. NewIsSecret'
    BY <2>1, <2>2 DEF NewIsSecret
  <2>5. LogoutIsFinal'
    BY <2>1 DEF LogoutIsFinal, Refreshing
  <2>. QED
    BY <2>3, <2>4, <2>5 DEF TokenInv
<1>6. ASSUME NEW p \in Client, CliLogoutEnds(p) PROVE TokenInv'
  <2>1. NoBye \in Bye /\ NoBye.tok = NoToken
    BY DEF NoBye, Bye
  <2>. QED
    BY <1>6, <2>1, ForgetKeeps DEF CliLogoutEnds, Forget
<1>7. UNCHANGED tokenVars => TokenInv'
  BY TokensUntouched
<1>. QED
  BY <1>1, <1>2, <1>3, <1>4, <1>5, <1>6, <1>7, LoginKeeps, TokenStepKeeps
  DEF CliNext, Command, CliAnswered, allCli

(* The invariant of the CLI's credentials, for any number of processes that
   share the file, run commands, log out and are killed.                   *)
THEOREM CliInvariant == CliSpec => []CliInv
<1>1. CliInv /\ [CliNext]_allCli => CliInv'
  BY CliTypes, CliTokens DEF CliInv
<1>. QED
  BY <1>1, CliStarts, PTL DEF CliSpec

(* What the credentials file holds is usable and stays empty after a logout. *)
THEOREM CliTokensAreKept == CliSpec => [](StoredIsUsable /\ LogoutIsFinal)
<1>1. CliInv => StoredIsUsable /\ LogoutIsFinal
  BY CoveredIsUsable DEF CliInv
<1>. QED
  BY <1>1, CliInvariant, PTL

-----------------------------------------------------------------------------
(* TerminalPane.                                                           *)

Progress == {"idle", "waiting", "sent", "opened", "refused", "late", "over"}
TryType  == [at : Progress, dev : Dev \cup {NoDev}, click : BOOLEAN, live : BOOLEAN]

(* A request that is another step further, and nothing else.               *)
LEMMA RequestMoves ==
  ASSUME try \in [Try -> TryType], NEW t \in Try, NEW to \in Progress,
         try' = [try EXCEPT ![t].at = to]
  PROVE  /\ try' \in [Try -> TryType]
         /\ try'[t].at = to
         /\ \A u \in Try : /\ u # t => try'[u].at = try[u].at
                           /\ try'[u].dev = try[u].dev /\ try'[u].click = try[u].click
                           /\ try'[u].live = try[u].live
BY DEF TryType

LEMMA PaneStarts == PaneInit => PaneInv
BY NoTryFresh
   DEF PaneInit, PaneInv, PaneTypeOK, OnTheLink, HeldWereServed, RequestsAreKnown, PendingIsAlone,
       Pending, SessionsAreHeld

(* The cleanup of an effect takes back its requests, all but those the button
   has made, and closes the session that was shown.                        *)
LEMMA Cleanup ==
  ASSUME PaneInv, Teardown
  PROVE  /\ Disposed \in [Try -> TryType]
         /\ \A t \in Try : Disposed[t].at = try[t].at /\ Disposed[t].dev = try[t].dev
         /\ \A t \in Try : Disposed[t].live <=> try[t].live /\ try[t].click
         /\ closing' \subseteq Try
         /\ \A t \in held \ crossed : try[t].at = "opened" \/ t \in closing'
<1> USE DEF PaneInv
<1>1. \A t \in Try : /\ Disposed[t].at = try[t].at /\ Disposed[t].dev = try[t].dev
                     /\ Disposed[t].click = try[t].click
                     /\ Disposed[t].live = (try[t].live /\ try[t].click)
  BY DEF PaneTypeOK, Disposed
<1>2. ASSUME NEW t \in held, t = sessionId, try[t].dev = shown
      PROVE  t \in closing'
  <2>1. link = "up" /\ t \in Try
    BY DEF OnTheLink, PaneTypeOK
  <2>2. try[t].at \in {"opened", "over"}
    BY DEF HeldWereServed
  <2>3. try[t].dev \in Dev
    BY <2>1, <2>2 DEF RequestsAreKnown
  <2>. QED
    BY <1>2, <2>1, <2>3, NoDevFresh DEF Teardown
<1>3. closing' \subseteq Try /\ closing \subseteq closing'
  BY DEF Teardown, PaneTypeOK
<1>4. \A t \in held \ crossed : try[t].at = "opened" \/ t \in closing'
  BY <1>2, <1>3 DEF SessionsAreHeld
<1>5. Disposed \in [Try -> TryType]
  BY DEF PaneTypeOK, Disposed, TryType, Progress
<1>. QED
  BY <1>1, <1>3, <1>4, <1>5

(* Showing a device: the effect of another is cleaned up, t is asked.      *)
LEMMA ShowKeeps ==
  ASSUME PaneInv, NEW t \in Try, NEW d \in Dev, ShowDevice(d, t)
  PROVE  PaneInv'
<1> USE DEF PaneInv
<1>1. /\ Teardown /\ t \in Fresh /\ try' = [Disposed EXCEPT ![t] = Asked(d, FALSE)]
      /\ shown' = d /\ sessionId' = NoTry /\ pstatus' = "connecting"
      /\ link' = (IF link = "up" THEN "up" ELSE "down")
      /\ crossed' = crossed \cup Clicked \cup Crossing(Clicked, t)
      /\ held' = held /\ exiting' = exiting
  BY DEF ShowDevice
<1>2. /\ Disposed \in [Try -> TryType] /\ closing' \subseteq Try
      /\ \A u \in Try : Disposed[u].at = try[u].at /\ Disposed[u].dev = try[u].dev
      /\ \A u \in Try : Disposed[u].live <=> try[u].live /\ try[u].click
      /\ \A u \in held \ crossed : try[u].at = "opened" \/ u \in closing'
  BY <1>1, Cleanup
<1>3. /\ try' \in [Try -> TryType]
      /\ try'[t].dev = d /\ try'[t].live
      /\ try'[t].at = "waiting" \/ (try'[t].at = "sent" /\ link = "up")
      /\ \A u \in Try \ {t} : try'[u] = Disposed[u]
  BY <1>1, <1>2 DEF Asked, TryType, Progress
<1>4. /\ Clicked \subseteq Pending /\ Pending \subseteq Try
      /\ held \subseteq Try /\ exiting \subseteq Try
      /\ t \notin held /\ t \notin Pending /\ t \notin exiting /\ try[t].at = "idle"
  BY <1>1 DEF PaneTypeOK, Fresh, HeldWereServed, Clicked, Pending
<1>5. /\ crossed' \subseteq Try /\ crossed \subseteq crossed' /\ Clicked \subseteq crossed'
      /\ t \notin crossed' => Clicked = {}
  BY <1>1, <1>4 DEF PaneTypeOK, Crossing
<1>6. PaneTypeOK'
  BY <1>1, <1>2, <1>3, <1>5 DEF PaneTypeOK, TryType, Progress
<1>7. OnTheLink'
  BY <1>1, <1>2, <1>3, <1>4 DEF OnTheLink
<1>8. HeldWereServed'
  BY <1>1, <1>2, <1>3, <1>4 DEF HeldWereServed
<1>9. RequestsAreKnown'
  <2>1. \A u \in Try \ {t} : try'[u].at = try[u].at /\ try'[u].dev = try[u].dev
    BY <1>2, <1>3
  <2>2. try'[t].at # "late" /\ try'[t].dev \in Dev
    BY <1>3
  <2>. QED
    BY <1>5, <2>1, <2>2 DEF RequestsAreKnown
<1>10. PendingIsAlone'
  <2>1. \A u \in Try : u \in Pending' <=> u \in Clicked \cup {t}
    BY <1>2, <1>3, <1>4 DEF Pending, Clicked
  <2>2. Pending' = Clicked \cup {t}
    BY <2>1, <1>4 DEF Pending
  <2>. QED
    BY <1>1, <1>3, <1>5, <2>2 DEF PendingIsAlone
<1>11. SessionsAreHeld'
  BY <1>1, <1>2, <1>3, <1>4, <1>5 DEF SessionsAreHeld
<1>. QED
  BY <1>6, <1>7, <1>8, <1>9, <1>10, <1>11

LEMMA HideKeeps ==
  ASSUME PaneInv, Hide
  PROVE  PaneInv'
<1> USE DEF PaneInv
<1>1. /\ Teardown /\ try' = Disposed /\ shown' = NoDev /\ sessionId' = NoTry /\ pstatus' = "idle"
      /\ crossed' = crossed \cup Clicked /\ UNCHANGED <<link, held, exiting>>
  BY DEF Hide
<1>2. /\ Disposed \in [Try -> TryType] /\ closing' \subseteq Try
      /\ \A u \in Try : Disposed[u].at = try[u].at /\ Disposed[u].dev = try[u].dev
      /\ \A u \in Try : Disposed[u].live <=> try[u].live /\ try[u].click
      /\ \A u \in held \ crossed : try[u].at = "opened" \/ u \in closing'
  BY <1>1, Cleanup
<1>3. Clicked \subseteq Try /\ held \subseteq Try /\ exiting \subseteq Try
  BY DEF PaneTypeOK, Clicked, Pending
<1>4. PaneTypeOK'
  BY <1>1, <1>2, <1>3 DEF PaneTypeOK, TryType, Progress
<1>5. OnTheLink' /\ HeldWereServed' /\ RequestsAreKnown'
  BY <1>1, <1>2, <1>3 DEF OnTheLink, HeldWereServed, RequestsAreKnown
<1>6. PendingIsAlone'
  <2>1. Pending' \subseteq Clicked
    BY <1>1, <1>2 DEF Pending, Clicked
  <2>. QED
    BY <1>1, <2>1 DEF PendingIsAlone
<1>7. SessionsAreHeld'
  BY <1>1, <1>2, <1>3 DEF SessionsAreHeld
<1>. QED
  BY <1>4, <1>5, <1>6, <1>7

(* The request is served, or refused; one that timed out is over either way. *)
LEMMA ServeKeeps ==
  ASSUME PaneInv, NEW t \in Try, Serve(t)
  PROVE  PaneInv'
<1> USE DEF PaneInv
<1>1. PICK to \in {"opened", "refused", "over"} :
        /\ try' = [try EXCEPT ![t].at = to]
        /\ (to = "over" <=> try[t].at = "late")
        /\ (held' = held \cup {t} /\ to # "refused") \/ (held' = held /\ to # "opened")
  <2>1. /\ try[t].at \in {"sent", "late"}
        /\ \/ /\ held' = held \cup {t}
              /\ try' = [try EXCEPT ![t].at = IF try[t].at = "sent" THEN "opened" ELSE "over"]
           \/ /\ held' = held
              /\ try' = [try EXCEPT ![t].at = IF try[t].at = "sent" THEN "refused" ELSE "over"]
    BY DEF Serve
  <2>2. CASE try[t].at = "sent"
    BY <2>1, <2>2, Zenon
  <2>3. CASE try[t].at = "late"
    BY <2>1, <2>3
  <2>. QED
    BY <2>1, <2>2, <2>3
<1>2. /\ UNCHANGED <<link, shown, pstatus, sessionId, closing, exiting, crossed>>
      /\ try[t].at \in {"sent", "late"}
  BY DEF Serve
<1>3. /\ try' \in [Try -> TryType] /\ try'[t].at = to
      /\ \A u \in Try : /\ u # t => try'[u].at = try[u].at
                        /\ try'[u].dev = try[u].dev /\ try'[u].live = try[u].live
  BY <1>1, RequestMoves DEF PaneTypeOK, TryType, Progress
<1>4. PaneTypeOK'
  BY <1>1, <1>2, <1>3 DEF PaneTypeOK, TryType, Progress
<1>5. OnTheLink'
  BY <1>1, <1>2, <1>3 DEF OnTheLink
<1>6. HeldWereServed'
  BY <1>1, <1>2, <1>3 DEF HeldWereServed
<1>7. RequestsAreKnown'
  BY <1>1, <1>2, <1>3 DEF RequestsAreKnown
<1>8. PendingIsAlone'
  <2>1. \A u \in Try : u \in Pending' <=> u \in Pending
    BY <1>1, <1>2, <1>3 DEF Pending
  <2>2. Pending' = Pending
    BY <2>1 DEF Pending
  <2>. QED
    BY <1>2, <1>3, <2>2 DEF PendingIsAlone, Pending
<1>9. SessionsAreHeld'
  <2>1. ASSUME NEW u \in held' \ crossed', u # t
        PROVE  (u = sessionId' /\ try'[u].dev = shown') \/ try'[u].at = "opened" \/ u \in closing'
    BY <1>1, <1>2, <1>3, <2>1 DEF SessionsAreHeld
  <2>2. t \notin held /\ (to = "over" => t \in crossed)
    BY <1>1, <1>2 DEF HeldWereServed, RequestsAreKnown
  <2>3. t \in held' \ crossed' => try'[t].at = "opened"
    BY <1>1, <1>2, <1>3, <2>2
  <2>. QED
    BY <2>1, <2>3 DEF SessionsAreHeld
<1>. QED
  BY <1>4, <1>5, <1>6, <1>7, <1>8, <1>9

LEMMA PaneSteps == PaneInv /\ [PaneNext]_paneVars => PaneInv'
<1> SUFFICES ASSUME PaneInv, [PaneNext]_paneVars PROVE PaneInv'
  OBVIOUS
<1> USE NoTryFresh, NoDevFresh
    DEF PaneInv, PaneTypeOK, OnTheLink, HeldWereServed, RequestsAreKnown, PendingIsAlone,
        Pending, SessionsAreHeld, sideVars
<1>1. CASE LinkUp
  BY <1>1 DEF LinkUp
<1>2. CASE LinkFails
  BY <1>2 DEF LinkFails
<1>3. CASE LinkLost
  BY <1>3 DEF LinkLost
<1>4. ASSUME NEW t \in Try, Reconnect(t) PROVE PaneInv'
  BY <1>4 DEF Reconnect, Asked, Crossing, Fresh
<1>5. ASSUME NEW t \in Try, Acked(t) PROVE PaneInv'
  BY <1>5 DEF Acked, TryOver, Heard
<1>6. ASSUME NEW t \in Try, TryFails(t) PROVE PaneInv'
  BY <1>6 DEF TryFails, TryOver
<1>7. ASSUME NEW t \in Try, ExitArrives(t) PROVE PaneInv'
  BY <1>7 DEF ExitArrives
<1>8. ASSUME NEW t \in Try, SessionEnds(t) PROVE PaneInv'
  BY <1>8 DEF SessionEnds
<1>9. CASE UNCHANGED paneVars
  BY <1>9 DEF paneVars
<1>. QED
  BY <1>1, <1>2, <1>3, <1>4, <1>5, <1>6, <1>7, <1>8, <1>9, HideKeeps, ShowKeeps, ServeKeeps DEF PaneNext

(* The invariant of the browser's terminal pane, for any number of requests,
   devices and connections, whichever acknowledgements are late or lost.   *)
THEOREM PaneInvariant == PaneSpec => []PaneInv
BY PaneStarts, PaneSteps, PTL DEF PaneSpec

(* However connections come and go, devices change and requests fail, the
   component shows, takes up or closes every session whose request did not
   overlap another or time out: no shell is left hanging on the agent.     *)
THEOREM SessionsAreAlwaysHeld == PaneSpec => []SessionsAreHeld
<1>1. PaneInv => SessionsAreHeld
  BY DEF PaneInv
<1>. QED
  BY <1>1, PaneInvariant, PTL
=============================================================================

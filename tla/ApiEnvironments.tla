--------------------------- MODULE ApiEnvironments ---------------------------
(***************************************************************************)
(* The environments of the HTTP client on macOS: the dialog that edits a   *)
(* copy of them (src/qml/EnvironmentsDialog.qml) and                       *)
(* saveEnvironments (src/src/apiservice.cpp), which splits what it is      *)
(* given between Settings and the Keychain.                                *)
(***************************************************************************)
EXTENDS Integers, SequencesExt, Ordered

CONSTANTS
  VarNames, NoName,  \* names of variables, and the empty one
  PlainValues, SecretValues, NoValue,
  Closed,            \* no dialog
  MaxEnvs, MaxVars,  \* bounds on what the dialog holds
  MaxEdits,          \* bound on the edits before a save
  MaxOpens           \* bound on the times it is opened

ASSUME EnvironmentsAssumption ==
  /\ VarNames # {} /\ NoName \notin VarNames
  /\ NoValue \notin PlainValues \cup SecretValues /\ PlainValues \cap SecretValues = {}
  /\ "placeholder" \notin PlainValues \cup SecretValues \cup {NoValue}
  /\ {MaxEnvs, MaxVars, MaxEdits, MaxOpens} \subseteq Nat

VARIABLES
  envs,        \* m_envs: ids and variables
  activeEnv,   \* m_activeEnvId
  envStored,   \* the two in Settings
  keychain,    \* the Keychain's items, <<env id, name>> -> value
  dialog,      \* draftEnvs while the dialog is open, or Closed
  edits, opens, lastEnv, \* counters; the last is newId()'s
  refused      \* history: the Keychain refused to take a secret

environmentVars ==
  <<envs, activeEnv, envStored, keychain, dialog, edits, opens, lastEnv, refused>>

NewEnv == 0

Var(name, value, secret, saved) ==
  [name |-> name, value |-> value, secret |-> secret, saved |-> saved]
Row(name, value, secret) ==
  [name |-> name, value |-> value, secret |-> secret, typed |-> NoValue]
EnvIds(es) == {es[i].id : i \in DOMAIN es}
VarsOf(es) == UNION {ToSet(es[i].vars) : i \in DOMAIN es}
SavedKeys(es) ==
  UNION {{<<es[i].id, v.name>> : v \in {w \in ToSet(es[i].vars) : w.secret /\ w.saved}} :
         i \in DOMAIN es}

EnvironmentsTypeOK ==
  /\ VarsOf(envs) \subseteq
       [name : VarNames, value : PlainValues \cup {NoValue}, secret : BOOLEAN, saved : BOOLEAN]
  /\ DOMAIN keychain \subseteq (1..lastEnv) \X VarNames
  /\ refused \in BOOLEAN

(* The first start seeds two environments.                                 *)
EnvironmentsInit ==
  /\ \E v \in PlainValues :
       envs = <<[id |-> 1, vars |-> <<Var(CHOOSE n \in VarNames : TRUE, v, FALSE, FALSE)>>],
                [id |-> 2, vars |-> <<>>]>>
  /\ activeEnv = 1
  /\ envStored = [envs |-> envs, active |-> 1]
  /\ keychain = <<>>
  /\ dialog = Closed
  /\ edits = 0 /\ opens = 0 /\ lastEnv = 2
  /\ refused = FALSE

Service == <<envs, activeEnv, envStored, keychain, lastEnv, refused>>

-----------------------------------------------------------------------------
(* The dialog.                                                             *)

openDialog ==
  /\ dialog = Closed /\ opens < MaxOpens
  /\ opens' = opens + 1 /\ edits' = 0
  /\ dialog' = [i \in DOMAIN envs |->
       [id |-> envs[i].id,
        vars |-> [j \in DOMAIN envs[i].vars |->
          LET v == envs[i].vars[j] IN Row(v.name, v.value, v.secret)]]]
  /\ UNCHANGED Service

Reject == dialog # Closed /\ dialog' = Closed /\ UNCHANGED <<Service, edits, opens>>

Edited(d) ==
  /\ edits < MaxEdits /\ edits' = edits + 1
  /\ dialog' = d
  /\ UNCHANGED <<Service, opens>>
AddedEnv(vars) == Len(dialog) < MaxEnvs /\ Edited(Append(dialog, [id |-> NewEnv, vars |-> vars]))

addEnv == AddedEnv(<<>>)
duplicateEnv(i) ==
  AddedEnv([j \in DOMAIN dialog[i].vars |-> [dialog[i].vars[j] EXCEPT !.typed = NoValue]])
doDeleteEnv(i) == Edited(RemoveAt(dialog, i))
addVar(i) ==
  /\ Len(dialog[i].vars) < MaxVars
  /\ Edited([dialog EXCEPT ![i].vars = Append(@, Row(NoName, NoValue, FALSE))])
deleteVar(i, j) == Edited([dialog EXCEPT ![i].vars = RemoveAt(@, j)])
setVarName(i, j, name) == Edited([dialog EXCEPT ![i].vars[j].name = name])
setVarSecret(i, j) ==
  Edited([dialog EXCEPT ![i].vars[j].secret = ~@, ![i].vars[j].typed = NoValue])
setVarValue(i, j) ==
  IF dialog[i].vars[j].secret
    THEN \E v \in SecretValues : Edited([dialog EXCEPT ![i].vars[j].typed = v])
    ELSE \E v \in PlainValues : Edited([dialog EXCEPT ![i].vars[j].value = v])

EditDialog ==
  /\ dialog # Closed
  /\ \/ addEnv
     \/ \E i \in DOMAIN dialog :
          \/ duplicateEnv(i) \/ doDeleteEnv(i) \/ addVar(i)
          \/ \E j \in DOMAIN dialog[i].vars :
               \/ deleteVar(i, j) \/ setVarSecret(i, j) \/ setVarValue(i, j)
               \/ \E n \in VarNames : setVarName(i, j, n)

-----------------------------------------------------------------------------
(* Save: doSave hands over the rows, and apart from them the secrets that  *)
(* were typed, keyed by the dialog's own key of the environment: its id,   *)
(* or a temporary one; a later row of the same name wins.                  *)

Named(i) ==
  Picked(dialog[i].vars, {j \in DOMAIN dialog[i].vars : dialog[i].vars[j].name # NoName})
envKey(i) == IF dialog[i].id = NewEnv THEN -i ELSE dialog[i].id
TypedRows(i, name) ==
  {j \in DOMAIN dialog[i].vars :
     LET r == dialog[i].vars[j] IN r.name = name /\ r.secret /\ r.typed # NoValue}
Typed(i, name) == dialog[i].vars[CHOOSE j \in TypedRows(i, name) :
                                   \A k \in TypedRows(i, name) : k <= j].typed
doSaveSecrets ==
  LET keys == {k \in (DOMAIN dialog) \X VarNames : TypedRows(k[1], k[2]) # {}}
  IN  [key \in {<<envKey(k[1]), k[2]>> : k \in keys} |->
         LET k == CHOOSE k \in keys : <<envKey(k[1]), k[2]>> = key IN Typed(k[1], k[2])]

envId(i) ==
  IF dialog[i].id = NewEnv
    THEN lastEnv + Cardinality({k \in 1..i : dialog[k].id = NewEnv})
    ELSE dialog[i].id

(* The secret rows, and where the two loops hand one to the Keychain, with *)
(* those they have handed over before they come to a place.                *)
SecretPlaces ==
  {at \in UNION {{i} \X DOMAIN Named(i) : i \in DOMAIN dialog} : Named(at[1])[at[2]].secret}
KeyAt(at) == <<envId(at[1]), Named(at[1])[at[2]].name>>
NewSecrets == {KeyAt(at) : at \in SecretPlaces}
Handed == {at \in SecretPlaces : KeyAt(at) \in DOMAIN doSaveSecrets}
HandedBefore(at) == {w \in Handed : w[1] < at[1] \/ (w[1] = at[1] /\ w[2] < at[2])}
Written(places) ==
  LET keys == {KeyAt(at) : at \in places}
  IN  [key \in DOMAIN keychain \cup keys |->
         IF key \in keys THEN doSaveSecrets[key] ELSE keychain[key]]

StoredEnvs ==
  [i \in DOMAIN dialog |->
     [id |-> envId(i),
      vars |-> [j \in DOMAIN Named(i) |->
        LET r == Named(i)[j] IN
        Var(r.name, IF r.secret THEN NoValue ELSE r.value, r.secret,
            r.secret /\ <<envId(i), r.name>> \in DOMAIN doSaveSecrets \cup DOMAIN keychain)]]]

(* Bug: only the secrets of deleted environments are removed.              *)
DroppedWithEnv == {key \in SavedKeys(envs) : key[1] \notin {envId(i) : i \in DOMAIN dialog}}
Dropped == SavedKeys(envs) \ NewSecrets

persistEnvs(es, active) ==
  /\ envs' = es
  /\ activeEnv' = active
  /\ envStored' = [envs |-> es, active |-> active]
FirstUnless(es, id) == IF es = <<>> \/ id \in EnvIds(es) THEN id ELSE es[1].id

saveEnvironments ==
  /\ dialog # Closed
  /\ persistEnvs(StoredEnvs, FirstUnless(StoredEnvs, activeEnv))
  /\ keychain' = Restrict(Written(Handed), DOMAIN Written(Handed) \ Dropped)
  /\ lastEnv' = lastEnv + Cardinality({i \in DOMAIN dialog : dialog[i].id = NewEnv})
  /\ dialog' = Closed
  /\ UNCHANGED <<edits, opens, refused>>

(* The Keychain refuses one: what it has taken stays, nothing else happens *)
(* and the dialog stays open.                                              *)
saveRefused ==
  /\ dialog # Closed
  /\ \E at \in Handed : keychain' = Written(HandedBefore(at))
  /\ refused' = TRUE
  /\ UNCHANGED <<envs, activeEnv, envStored, dialog, edits, opens, lastEnv>>

-----------------------------------------------------------------------------
setActiveEnv(id) ==
  /\ dialog = Closed /\ id \in EnvIds(envs)
  /\ persistEnvs(envs, id)
  /\ UNCHANGED <<keychain, dialog, edits, opens, lastEnv, refused>>

(* A restart; load() takes a secret's presence from Settings and asks the  *)
(* Keychain nothing.                                                       *)
Reload ==
  /\ dialog' = Closed
  /\ envs' = envStored.envs
  /\ activeEnv' = FirstUnless(envStored.envs, envStored.active)
  /\ UNCHANGED <<envStored, keychain, edits, opens, lastEnv, refused>>

EnvironmentsNext ==
  \/ openDialog \/ Reject \/ EditDialog
  \/ saveEnvironments \/ saveRefused
  \/ \E id \in 1..lastEnv : setActiveEnv(id)
  \/ Reload

-----------------------------------------------------------------------------
(* resolveRequest: a placeholder takes the first variable of that name     *)
(* that has a value; otherwise it stays as it is.                          *)
ValueOf(id, v) ==
  IF ~v.secret THEN v.value
  ELSE IF v.saved /\ <<id, v.name>> \in DOMAIN keychain
    THEN keychain[<<id, v.name>>] ELSE NoValue
Resolved(env, name) ==
  LET able == {j \in DOMAIN env.vars :
        /\ env.vars[j].name = name
        /\ ~env.vars[j].secret \/ ValueOf(env.id, env.vars[j]) # NoValue}
  IN  IF able = {} THEN "placeholder"
      ELSE ValueOf(env.id, env.vars[CHOOSE j \in able : \A k \in able : j <= k])

(* The comment on storedVar: "secret values never reach Settings".  What   *)
(* was typed as a secret is in the Keychain or nowhere.                    *)
SecretsNeverReachSettings ==
  \A v \in VarsOf(envs) \cup VarsOf(envStored.envs) : v.value \in PlainValues \cup {NoValue}

(* Every secret the list shows as saved resolves, over renames, copies,    *)
(* deletions, refusals and restarts; and as long as the Keychain has taken *)
(* every secret, it holds no others.                                       *)
ShownSecretsResolve ==
  /\ \A i \in DOMAIN envs : \A v \in ToSet(envs[i].vars) :
       v.secret /\ v.saved => Resolved(envs[i], v.name) # "placeholder"
  /\ ~refused => DOMAIN keychain \subseteq SavedKeys(envs)

(* An environment is selected whenever there is one, and Settings and      *)
(* memory agree.                                                           *)
ActiveEnvExists ==
  /\ envs # <<>> => activeEnv \in EnvIds(envs)
  /\ envStored = [envs |-> envs, active |-> activeEnv]
  /\ IsInjective([i \in DOMAIN envs |-> envs[i].id])

(* The header of the dialog: "secrets typed into the form travel           *)
(* separately and land in Keychain".  When a save succeeds, every secret   *)
(* that was typed for an environment is the Keychain's item for it.        *)
TypedSecretsLand ==
  [][saveEnvironments =>
       \A i \in DOMAIN dialog : \A n \in VarNames : TypedRows(i, n) # {} =>
         <<envId(i), n>> \in DOMAIN keychain' /\ keychain'[<<envId(i), n>>] = Typed(i, n)
    ]_environmentVars

(* What Settings, Keychain and memory keep of the environments belongs     *)
(* together, whatever the dialog did before it was saved.                  *)
EnvironmentsKept ==
  /\ EnvironmentsTypeOK
  /\ SecretsNeverReachSettings
  /\ ShownSecretsResolve
  /\ ActiveEnvExists
EnvironmentsSpec == EnvironmentsInit /\ [][EnvironmentsNext]_environmentVars
=============================================================================

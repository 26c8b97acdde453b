------------------------- MODULE DatabaseConnections -------------------------
(***************************************************************************)
(* The saved connection of a database service: its settings group and its  *)
(* Keychain items (src/src/databaseservice_macos.cpp), written and read by *)
(* the threads that saveConnection(), forgetConnection() and the calls     *)
(* that connect make (src/src/databaseservice.cpp), without any lock.  One *)
(* service is modelled: services share neither a group nor, as long as     *)
(* their versions differ, a Keychain item.                                 *)
(***************************************************************************)
EXTENDS Naturals, FiniteSets

CONSTANTS
  Hosts,      \* hosts the dialog may be given
  Users,      \* names the dialog may be given
  OsUser,     \* defaultAccount()
  Unnamed,    \* the empty user
  Unset,      \* the value of a key that the settings do not have
  MaxSecret,  \* secrets are 1..MaxSecret; 0 is none
  MaxLabel,   \* the versions that detection may report for the service
  MaxCalls    \* bound on the threads that run at once

ASSUME ConnectionsAssumption ==
  /\ OsUser \notin Users /\ Unnamed \notin Users \cup {OsUser}
  /\ Unset \notin Hosts \cup Users \cup {Unnamed}
  /\ MaxSecret \in Nat /\ MaxLabel \in Nat /\ MaxCalls \in Nat

VARIABLES
  label,    \* the version in m_services, which names the Keychain item
  config,   \* the settings group, key by key
  keychain, \* the Keychain items of all labels, by account
  threads,  \* what runs in each slot
  offered,  \* the dialog offers to forget: hasSavedPassword of the detail shown
  wanted,   \* history: the group, had every call done its work when it was made,
            \* starting over from what calls that overlapped have left
  kept,     \* history: the items, likewise
  quiet,    \* history: the slots whose call saw no other call write
  raced     \* history: the calls that write have overlapped

connectionVars == <<label, config, keychain, threads, offered, wanted, kept, quiet, raced>>

Named == Users \cup {Unnamed}
Slots == 1..MaxCalls
Configs == [host : Hosts \cup {Unset}, user : Named \cup {Unset}]
NoConfig == [host |-> Unset, user |-> Unset]
Secrets == 0..MaxSecret
Items == (0..MaxLabel) \X (Users \cup {OsUser})
NoItems == [i \in Items |-> 0]
Call == [kind : {"none", "save", "forget", "connect"}, step : {"host", "user", "secret", "done"}, label : 0..MaxLabel,
         host : Hosts \cup {Unset}, user : Named \cup {Unset}, secret : Secrets]
NoCall == [kind |-> "none", step |-> "done", label |-> 0, host |-> Unset, user |-> Unset,
           secret |-> 0]

ConnectionsTypeOK ==
  /\ label \in 0..MaxLabel
  /\ config \in Configs /\ keychain \in [Items -> Secrets]
  /\ threads \in [Slots -> Call] /\ offered \in BOOLEAN
  /\ wanted \in Configs /\ kept \in [Items -> Secrets]
  /\ quiet \subseteq Slots /\ raced \in BOOLEAN

ConnectionsInit ==
  /\ label = 0
  /\ config = NoConfig /\ keychain = NoItems
  /\ threads = [c \in Slots |-> NoCall] /\ offered = FALSE
  /\ wanted = NoConfig /\ kept = keychain /\ quiet = {} /\ raced = FALSE

-----------------------------------------------------------------------------
Writes(call) == call.kind \in {"save", "forget"} /\ call.step # "done"
Writing == \E c \in Slots : Writes(threads[c])
Account(user) == IF user \in {Unnamed, Unset} THEN OsUser ELSE user

(* Every call takes the service of now, with its version, to its thread.   *)
Begin(c, call) ==
  /\ threads[c].kind = "none" /\ \A d \in 1..(c - 1) : threads[d].kind # "none"
  /\ threads' = [threads EXCEPT ![c] = [call EXCEPT !.label = label]]
  /\ raced' = (raced \/ (Writes(call) /\ Writing))
  /\ quiet' = IF Writes(call) THEN {} ELSE IF Writing THEN quiet ELSE quiet \cup {c}
  /\ UNCHANGED <<label, config, keychain, offered>>

Expect(group, items) ==
  IF raced' THEN wanted' = NoConfig /\ kept' = NoItems ELSE wanted' = group /\ kept' = items

(* The dialog's Save: an empty password field gives a null password.       *)
saveConnection(c, host, user, pass) ==
  /\ Begin(c, [NoCall EXCEPT !.kind = "save", !.step = "host", !.host = host, !.user = user,
                             !.secret = pass])
  /\ Expect([host |-> host, user |-> user],
            IF pass = 0 THEN kept ELSE [kept EXCEPT ![<<label, Account(user)>>] = pass])

(* "Forget saved", which the dialog shows for a connection with a password. *)
forgetConnection(c) ==
  /\ offered
  /\ Begin(c, [NoCall EXCEPT !.kind = "forget", !.step = "host"])
  /\ Expect(NoConfig, [kept EXCEPT ![<<label, Account(wanted.user)>>] = 0])

(* What connects: a test, a query, the details, the counts of a detection. *)
Connect(c) ==
  /\ Begin(c, [NoCall EXCEPT !.kind = "connect", !.step = "host"])
  /\ UNCHANGED <<wanted, kept>>

-----------------------------------------------------------------------------
Goes(c, call) == threads' = [threads EXCEPT ![c] = call]
After(step) == CASE step = "host" -> "user" [] step = "user" -> "secret" [] OTHER -> "done"
Written(call) == IF call.step = "secret" THEN NoCall ELSE [call EXCEPT !.step = After(@)]

(* saveConnectionConfig(): key by key, then the secret unless it is null.  *)
saveConnectionConfig(c) ==
  LET call == threads[c] item == <<call.label, Account(call.user)>> IN
  /\ call.kind = "save" /\ call.step # "done"
  /\ Goes(c, Written(call))
  /\ config' = CASE call.step = "host" -> [config EXCEPT !.host = call.host]
                 [] call.step = "user" -> [config EXCEPT !.user = call.user]
                 [] OTHER -> config
  /\ keychain' = IF call.step = "secret" /\ call.secret # 0
                 THEN [keychain EXCEPT ![item] = call.secret] ELSE keychain

(* Bug: the account is looked up in the settings already removed.          *)
ForgetBlindly(c) ==
  LET call == threads[c] IN
  /\ call.kind = "forget" /\ call.step # "done"
  /\ Goes(c, Written(call))
  /\ config' = IF call.step = "user" THEN NoConfig ELSE config
  /\ keychain' = IF call.step = "secret"
                 THEN [keychain EXCEPT ![<<call.label, Account(config.user)>>] = 0] ELSE keychain

(* forgetConnectionConfig(): reads the account, removes the group, deletes *)
(* the item of that account.                                               *)
forgetConnectionConfig(c) ==
  LET call == threads[c] IN
  /\ call.kind = "forget" /\ call.step # "done"
  /\ Goes(c, Written(IF call.step = "host" THEN [call EXCEPT !.user = config.user] ELSE call))
  /\ config' = IF call.step = "user" THEN NoConfig ELSE config
  /\ keychain' = IF call.step = "secret"
                 THEN [keychain EXCEPT ![<<call.label, Account(call.user)>>] = 0] ELSE keychain

(* resolveConnection(): the host, the user, and the user's secret if one   *)
(* was configured.                                                         *)
resolveConnection(c) ==
  LET call == threads[c] IN
  /\ call.kind = "connect" /\ call.step # "done"
  /\ Goes(c, [call EXCEPT
       !.step = After(@),
       !.host = IF call.step = "host" THEN config.host ELSE @,
       !.user = IF call.step = "user" THEN config.user ELSE @,
       !.secret = IF call.step = "secret" /\ call.user \in Users
                  THEN keychain[<<call.label, call.user>>] ELSE @])
  /\ UNCHANGED <<config, keychain>>

ConnectionThread(c) ==
  /\ saveConnectionConfig(c) \/ forgetConnectionConfig(c) \/ resolveConnection(c)
  /\ IF raced /\ ~Writing'
     THEN wanted' = config' /\ kept' = keychain' /\ raced' = FALSE
     ELSE UNCHANGED <<wanted, kept, raced>>
  /\ UNCHANGED <<label, offered, quiet>>

(* The queued signal of a call that connected; fetchDetail() also brings   *)
(* connectionConfig(), read like the connection itself.                    *)
Signal(c) ==
  /\ threads[c].kind = "connect" /\ threads[c].step = "done"
  /\ threads' = [threads EXCEPT ![c] = NoCall]
  /\ quiet' = quiet \ {c}
  /\ offered' = (threads[c].user \in Users /\ threads[c].secret # 0)
  /\ UNCHANGED <<label, config, keychain, wanted, kept, raced>>

(* An upgrade, or a brew list --versions that times out, so that the next  *)
(* scan takes the version from the name of the formula.                    *)
Relabel ==
  /\ label' \in (0..MaxLabel) \ {label}
  /\ quiet' = {}
  /\ UNCHANGED <<config, keychain, threads, offered, wanted, kept, raced>>

ConnectionsNext ==
  \/ \E c \in Slots :
       \/ \E host \in Hosts, user \in Named, pass \in Secrets : saveConnection(c, host, user, pass)
       \/ forgetConnection(c) \/ Connect(c)
       \/ ConnectionThread(c) \/ Signal(c)
  \/ Relabel

ConnectionsSpec == ConnectionsInit /\ [][ConnectionsNext]_connectionVars

-----------------------------------------------------------------------------
(* As long as saves and forgets do not overlap, they leave what they would *)
(* leave if each were done at the press of its button.                     *)
LastCallDecides == ~raced /\ ~Writing => config = wanted /\ keychain = kept

(* A test that passes says something about the calls to come: whatever     *)
(* connects while nothing is saved or forgotten is given the same host,    *)
(* user and secret, which are a saved configuration and its own secret.    *)
QuietConnectionsAgree ==
  \A c \in quiet : threads[c].step = "done" /\ ~raced =>
    /\ [host |-> threads[c].host, user |-> threads[c].user] = wanted
    /\ threads[c].secret = IF wanted.user \in Users THEN kept[<<threads[c].label, wanted.user>>] ELSE 0

(* What is saved, in the settings and the Keychain, is one configuration,  *)
(* and what connects uses that one.                                        *)
ConnectionsSound ==
  /\ ConnectionsTypeOK
  /\ LastCallDecides
  /\ QuietConnectionsAgree
=============================================================================

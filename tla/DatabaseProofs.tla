--------------------------- MODULE DatabaseProofs ----------------------------
(***************************************************************************)
(* Proofs about the Databases page.  Saves and forgets of a connection     *)
(* that do not overlap leave one configuration, and what connects          *)
(* meanwhile uses it, for any hosts, users, secrets, versions and number   *)
(* of threads; and the list of the services is right and goes forward, for *)
(* any installs and whatever starts and stops.                             *)
(***************************************************************************)
EXTENDS DatabaseConnections, DatabaseService, FiniteSetTheorems, TLAPS

(* How far a save or forget has come: what is left of it leads from what   *)
(* is stored to what is wanted.                                            *)
SaveLeads(call) ==
  /\ wanted = [host |-> call.host, user |-> call.user]
  /\ kept = IF call.secret = 0 THEN keychain
            ELSE [keychain EXCEPT ![<<call.label, Account(call.user)>>] = call.secret]
  /\ call.step \in {"user", "secret"} => config.host = call.host
  /\ call.step = "secret" => config.user = call.user

ForgetLeads(call) ==
  /\ wanted = NoConfig
  /\ call.step = "host" => kept = [keychain EXCEPT ![<<call.label, Account(config.user)>>] = 0]
  /\ call.step # "host" => kept = [keychain EXCEPT ![<<call.label, Account(call.user)>>] = 0]
  /\ call.step = "secret" => config = NoConfig

WritesLead ==
  ~raced =>
    /\ \A c, d \in Slots : Writes(threads[c]) /\ Writes(threads[d]) => c = d
    /\ \A c \in Slots : Writes(threads[c]) /\ threads[c].kind = "save" => SaveLeads(threads[c])
    /\ \A c \in Slots : Writes(threads[c]) /\ threads[c].kind = "forget" => ForgetLeads(threads[c])
    /\ ~Writing => config = wanted /\ keychain = kept

(* Overlaps are forgiven only when the last of them has ended, and what is *)
(* quiet has nobody writing beside it.                                     *)
RacesEnd == (raced => Writing) /\ (quiet # {} => ~Writing)

(* What a quiet connection has read so far.                                *)
QuietReads ==
  \A c \in quiet :
    /\ threads[c].kind = "connect"
    /\ threads[c].step # "host" => threads[c].host = wanted.host
    /\ threads[c].step \in {"secret", "done"} => threads[c].user = wanted.user
    /\ threads[c].step # "done" => threads[c].secret = 0
    /\ threads[c].step = "done" =>
         threads[c].secret = IF wanted.user \in Users THEN kept[<<threads[c].label, wanted.user>>] ELSE 0

ConnectionsIInv ==
  /\ ConnectionsTypeOK
  /\ WritesLead
  /\ RacesEnd
  /\ QuietReads

-----------------------------------------------------------------------------
LEMMA AccountType == \A u \in Named \cup {Unset} : Account(u) \in Users \cup {OsUser}
BY DEF Account, Named

LEMMA NoCallType == NoCall \in Call /\ ~Writes(NoCall) /\ NoCall.kind = "none"
BY ConnectionsAssumption DEF NoCall, Call, Writes, Named, Secrets

LEMMA InitConnectionsIInv == ConnectionsInit => ConnectionsIInv
<1> SUFFICES ASSUME ConnectionsInit PROVE ConnectionsIInv
  OBVIOUS
<1>1. ConnectionsTypeOK
  <2>1. NoConfig \in Configs /\ 0 \in Secrets /\ 0 \in 0..MaxLabel
    BY ConnectionsAssumption DEF NoConfig, Configs, Secrets
  <2>2. NoItems \in [Items -> Secrets]
    BY <2>1 DEF NoItems
  <2>3. QED
    BY <2>1, <2>2, NoCallType DEF ConnectionsInit, ConnectionsTypeOK
<1>2. \A c \in Slots : ~Writes(threads[c])
  BY NoCallType DEF ConnectionsInit
<1>3. WritesLead /\ RacesEnd /\ QuietReads
  BY <1>2 DEF ConnectionsInit, WritesLead, RacesEnd, QuietReads
<1>4. QED
  BY <1>1, <1>3 DEF ConnectionsIInv

(* What the start of a call does to the threads.                           *)
LEMMA BeginFacts ==
  ASSUME ConnectionsTypeOK, NEW c \in Slots, NEW call \in Call, Begin(c, call)
  PROVE  /\ threads' \in [Slots -> Call] /\ ~Writes(threads[c])
         /\ threads'[c] = [call EXCEPT !.label = label]
         /\ \A d \in Slots \ {c} : threads'[d] = threads[d]
         /\ UNCHANGED <<label, config, keychain, offered>>
<1>1. threads[c].kind = "none" /\ threads' = [threads EXCEPT ![c] = [call EXCEPT !.label = label]]
      /\ UNCHANGED <<label, config, keychain, offered>>
  BY DEF Begin
<1>2. [call EXCEPT !.label = label] \in Call
  BY DEF ConnectionsTypeOK, Call
<1>3. QED
  BY <1>1, <1>2 DEF ConnectionsTypeOK, Writes

(* A save or a forget begins, alone or beside another write.               *)
LEMMA WriteBegins ==
  ASSUME ConnectionsIInv, NEW c \in Slots, NEW call \in Call, Begin(c, call),
         Writes(call), call.step = "host",
         wanted' \in Configs, kept' \in [Items -> Secrets]
  PROVE  /\ ConnectionsTypeOK' /\ RacesEnd' /\ QuietReads'
         /\ threads'[c].kind = call.kind /\ Writing'
         /\ ~raced' => \A d \in Slots : Writes(threads'[d]) => d = c
<1>1. ConnectionsTypeOK
  BY DEF ConnectionsIInv
<1>2. threads' \in [Slots -> Call] /\ threads'[c] = [call EXCEPT !.label = label]
  BY <1>1, BeginFacts
<1>3. \A d \in Slots \ {c} : threads'[d] = threads[d]
  BY <1>1, BeginFacts
<1>4. UNCHANGED <<label, config, keychain, offered>> /\ quiet' = {}
      /\ raced' = (raced \/ Writing)
  BY DEF Begin
<1>5. Writes(threads'[c]) /\ threads'[c].kind = call.kind
  BY <1>2 DEF Writes, Call
<1>6. ConnectionsTypeOK'
  BY <1>1, <1>2, <1>4 DEF ConnectionsTypeOK
<1>7. RacesEnd'
  BY <1>4, <1>5 DEF RacesEnd, Writing, Writes
<1>8. QuietReads'
  BY <1>4 DEF QuietReads
<1>9. ASSUME ~raced' PROVE \A d \in Slots : Writes(threads'[d]) => d = c
  BY <1>3, <1>4, <1>9 DEF Writing
<1>10. Writing'
  BY <1>5 DEF Writing, Writes
<1>11. QED
  BY <1>5, <1>6, <1>7, <1>8, <1>9, <1>10

LEMMA NothingType == NoConfig \in Configs /\ NoItems \in [Items -> Secrets]
<1>1. NoConfig \in Configs /\ 0 \in Secrets
  BY ConnectionsAssumption DEF NoConfig, Configs, Secrets
<1>2. QED
  BY <1>1 DEF NoItems

LEMMA SaveBegins ==
  ASSUME ConnectionsIInv, NEW c \in Slots, NEW host \in Hosts, NEW user \in Named,
         NEW pass \in Secrets, saveConnection(c, host, user, pass)
  PROVE  ConnectionsIInv'
<1> DEFINE item == <<label, Account(user)>>
<1>1. ConnectionsTypeOK /\ WritesLead
  BY DEF ConnectionsIInv
<1>a. [NoCall EXCEPT !.kind = "save", !.step = "host", !.host = host, !.user = user,
                     !.secret = pass] \in Call
  BY NoCallType DEF Call
<1>b. PICK call \in Call : call = [NoCall EXCEPT !.kind = "save", !.step = "host", !.host = host,
                                               !.user = user, !.secret = pass]
  BY <1>a
<1>2. call \in Call /\ call.kind = "save" /\ call.step = "host" /\ call.host = host
      /\ call.user = user /\ call.secret = pass
  BY <1>b, NoCallType DEF Call
<1>3. Begin(c, call) /\ Writes(call)
  BY <1>2, <1>b DEF saveConnection, Writes
<1>4. Expect([host |-> host, user |-> user],
             IF pass = 0 THEN kept ELSE [kept EXCEPT ![item] = pass])
  BY DEF saveConnection
<1>5. threads'[c] = [call EXCEPT !.label = label] /\ UNCHANGED <<label, config, keychain, offered>>
  BY <1>1, <1>2, <1>3, BeginFacts
<1>6. item \in Items
  BY <1>1, AccountType DEF ConnectionsTypeOK, Items
<1>7. wanted' \in Configs /\ kept' \in [Items -> Secrets]
  BY <1>1, <1>4, <1>6, NothingType DEF Expect, ConnectionsTypeOK, Configs
<1>8. ASSUME ~raced' PROVE SaveLeads(threads[c])'
  <2>1. ~raced /\ ~Writing
    BY <1>3, <1>8 DEF Begin
  <2>2. keychain = kept
    BY <1>1, <2>1 DEF WritesLead
  <2>3. wanted' = [host |-> host, user |-> user]
        /\ kept' = IF pass = 0 THEN keychain ELSE [keychain EXCEPT ![item] = pass]
    BY <1>4, <1>8, <2>2 DEF Expect
  <2>4. threads'[c].host = host /\ threads'[c].user = user /\ threads'[c].secret = pass
        /\ threads'[c].label = label /\ threads'[c].step = "host"
    BY <1>2, <1>5 DEF Call
  <2>5. QED
    BY <1>5, <2>3, <2>4 DEF SaveLeads, Account
<1>9. /\ ConnectionsTypeOK' /\ RacesEnd' /\ QuietReads'
      /\ threads'[c].kind = call.kind /\ Writing'
      /\ ~raced' => \A d \in Slots : Writes(threads'[d]) => d = c
  BY <1>2, <1>3, <1>7, WriteBegins
<1>10. WritesLead'
  BY <1>2, <1>8, <1>9 DEF WritesLead, Writes
<1>11. QED
  BY <1>9, <1>10 DEF ConnectionsIInv

LEMMA ForgetBegins ==
  ASSUME ConnectionsIInv, NEW c \in Slots, forgetConnection(c)
  PROVE  ConnectionsIInv'
<1> DEFINE call == [NoCall EXCEPT !.kind = "forget", !.step = "host"]
           item == <<label, Account(wanted.user)>>
<1>1. ConnectionsTypeOK /\ WritesLead
  BY DEF ConnectionsIInv
<1>2. call \in Call /\ call.kind = "forget" /\ call.step = "host"
  BY NoCallType DEF Call
<1>3. Begin(c, call) /\ Writes(call)
  BY <1>2 DEF forgetConnection, Writes
<1>4. Expect(NoConfig, [kept EXCEPT ![item] = 0])
  BY DEF forgetConnection
<1> HIDE DEF call
<1>5. threads'[c] = [call EXCEPT !.label = label] /\ UNCHANGED <<label, config, keychain, offered>>
  BY <1>1, <1>2, <1>3, BeginFacts
<1>6. item \in Items /\ 0 \in Secrets
  BY <1>1, AccountType, ConnectionsAssumption DEF ConnectionsTypeOK, Items, Configs, Secrets
<1>7. wanted' \in Configs /\ kept' \in [Items -> Secrets]
  BY <1>1, <1>4, <1>6, NothingType DEF Expect, ConnectionsTypeOK
<1>8. ASSUME ~raced' PROVE ForgetLeads(threads[c])'
  <2>1. ~raced /\ ~Writing
    BY <1>3, <1>8 DEF Begin
  <2>2. keychain = kept /\ config = wanted
    BY <1>1, <2>1 DEF WritesLead
  <2>3. wanted' = NoConfig /\ kept' = [keychain EXCEPT ![<<label, Account(config.user)>>] = 0]
    BY <1>4, <1>8, <2>2 DEF Expect
  <2>4. threads'[c].label = label /\ threads'[c].step = "host"
    BY <1>2, <1>5 DEF Call
  <2>5. QED
    BY <1>5, <2>3, <2>4 DEF ForgetLeads, Account, NoConfig
<1>9. /\ ConnectionsTypeOK' /\ RacesEnd' /\ QuietReads'
      /\ threads'[c].kind = call.kind /\ Writing'
      /\ ~raced' => \A d \in Slots : Writes(threads'[d]) => d = c
  BY <1>2, <1>3, <1>7, WriteBegins
<1>10. WritesLead'
  BY <1>2, <1>8, <1>9 DEF WritesLead, Writes
<1>11. QED
  BY <1>9, <1>10 DEF ConnectionsIInv

(* A step that leaves what is stored, what is wanted and every write as    *)
(* they are keeps what is said of writes.                                  *)
LEMMA WritesUntouched ==
  ASSUME ConnectionsIInv, NEW c \in Slots, ~Writes(threads[c]), ~Writes(threads'[c]),
         \A d \in Slots \ {c} : threads'[d] = threads[d],
         UNCHANGED <<config, keychain, wanted, kept, raced>>
  PROVE  /\ WritesLead' /\ (Writing' <=> Writing) /\ (raced' => Writing')
<1>1. \A d \in Slots : Writes(threads'[d]) => Writes(threads[d]) /\ threads'[d] = threads[d]
  OBVIOUS
<1>2. \A d \in Slots : Writes(threads[d]) => Writes(threads'[d])
  OBVIOUS
<1>3. Writing' <=> Writing
  BY <1>1, <1>2 DEF Writing, Writes
<1>4. WritesLead'
  <2> SUFFICES ASSUME ~raced PROVE
        /\ \A d, e \in Slots : Writes(threads'[d]) /\ Writes(threads'[e]) => d = e
        /\ \A d \in Slots : Writes(threads'[d]) /\ threads'[d].kind = "save" => SaveLeads(threads[d])'
        /\ \A d \in Slots : Writes(threads'[d]) /\ threads'[d].kind = "forget" => ForgetLeads(threads[d])'
        /\ ~Writing' => config' = wanted' /\ keychain' = kept'
    BY DEF WritesLead, Writes
  <2>1. WritesLead
    BY DEF ConnectionsIInv
  <2>2. ASSUME NEW d \in Slots, Writes(threads'[d]), threads'[d].kind = "save"
        PROVE SaveLeads(threads[d])'
    <3>1. threads'[d] = threads[d] /\ SaveLeads(threads[d])
      BY <1>1, <2>1, <2>2 DEF WritesLead
    <3>2. QED
      BY <3>1 DEF SaveLeads, Account
  <2>3. ASSUME NEW d \in Slots, Writes(threads'[d]), threads'[d].kind = "forget"
        PROVE ForgetLeads(threads[d])'
    <3>1. threads'[d] = threads[d] /\ ForgetLeads(threads[d])
      BY <1>1, <2>1, <2>3 DEF WritesLead
    <3>2. QED
      BY <3>1 DEF ForgetLeads, Account, NoConfig
  <2>4. \A d, e \in Slots : Writes(threads'[d]) /\ Writes(threads'[e]) => d = e
    BY <1>1, <2>1 DEF WritesLead
  <2>5. ~Writing' => config' = wanted' /\ keychain' = kept'
    BY <1>3, <2>1 DEF WritesLead
  <2>6. QED
    BY <2>2, <2>3, <2>4, <2>5
<1>5. QED
  BY <1>3, <1>4 DEF ConnectionsIInv, RacesEnd

LEMMA ConnectBegins ==
  ASSUME ConnectionsIInv, NEW c \in Slots, Connect(c)
  PROVE  ConnectionsIInv'
<1>a. [NoCall EXCEPT !.kind = "connect", !.step = "host"] \in Call
  BY NoCallType DEF Call
<1>b. PICK call \in Call : call = [NoCall EXCEPT !.kind = "connect", !.step = "host"]
  BY <1>a
<1>1. ConnectionsTypeOK /\ RacesEnd /\ QuietReads
  BY DEF ConnectionsIInv
<1>2. call.kind = "connect" /\ call.step = "host" /\ call.secret = 0
  BY <1>b, NoCallType DEF Call, NoCall
<1>3. Begin(c, call) /\ ~Writes(call) /\ UNCHANGED <<wanted, kept>>
  BY <1>b, <1>2 DEF Connect, Writes
<1>4. /\ threads' \in [Slots -> Call] /\ ~Writes(threads[c])
      /\ threads'[c] = [call EXCEPT !.label = label]
      /\ \A d \in Slots \ {c} : threads'[d] = threads[d]
      /\ UNCHANGED <<label, config, keychain, offered>>
  BY <1>1, <1>3, BeginFacts
<1>5. threads'[c].kind = "connect" /\ threads'[c].step = "host" /\ threads'[c].secret = 0
  BY <1>2, <1>4 DEF Call
<1>6. raced' = raced /\ quiet' = IF Writing THEN quiet ELSE quiet \cup {c}
  BY <1>1, <1>3 DEF Begin, ConnectionsTypeOK
<1>7. WritesLead' /\ (Writing' <=> Writing) /\ (raced' => Writing')
  BY <1>3, <1>4, <1>5, <1>6, WritesUntouched DEF Writes
<1>8. ConnectionsTypeOK'
  BY <1>1, <1>3, <1>4, <1>6 DEF ConnectionsTypeOK
<1>9. RacesEnd'
  BY <1>1, <1>6, <1>7 DEF RacesEnd
<1>10. QuietReads'
  <2>1. ASSUME NEW d \in quiet', d # c
        PROVE  d \in quiet /\ threads'[d] = threads[d] /\ d \in Slots
    BY <1>1, <1>4, <1>6, <2>1 DEF ConnectionsTypeOK
  <2>2. QED
    BY <1>1, <1>3, <1>5, <2>1 DEF QuietReads
<1>11. QED
  BY <1>7, <1>8, <1>9, <1>10 DEF ConnectionsIInv

(* The answer of a connection, and a changed version, leave what is stored *)
(* and what is wanted as they are.                                         *)
LEMMA SignalKeeps ==
  ASSUME ConnectionsIInv, NEW c \in Slots, Signal(c)
  PROVE  ConnectionsIInv'
<1>1. ConnectionsTypeOK /\ RacesEnd /\ QuietReads
  BY DEF ConnectionsIInv
<1>2. threads[c].kind = "connect" /\ threads' = [threads EXCEPT ![c] = NoCall]
      /\ quiet' = quiet \ {c} /\ UNCHANGED <<label, config, keychain, wanted, kept, raced>>
      /\ offered' \in BOOLEAN
  BY DEF Signal
<1>3. threads' \in [Slots -> Call] /\ threads'[c] = NoCall
      /\ \A d \in Slots \ {c} : threads'[d] = threads[d]
  BY <1>1, <1>2, NoCallType DEF ConnectionsTypeOK
<1>4. ~Writes(threads[c]) /\ ~Writes(threads'[c])
  BY <1>2, <1>3, NoCallType DEF Writes
<1>5. WritesLead' /\ (Writing' <=> Writing) /\ (raced' => Writing')
  BY <1>2, <1>3, <1>4, WritesUntouched
<1>6. ConnectionsTypeOK'
  BY <1>1, <1>2, <1>3 DEF ConnectionsTypeOK
<1>7. RacesEnd'
  BY <1>1, <1>2, <1>5 DEF RacesEnd
<1>8. QuietReads'
  <2>1. \A d \in quiet' : d \in quiet /\ threads'[d] = threads[d]
    BY <1>1, <1>2, <1>3 DEF ConnectionsTypeOK
  <2>2. QED
    BY <1>1, <1>2, <2>1 DEF QuietReads
<1>9. QED
  BY <1>5, <1>6, <1>7, <1>8 DEF ConnectionsIInv

LEMMA RelabelKeeps == ConnectionsIInv /\ Relabel => ConnectionsIInv'
<1> SUFFICES ASSUME ConnectionsIInv, Relabel PROVE ConnectionsIInv'
  OBVIOUS
<1>1. ConnectionsTypeOK'
  BY DEF ConnectionsIInv, ConnectionsTypeOK, Relabel
<1>2. WritesLead'
  BY DEF ConnectionsIInv, WritesLead, Relabel, Writing, SaveLeads, ForgetLeads
<1>3. RacesEnd' /\ QuietReads'
  BY DEF ConnectionsIInv, RacesEnd, QuietReads, Relabel, Writing
<1>4. QED
  BY <1>1, <1>2, <1>3 DEF ConnectionsIInv

(* A connection reads on.                                                  *)
LEMMA ReadGoes ==
  ASSUME ConnectionsIInv, NEW c \in Slots, resolveConnection(c), ConnectionThread(c)
  PROVE  ConnectionsIInv'
<1> DEFINE call == threads[c]
           next == [call EXCEPT
             !.step = After(@),
             !.host = IF call.step = "host" THEN config.host ELSE @,
             !.user = IF call.step = "user" THEN config.user ELSE @,
             !.secret = IF call.step = "secret" /\ call.user \in Users
                        THEN keychain[<<call.label, call.user>>] ELSE @]
<1>1. ConnectionsTypeOK /\ WritesLead /\ RacesEnd /\ QuietReads
  BY DEF ConnectionsIInv
<1>2. call.kind = "connect" /\ call.step # "done" /\ threads' = [threads EXCEPT ![c] = next]
      /\ UNCHANGED <<config, keychain>>
  BY DEF resolveConnection, Goes
<1>3. UNCHANGED <<label, offered, quiet>>
      /\ IF raced /\ ~Writing'
         THEN wanted' = config' /\ kept' = keychain' /\ raced' = FALSE
         ELSE UNCHANGED <<wanted, kept, raced>>
  BY DEF ConnectionThread
<1>4. call \in Call
  BY <1>1 DEF ConnectionsTypeOK
<1>5. next \in Call /\ next.kind = "connect"
  <2>1. After(call.step) \in {"user", "secret", "done"}
    BY <1>4 DEF After, Call
  <2>2. config.host \in Hosts \cup {Unset} /\ config.user \in Named \cup {Unset}
    BY <1>1 DEF ConnectionsTypeOK, Configs
  <2>3. call.user \in Users => keychain[<<call.label, call.user>>] \in Secrets
    BY <1>1, <1>4 DEF ConnectionsTypeOK, Items, Call
  <2>4. QED
    BY <1>2, <1>4, <2>1, <2>2, <2>3, ZenonT(60) DEF Call
<1>6. threads' \in [Slots -> Call] /\ threads'[c] = next
      /\ \A d \in Slots \ {c} : threads'[d] = threads[d]
  BY <1>1, <1>2, <1>5 DEF ConnectionsTypeOK
<1>7. ~Writes(threads[c]) /\ ~Writes(threads'[c])
  BY <1>2, <1>5, <1>6 DEF Writes
<1>8. Writing' <=> Writing
  BY <1>6, <1>7 DEF Writing, Writes
<1>9. UNCHANGED <<wanted, kept, raced>>
  BY <1>1, <1>3, <1>8 DEF RacesEnd
<1>10. WritesLead' /\ (raced' => Writing')
  BY <1>2, <1>6, <1>7, <1>9, WritesUntouched
<1>11. ConnectionsTypeOK' /\ RacesEnd'
  BY <1>1, <1>2, <1>3, <1>6, <1>8, <1>9 DEF ConnectionsTypeOK, RacesEnd
<1>12. QuietReads'
  <2>1. ASSUME NEW d \in quiet, d # c PROVE threads'[d] = threads[d]
    BY <1>1, <1>6, <2>1 DEF ConnectionsTypeOK
  <2>2. ASSUME c \in quiet
        PROVE  /\ next.step # "host" => next.host = wanted.host
               /\ next.step \in {"secret", "done"} => next.user = wanted.user
               /\ next.step # "done" => next.secret = 0
               /\ next.step = "done" =>
                    next.secret = IF wanted.user \in Users THEN kept[<<next.label, wanted.user>>] ELSE 0
    <3>1. config = wanted /\ keychain = kept
      BY <1>1, <2>2 DEF RacesEnd, WritesLead
    <3>2. /\ call.step # "host" => call.host = wanted.host
          /\ call.step = "secret" => call.user = wanted.user
          /\ call.secret = 0
      BY <1>1, <1>2, <2>2 DEF QuietReads
    <3>3. next.step = After(call.step) /\ next.label = call.label
          /\ next.host = (IF call.step = "host" THEN config.host ELSE call.host)
          /\ next.user = (IF call.step = "user" THEN config.user ELSE call.user)
          /\ next.secret = (IF call.step = "secret" /\ call.user \in Users
                            THEN keychain[<<call.label, call.user>>] ELSE call.secret)
      BY <1>4 DEF Call
    <3> HIDE DEF next
    <3>4. CASE call.step = "host"
      BY <3>1, <3>2, <3>3, <3>4 DEF After
    <3>5. CASE call.step = "user"
      BY <3>1, <3>2, <3>3, <3>5 DEF After
    <3>6. CASE call.step = "secret"
      BY <3>1, <3>2, <3>3, <3>6 DEF After
    <3>7. QED
      BY <1>2, <1>4, <3>4, <3>5, <3>6 DEF Call
  <2> HIDE DEF next
  <2>3. QED
    BY <1>1, <1>3, <1>5, <1>6, <1>9, <2>1, <2>2 DEF QuietReads
<1>13. QED
  BY <1>10, <1>11, <1>12 DEF ConnectionsIInv

LEMMA WrittenType ==
  ASSUME NEW call \in Call, call.step # "done"
  PROVE  /\ Written(call) \in Call
         /\ Writes(Written(call)) <=> Writes(call) /\ call.step # "secret"
<1>1. CASE call.step = "secret"
  BY <1>1, NoCallType DEF Written
<1>2. CASE call.step # "secret"
  <2>1. After(call.step) \in {"user", "secret"}
    BY <1>2 DEF After, Call
  <2>2. QED
    BY <1>2, <2>1 DEF Written, Writes, Call
<1>3. QED
  BY <1>1, <1>2

(* A save or a forget goes on: a race that ends leaves what is wanted from *)
(* now on, and one that goes on promises nothing.                          *)
LEMMA WriteGoes ==
  ASSUME ConnectionsIInv, NEW c \in Slots, ConnectionThread(c), Writes(threads[c]),
         threads' \in [Slots -> Call], \A d \in Slots \ {c} : threads'[d] = threads[d],
         config' \in Configs, keychain' \in [Items -> Secrets]
  PROVE  /\ ConnectionsTypeOK' /\ RacesEnd' /\ QuietReads'
         /\ raced => WritesLead'
         /\ ~raced => /\ UNCHANGED <<wanted, kept, raced>>
                      /\ \A d \in Slots \ {c} : ~Writes(threads'[d])
<1>1. ConnectionsTypeOK /\ WritesLead /\ RacesEnd
  BY DEF ConnectionsIInv
<1>2. UNCHANGED <<label, offered, quiet>>
      /\ IF raced /\ ~Writing'
         THEN wanted' = config' /\ kept' = keychain' /\ raced' = FALSE
         ELSE UNCHANGED <<wanted, kept, raced>>
  BY DEF ConnectionThread
<1>3. quiet' = {}
  BY <1>1, <1>2 DEF RacesEnd, Writing
<1>4. raced' = (raced /\ Writing')
  BY <1>1, <1>2 DEF ConnectionsTypeOK
<1>5. ConnectionsTypeOK'
  BY <1>1, <1>2 DEF ConnectionsTypeOK
<1>6. RacesEnd' /\ QuietReads'
  BY <1>3, <1>4 DEF RacesEnd, QuietReads
<1>7. ASSUME raced PROVE WritesLead'
  <2>1. CASE Writing'
    BY <1>4, <1>7, <2>1 DEF WritesLead
  <2>2. CASE ~Writing'
    <3>1. \A d \in Slots : ~Writes(threads'[d])
      BY <2>2 DEF Writing, Writes
    <3>2. config' = wanted' /\ keychain' = kept'
      BY <1>2, <1>7, <2>2
    <3>3. QED
      BY <3>1, <3>2 DEF WritesLead, Writes
  <2>3. QED
    BY <2>1, <2>2
<1>8. ASSUME ~raced PROVE \A d \in Slots \ {c} : ~Writes(threads'[d])
  BY <1>1, <1>8 DEF WritesLead
<1>9. QED
  BY <1>2, <1>5, <1>6, <1>7, <1>8

LEMMA SaveGoes ==
  ASSUME ConnectionsIInv, NEW c \in Slots, saveConnectionConfig(c), ConnectionThread(c)
  PROVE  ConnectionsIInv'
<1> DEFINE call == threads[c]
           item == <<call.label, Account(call.user)>>
<1>1. ConnectionsTypeOK /\ WritesLead
  BY DEF ConnectionsIInv
<1>2. /\ call.kind = "save" /\ call.step # "done" /\ Writes(call)
      /\ threads' = [threads EXCEPT ![c] = Written(call)]
      /\ config' = CASE call.step = "host" -> [config EXCEPT !.host = call.host]
                     [] call.step = "user" -> [config EXCEPT !.user = call.user]
                     [] OTHER -> config
      /\ keychain' = IF call.step = "secret" /\ call.secret # 0
                     THEN [keychain EXCEPT ![item] = call.secret] ELSE keychain
  BY DEF saveConnectionConfig, Goes, Writes
<1>3. call \in Call
  BY <1>1 DEF ConnectionsTypeOK
<1>4. item \in Items
  BY <1>3, AccountType DEF Call, Items
<1>5. /\ threads' \in [Slots -> Call] /\ threads'[c] = Written(call)
      /\ \A d \in Slots \ {c} : threads'[d] = threads[d]
      /\ Writes(threads'[c]) <=> call.step # "secret"
  BY <1>1, <1>2, <1>3, WrittenType DEF ConnectionsTypeOK
<1>6. config' \in Configs /\ keychain' \in [Items -> Secrets]
  BY <1>1, <1>2, <1>3, <1>4 DEF ConnectionsTypeOK, Configs, Call
<1>7. /\ ConnectionsTypeOK' /\ RacesEnd' /\ QuietReads'
      /\ raced => WritesLead'
      /\ ~raced => /\ UNCHANGED <<wanted, kept, raced>>
                   /\ \A d \in Slots \ {c} : ~Writes(threads'[d])
  BY <1>2, <1>5, <1>6, WriteGoes
<1>8. ASSUME ~raced PROVE WritesLead'
  <2>1. SaveLeads(call)
    BY <1>1, <1>2, <1>8 DEF WritesLead
  <2>2. CASE call.step # "secret"
    <3>1. threads'[c] = [call EXCEPT !.step = After(call.step)]
      BY <1>5, <2>2 DEF Written
    <3>2. /\ threads'[c].host = call.host /\ threads'[c].user = call.user
          /\ threads'[c].secret = call.secret /\ threads'[c].label = call.label
          /\ threads'[c].kind = "save" /\ threads'[c].step = After(call.step)
      BY <1>2, <1>3, <3>1 DEF Call
    <3>3. keychain' = keychain /\ (call.step = "host" \/ call.step = "user")
      BY <1>2, <1>3, <2>2 DEF Call
    <3>4. /\ threads'[c].step \in {"user", "secret"} => config'.host = call.host
          /\ threads'[c].step = "secret" => config'.user = call.user
      BY <1>1, <1>2, <2>1, <3>2, <3>3 DEF After, SaveLeads, ConnectionsTypeOK, Configs
    <3>5. SaveLeads(threads[c])'
      BY <1>7, <1>8, <2>1, <3>2, <3>3, <3>4 DEF SaveLeads, Account
    <3>6. Writing'
      BY <1>5, <2>2 DEF Writing, Writes
    <3>7. QED
      BY <1>7, <1>8, <3>2, <3>5, <3>6 DEF WritesLead, Writes
  <2>3. CASE call.step = "secret"
    <3>1. config' = config /\ config.host = call.host /\ config.user = call.user
      BY <1>2, <2>1, <2>3 DEF SaveLeads
    <3>2. config' = wanted
      BY <1>1, <2>1, <3>1 DEF SaveLeads, ConnectionsTypeOK, Configs
    <3>3. keychain' = kept
      BY <1>2, <2>1, <2>3 DEF SaveLeads
    <3>4. \A d \in Slots : ~Writes(threads'[d])
      BY <1>5, <1>7, <1>8, <2>3
    <3>5. QED
      BY <1>7, <1>8, <3>2, <3>3, <3>4 DEF WritesLead, Writes
  <2>4. QED
    BY <2>2, <2>3
<1>9. QED
  BY <1>7, <1>8 DEF ConnectionsIInv

LEMMA ForgetGoes ==
  ASSUME ConnectionsIInv, NEW c \in Slots, forgetConnectionConfig(c), ConnectionThread(c)
  PROVE  ConnectionsIInv'
<1> DEFINE call == threads[c]
           read == IF call.step = "host" THEN [call EXCEPT !.user = config.user] ELSE call
           item == <<call.label, Account(call.user)>>
<1>1. ConnectionsTypeOK /\ WritesLead
  BY DEF ConnectionsIInv
<1>2. /\ call.kind = "forget" /\ call.step # "done" /\ Writes(call)
      /\ threads' = [threads EXCEPT ![c] = Written(read)]
      /\ config' = IF call.step = "user" THEN NoConfig ELSE config
      /\ keychain' = IF call.step = "secret" THEN [keychain EXCEPT ![item] = 0] ELSE keychain
  BY DEF forgetConnectionConfig, Goes, Writes
<1>3. call \in Call
  BY <1>1 DEF ConnectionsTypeOK
<1>4. /\ read \in Call /\ read.kind = "forget" /\ read.step = call.step /\ read.label = call.label
      /\ read.user = (IF call.step = "host" THEN config.user ELSE call.user)
  BY <1>1, <1>2, <1>3 DEF ConnectionsTypeOK, Configs, Call
<1> HIDE DEF read
<1>5. item \in Items /\ 0 \in Secrets
  BY <1>3, AccountType, ConnectionsAssumption DEF Call, Items, Secrets
<1>6. /\ threads' \in [Slots -> Call] /\ threads'[c] = Written(read)
      /\ \A d \in Slots \ {c} : threads'[d] = threads[d]
      /\ Writes(threads'[c]) <=> call.step # "secret"
  BY <1>1, <1>2, <1>4, WrittenType DEF ConnectionsTypeOK, Writes
<1>7. config' \in Configs /\ keychain' \in [Items -> Secrets]
  BY <1>1, <1>2, <1>5, NothingType DEF ConnectionsTypeOK
<1>8. /\ ConnectionsTypeOK' /\ RacesEnd' /\ QuietReads'
      /\ raced => WritesLead'
      /\ ~raced => /\ UNCHANGED <<wanted, kept, raced>>
                   /\ \A d \in Slots \ {c} : ~Writes(threads'[d])
  BY <1>2, <1>6, <1>7, WriteGoes
<1>9. ASSUME ~raced PROVE WritesLead'
  <2>1. ForgetLeads(call)
    BY <1>1, <1>2, <1>9 DEF WritesLead
  <2>2. CASE call.step # "secret"
    <3>1. threads'[c] = [read EXCEPT !.step = After(read.step)]
      BY <1>4, <1>6, <2>2 DEF Written
    <3>2. /\ threads'[c].user = read.user /\ threads'[c].label = call.label
          /\ threads'[c].kind = "forget" /\ threads'[c].step = After(call.step)
      BY <1>4, <3>1 DEF Call
    <3>3. keychain' = keychain /\ (call.step = "host" \/ call.step = "user")
      BY <1>2, <1>3, <2>2 DEF Call
    <3>4. kept = [keychain EXCEPT ![<<call.label, Account(read.user)>>] = 0]
      BY <1>4, <2>1, <3>3 DEF ForgetLeads
    <3>5. threads'[c].step # "host" /\ (threads'[c].step = "secret" => config' = NoConfig)
      BY <1>2, <3>2, <3>3 DEF After
    <3>6. ForgetLeads(threads[c])'
      BY <1>8, <1>9, <2>1, <3>2, <3>3, <3>4, <3>5 DEF ForgetLeads, Account, NoConfig
    <3>7. Writing'
      BY <1>6, <2>2 DEF Writing, Writes
    <3>8. QED
      BY <1>8, <1>9, <3>2, <3>6, <3>7 DEF WritesLead, Writes
  <2>3. CASE call.step = "secret"
    <3>1. config' = wanted /\ keychain' = kept
      BY <1>2, <2>1, <2>3 DEF ForgetLeads
    <3>2. \A d \in Slots : ~Writes(threads'[d])
      BY <1>6, <1>8, <1>9, <2>3
    <3>3. QED
      BY <1>8, <1>9, <3>1, <3>2 DEF WritesLead, Writes
  <2>4. QED
    BY <2>2, <2>3
<1>10. QED
  BY <1>8, <1>9 DEF ConnectionsIInv

LEMMA StandingKeeps == ConnectionsIInv /\ UNCHANGED connectionVars => ConnectionsIInv'
<1> SUFFICES ASSUME ConnectionsIInv, UNCHANGED connectionVars PROVE ConnectionsIInv'
  OBVIOUS
<1>1. ConnectionsTypeOK'
  BY DEF ConnectionsIInv, ConnectionsTypeOK, connectionVars
<1>2. WritesLead'
  BY DEF ConnectionsIInv, WritesLead, connectionVars, Writing, SaveLeads, ForgetLeads
<1>3. RacesEnd' /\ QuietReads'
  BY DEF ConnectionsIInv, RacesEnd, QuietReads, connectionVars, Writing
<1>4. QED
  BY <1>1, <1>2, <1>3 DEF ConnectionsIInv

-----------------------------------------------------------------------------
(* Whatever is saved, forgotten, tested and upgraded, by however many      *)
(* threads: what a save or forget has left to do leads from what is stored *)
(* to what its button asked for, and a connection that nobody disturbs     *)
(* reads exactly that.                                                     *)
THEOREM ConnectionsInvariant == ConnectionsSpec => []ConnectionsIInv
<1>1. ConnectionsInit => ConnectionsIInv
  BY InitConnectionsIInv
<1>2. ConnectionsIInv /\ [ConnectionsNext]_connectionVars => ConnectionsIInv'
  <2> SUFFICES ASSUME ConnectionsIInv, [ConnectionsNext]_connectionVars PROVE ConnectionsIInv'
    OBVIOUS
  <2>1. CASE UNCHANGED connectionVars
    BY <2>1, StandingKeeps
  <2>2. CASE Relabel
    BY <2>2, RelabelKeeps
  <2>3. ASSUME NEW c \in Slots,
               \E host \in Hosts, user \in Named, pass \in Secrets : saveConnection(c, host, user, pass)
        PROVE  ConnectionsIInv'
    BY <2>3, SaveBegins
  <2>4. ASSUME NEW c \in Slots, forgetConnection(c) PROVE ConnectionsIInv'
    BY <2>4, ForgetBegins
  <2>5. ASSUME NEW c \in Slots, Connect(c) PROVE ConnectionsIInv'
    BY <2>5, ConnectBegins
  <2>6. ASSUME NEW c \in Slots, ConnectionThread(c) PROVE ConnectionsIInv'
    <3>1. saveConnectionConfig(c) \/ forgetConnectionConfig(c) \/ resolveConnection(c)
      BY <2>6 DEF ConnectionThread
    <3>2. QED
      BY <2>6, <3>1, SaveGoes, ForgetGoes, ReadGoes
  <2>7. ASSUME NEW c \in Slots, Signal(c) PROVE ConnectionsIInv'
    BY <2>7, SignalKeeps
  <2>8. QED
    BY <2>1, <2>2, <2>3, <2>4, <2>5, <2>6, <2>7 DEF ConnectionsNext
<1>3. QED
  BY <1>1, <1>2, PTL DEF ConnectionsSpec

(* Saves and forgets that do not overlap leave, in the settings and in the *)
(* Keychain, what the last of them asked for; and whatever connects while  *)
(* nothing is saved or forgotten is given that host, user and secret.      *)
THEOREM OneConfiguration == ConnectionsSpec => []ConnectionsSound
<1>1. ConnectionsIInv => ConnectionsSound
  <2> SUFFICES ASSUME ConnectionsIInv PROVE ConnectionsSound
    OBVIOUS
  <2>1. ConnectionsTypeOK /\ WritesLead /\ QuietReads
    BY DEF ConnectionsIInv
  <2>2. LastCallDecides
    BY <2>1 DEF WritesLead, LastCallDecides
  <2>3. QuietConnectionsAgree
    <3> SUFFICES ASSUME NEW c \in quiet, threads[c].step = "done"
                 PROVE  /\ [host |-> threads[c].host, user |-> threads[c].user] = wanted
                        /\ threads[c].secret = IF wanted.user \in Users
                                               THEN kept[<<threads[c].label, wanted.user>>] ELSE 0
      BY DEF QuietConnectionsAgree
    <3>1. threads[c].host = wanted.host /\ threads[c].user = wanted.user
      BY <2>1 DEF QuietReads
    <3>2. QED
      BY <2>1, <3>1 DEF QuietReads, ConnectionsTypeOK, Configs
  <2>4. QED
    BY <2>1, <2>2, <2>3 DEF ConnectionsSound
<1>2. QED
  BY <1>1, ConnectionsInvariant, PTL

-----------------------------------------------------------------------------
(* The list of the services.                                               *)

(* What a job of the service has found is what the machine was like at the *)
(* turn it says, which is not older than the list or than a start or stop  *)
(* of ours; before it has looked it has found nothing.                     *)
Looked(j) == j.step = "post" /\ j.kind # "query"

Found ==
  \A j \in jobs :
    /\ Looked(j) => /\ asOf <= j.at /\ did <= j.at
                    /\ Len(j.found) = Cardinality(Shown)
                    /\ j.at = turns => j.found \in detectDatabaseServices(serving)
    /\ ~Looked(j) => j.found = <<>>

JobsFit ==
  \A j \in jobs : /\ j.at <= turns
                  /\ j.kind = "query" => j.step # "detect"
                  /\ j.kind = "scan" => j.step # "command"
                  /\ j.kind # "scan" => j.id \in Ids

TurnsPast == asOf <= turns /\ did <= turns

ListIsWhole == Len(services) # 0 => Len(services) = Cardinality(Shown)

ServicesIInv ==
  /\ DatabaseTypeOK
  /\ OneJob
  /\ Found /\ JobsFit /\ TurnsPast /\ ListIsWhole

Entry == [id : Ids, running : BOOLEAN]

LEMMA ShownFacts ==
  /\ IsFiniteSet(Shown) /\ Cardinality(Shown) \in Nat
  /\ Shown \subseteq Installs
<1>1. Shown \subseteq Installs
  BY DEF Shown
<1>2. QED
  BY <1>1, DatabaseAssumption, FS_Subset, FS_CardinalityType

LEMMA RunningType ==
  ASSUME NEW s, NEW up PROVE Running(s, up) \in BOOLEAN
<1>1. (s \in up) \in BOOLEAN /\ (\E t \in up : t.port = s.port) \in BOOLEAN
  BY SMT
<1>2. CASE s.source = "homebrew"
  BY <1>1, <1>2, Zenon DEF Running
<1>3. CASE s.source # "homebrew"
  BY <1>1, <1>3, Zenon DEF Running
<1>4. QED
  BY <1>2, <1>3

(* A detection lists every install that is to be listed, once, and says of *)
(* each whether it runs.                                                   *)
LEMMA DetectedFacts ==
  ASSUME NEW up, NEW list \in detectDatabaseServices(up)
  PROVE  /\ list \in Seq(Entry)
         /\ Len(list) = Cardinality(Shown)
         /\ \A i \in DOMAIN list : \E s \in Shown :
              list[i] = [id |-> s.id, running |-> Running(s, up)]
         /\ \A s \in Shown : \E i \in DOMAIN list :
              list[i] = [id |-> s.id, running |-> Running(s, up)]
<1> DEFINE n == Cardinality(Shown)
<1>1. PICK p \in Orders(up) :
        list = [i \in DOMAIN p |-> [id |-> p[i].id, running |-> Running(p[i], up)]]
  BY DEF detectDatabaseServices
<1>2. /\ p \in [1..n -> Shown]
      /\ \A i, j \in DOMAIN p : i < j => p[i] # p[j]
  BY <1>1 DEF Orders
<1>3. n \in Nat /\ IsFiniteSet(Shown) /\ Shown \subseteq Installs
  BY ShownFacts
<1>4. \A i \in 1..n : p[i] \in Shown /\ p[i].id \in Ids /\ Running(p[i], up) \in BOOLEAN
  BY <1>2, <1>3, RunningType DEF Ids
<1>5. list \in [1..n -> Entry]
  <2> HIDE DEF n
  <2>1. QED
    BY <1>1, <1>2, <1>4 DEF Entry
<1>6. list \in Seq(Entry) /\ Len(list) = n /\ DOMAIN list = 1..n
  <2> HIDE DEF n
  <2>1. QED
    BY <1>3, <1>5
<1>7. \A i, j \in 1..n : i # j => p[i] # p[j]
  <2> HIDE DEF n
  <2>1. QED
    BY <1>2, <1>3
<1>8. \A s \in Shown : \E i \in 1..n : p[i] = s
  <2>1. p \in Injection(1..n, Shown)
    <3> HIDE DEF n
    <3>1. QED
      BY <1>2, <1>7 DEF Injection, IsInjective
  <2>2. Cardinality(1..n) = n
    BY <1>3, FS_Interval
  <2>3. p \in Surjection(1..n, Shown)
    BY <1>3, <2>1, <2>2, FS_Injection
  <2>4. QED
    BY <2>3 DEF Surjection
<1>9. \A i \in 1..n : list[i] = [id |-> p[i].id, running |-> Running(p[i], up)]
  <2> HIDE DEF n
  <2>1. QED
    BY <1>1, <1>2
<1>10. list \in Seq(Entry) /\ Len(list) = Cardinality(Shown)
  BY <1>6
<1>11. QED
  <2> HIDE DEF n
  <2>1. \A i \in DOMAIN list : \E s \in Shown :
          list[i] = [id |-> s.id, running |-> Running(s, up)]
    BY <1>4, <1>6, <1>9, Zenon
  <2>2. \A s \in Shown : \E i \in DOMAIN list :
          list[i] = [id |-> s.id, running |-> Running(s, up)]
    <3> SUFFICES ASSUME NEW s \in Shown
                 PROVE  \E i \in DOMAIN list : list[i] = [id |-> s.id, running |-> Running(s, up)]
      OBVIOUS
    <3>1. PICK i \in 1..n : p[i] = s
      BY <1>8
    <3>2. list[i] = [id |-> s.id, running |-> Running(s, up)]
      BY <1>9, <3>1
    <3>3. QED
      BY <1>6, <3>2
  <2>3. QED
    BY <1>10, <2>1, <2>2, Zenon

(* The operations of the service, one at a time.                           *)
LEMMA JobFields ==
  ASSUME NEW k \in {"scan", "control", "query"}, NEW id \in Ids \cup {Nothing}, NEW start \in BOOLEAN
  PROVE  /\ NewJob(k, id, start) \in Job
         /\ NewJob(k, id, start).kind = k /\ NewJob(k, id, start).id = id
         /\ NewJob(k, id, start).at = 0 /\ NewJob(k, id, start).found = <<>>
         /\ NewJob(k, id, start).step = IF k = "scan" THEN "detect" ELSE "command"
<1>1. <<>> \in Seq(Entry) /\ 0 \in 0..MaxTurns
  BY DatabaseAssumption
<1>2. QED
  BY <1>1 DEF NewJob, Job, Entry

LEMMA InitServices == DatabaseInit => ServicesIInv
<1> SUFFICES ASSUME DatabaseInit PROVE ServicesIInv
  OBVIOUS
<1> DEFINE j == NewJob("scan", Nothing, FALSE)
<1>1. /\ j \in Job /\ j.kind = "scan" /\ j.id = Nothing /\ j.at = 0
      /\ j.found = <<>> /\ j.step = "detect"
  <2>1. <<>> \in Seq(Entry) /\ 0 \in 0..MaxTurns
    BY DatabaseAssumption
  <2>2. QED
    BY <2>1 DEF NewJob, Job, Entry
<1>2. jobs = {j} /\ turns = 0 /\ asOf = 0 /\ did = 0 /\ services = <<>> /\ bBusy = TRUE
      /\ bScanning = TRUE /\ bControls = Nothing /\ details = {} /\ selected = 0
      /\ detailOf = Nothing /\ resultOf = Nothing
  BY DEF DatabaseInit
<1>3. serving \subseteq Installs
  BY DEF DatabaseInit
<1> HIDE DEF j
<1>4. DatabaseTypeOK
  <2>1. services \in Seq(Entry) /\ selected \in 0..Len(services) /\ 0 \in 0..MaxTurns
    BY <1>2, DatabaseAssumption
  <2>2. QED
    BY <1>1, <1>2, <1>3, <2>1 DEF DatabaseTypeOK, Entry
<1>5. OneJob
  <2>1. \E k \in jobs : k.kind = "scan"
    BY <1>1, <1>2
  <2>2. ~\E k \in jobs : k.kind = "control"
    BY <1>1, <1>2
  <2>3. \A k, l \in jobs : k = l
    BY <1>2
  <2>4. QED
    BY <1>2, <2>1, <2>2, <2>3 DEF OneJob
<1>6. Found /\ JobsFit /\ TurnsPast /\ ListIsWhole
  BY <1>1, <1>2 DEF Found, JobsFit, TurnsPast, ListIsWhole, Looked
<1>7. QED
  BY <1>4, <1>5, <1>6 DEF ServicesIInv

(* A click on refresh, start, stop or run while nothing is under way.      *)
LEMMA JobBegins ==
  ASSUME ServicesIInv, ~bBusy,
         NEW k \in {"scan", "control", "query"}, NEW id \in Ids \cup {Nothing}, NEW start \in BOOLEAN,
         k # "scan" => id \in Ids,
         jobs' = jobs \cup {NewJob(k, id, start)}, bBusy' = TRUE,
         bScanning' = IF k = "scan" THEN TRUE ELSE bScanning,
         bControls' = IF k = "control" THEN id ELSE bControls,
         UNCHANGED <<serving, turns, services, asOf, details, selected, detailOf, resultOf, did>>
  PROVE  ServicesIInv'
<1> DEFINE j == NewJob(k, id, start)
<1>1. /\ j \in Job /\ j.kind = k /\ j.id = id /\ j.at = 0 /\ j.found = <<>>
      /\ j.step = IF k = "scan" THEN "detect" ELSE "command"
  BY JobFields, SMTT(30)
<1>2. jobs = {} /\ jobs' = {j}
  BY DEF ServicesIInv, OneJob
<1>3. bScanning = FALSE /\ bControls = Nothing
  BY <1>2 DEF ServicesIInv, OneJob, DatabaseTypeOK
<1> HIDE DEF j
<1>4. DatabaseTypeOK'
  BY <1>1, <1>2, <1>3 DEF ServicesIInv, DatabaseTypeOK
<1>5. OneJob'
  BY <1>1, <1>2, <1>3 DEF OneJob
<1>6. (Found /\ JobsFit)'
  <2>1. turns \in Nat
    BY DatabaseAssumption DEF ServicesIInv, DatabaseTypeOK
  <2>2. j.step # "post" /\ (j.kind = "query" => j.step # "detect")
        /\ (j.kind = "scan" => j.step # "command") /\ j.at <= turns /\ turns' = turns
    BY <1>1, <2>1
  <2>3. j.kind # "scan" => j.id \in Ids
    BY <1>1
  <2>4. QED
    BY <1>1, <1>2, <2>2, <2>3 DEF Found, JobsFit, Looked
<1>7. (TurnsPast /\ ListIsWhole)'
  BY DEF ServicesIInv, TurnsPast, ListIsWhole
<1>8. QED
  BY <1>4, <1>5, <1>6, <1>7 DEF ServicesIInv

LEMMA BeginsKeep ==
  ASSUME ServicesIInv,
         refresh \/ runQuery \/ \E id \in Ids, start \in BOOLEAN : control(id, start)
  PROVE  ServicesIInv'
<1>1. CASE refresh
  BY <1>1, JobBegins DEF refresh
<1>2. CASE runQuery
  <2>1. services[selected].id \in Ids
    <3>1. services \in Seq(Entry) /\ selected \in 1..Len(services)
      BY <1>2 DEF runQuery, ServicesIInv, DatabaseTypeOK, Entry
    <3>2. services[selected] \in Entry
      BY <3>1
    <3>3. QED
      BY <3>2 DEF Entry
  <2>2. /\ ~bBusy /\ bBusy' = TRUE
        /\ jobs' = jobs \cup {NewJob("query", services[selected].id, FALSE)}
        /\ bScanning' = bScanning /\ bControls' = bControls
        /\ UNCHANGED <<serving, turns, services, asOf, details, selected, detailOf, resultOf, did>>
    BY <1>2 DEF runQuery
  <2>3. "query" \in {"scan", "control", "query"} /\ FALSE \in BOOLEAN
    OBVIOUS
  <2> DEFINE i == services[selected].id
  <2> HIDE DEF i
  <2>4. QED
    BY <2>1, <2>2, <2>3, JobBegins DEF i
<1>3. ASSUME NEW id \in Ids, NEW start \in BOOLEAN, control(id, start) PROVE ServicesIInv'
  BY <1>3, JobBegins DEF control
<1>4. QED
  BY <1>1, <1>2, <1>3

(* A thread that goes on: its job k takes the place of j.                  *)
LEMMA JobGoesOn ==
  ASSUME ServicesIInv, NEW j \in jobs, NEW k \in Job, Moves(j, k),
         k.kind = j.kind, k.id = j.id, k.kind = "query" => k.step # "detect",
         k.kind = "scan" => k.step # "command",
         UNCHANGED <<services, asOf, bBusy, bScanning, bControls, details, selected, detailOf, resultOf>>,
         serving' \subseteq Installs, turns' \in 0..MaxTurns, did' \in 0..MaxTurns,
         turns <= turns', did' <= turns', k.at <= turns',
         Looked(k) => /\ asOf <= k.at /\ did' <= k.at
                      /\ Len(k.found) = Cardinality(Shown)
                      /\ k.at = turns' => k.found \in detectDatabaseServices(serving'),
         ~Looked(k) => k.found = <<>>
  PROVE  ServicesIInv'
<1>1. jobs = {j} /\ jobs' = {k} /\ j \in Job
  BY DEF ServicesIInv, OneJob, Moves, DatabaseTypeOK
<1>2. DatabaseTypeOK'
  BY <1>1 DEF ServicesIInv, DatabaseTypeOK
<1>3. OneJob'
  <2>1. bControls = IF j.kind = "control" THEN j.id ELSE Nothing
    BY <1>1 DEF ServicesIInv, OneJob
  <2>2. bBusy /\ (bScanning <=> j.kind = "scan")
    BY <1>1 DEF ServicesIInv, OneJob
  <2>3. QED
    BY <1>1, <2>1, <2>2 DEF OneJob
<1>4. Found'
  BY <1>1 DEF Found
<1>5. JobsFit'
  <2>1. j.kind # "scan" => j.id \in Ids
    BY <1>1 DEF ServicesIInv, JobsFit
  <2>2. QED
    BY <1>1, <2>1 DEF JobsFit
<1>6. TurnsPast'
  <2>1. asOf <= turns /\ asOf \in Nat /\ turns \in Nat /\ turns' \in Nat
    BY DatabaseAssumption DEF ServicesIInv, TurnsPast, DatabaseTypeOK
  <2>2. QED
    BY <2>1 DEF TurnsPast
<1>7. ListIsWhole'
  BY DEF ServicesIInv, ListIsWhole
<1>8. QED
  BY <1>2, <1>3, <1>4, <1>5, <1>6, <1>7 DEF ServicesIInv

LEMMA TurnFacts ==
  ASSUME ServicesIInv, NEW s \in Installs, NEW start \in BOOLEAN, Turn(s, start)
  PROVE  /\ serving' \subseteq Installs /\ turns' \in 0..MaxTurns
         /\ turns < turns' /\ turns \in Nat /\ turns' \in Nat
BY DatabaseAssumption DEF Turn, ServicesIInv, DatabaseTypeOK

LEMMA CommandKeeps ==
  ASSUME ServicesIInv, NEW j \in jobs, controlDatabaseService(j),
         UNCHANGED <<services, asOf, bBusy, bScanning, bControls, details, selected, detailOf, resultOf>>
  PROVE  ServicesIInv'
<1> DEFINE k == [j EXCEPT !.step = IF j.kind = "control" THEN "detect" ELSE "post"]
<1>1. j \in Job /\ j.step = "command" /\ Moves(j, k) /\ ~Looked(j) /\ j.found = <<>>
      /\ j.at <= turns /\ j.at \in Nat
  BY DatabaseAssumption DEF controlDatabaseService, ServicesIInv, DatabaseTypeOK, Looked, Found, JobsFit, Job
<1>2. j.kind # "scan" => j.id \in Ids
  BY DEF ServicesIInv, JobsFit
<1>3. /\ k \in Job /\ k.kind = j.kind /\ k.id = j.id /\ k.at = j.at /\ k.found = j.found
      /\ k.step = IF j.kind = "control" THEN "detect" ELSE "post"
  BY <1>1 DEF Job
<1>4. turns \in 0..MaxTurns /\ did \in 0..MaxTurns /\ did <= turns /\ turns \in Nat
      /\ serving \subseteq Installs
  BY DatabaseAssumption DEF ServicesIInv, DatabaseTypeOK, TurnsPast
<1>5. /\ serving' \subseteq Installs /\ turns' \in 0..MaxTurns /\ turns <= turns' /\ turns' \in Nat
      /\ did' \in 0..MaxTurns /\ did' <= turns'
  <2>1. CASE UNCHANGED <<serving, turns, did>>
    BY <1>4, <2>1
  <2>2. CASE /\ j.kind = "control" /\ Turn(InstallOf(j.id), j.start) /\ did' = turns'
    <3>1. InstallOf(j.id) \in Installs /\ j.start \in BOOLEAN
      <4>1. \E s \in Installs : s.id = j.id
        BY <1>2, <2>2 DEF Ids
      <4>2. QED
        BY <1>1, <4>1 DEF InstallOf, Job
    <3>2. QED
      BY <2>2, <3>1, TurnFacts
  <2>3. QED
    BY <2>1, <2>2 DEF controlDatabaseService
<1>6. ~Looked(k) \/ j.kind = "scan"
  BY <1>1, <1>3 DEF Looked, Job
<1>7. j.kind # "scan"
  BY <1>1 DEF ServicesIInv, JobsFit
<1> HIDE DEF k
<1>8. k.at <= turns'
  BY <1>1, <1>3, <1>4, <1>5
<1>9. QED
  BY <1>1, <1>3, <1>5, <1>6, <1>7, <1>8, JobGoesOn

LEMMA DetectKeeps ==
  ASSUME ServicesIInv, NEW j \in jobs, Detect(j),
         UNCHANGED <<services, asOf, bBusy, bScanning, bControls, details, selected, detailOf, resultOf>>
  PROVE  ServicesIInv'
<1>1. PICK list \in detectDatabaseServices(serving) :
        Moves(j, [j EXCEPT !.step = "post", !.at = turns, !.found = list])
  BY DEF Detect
<1> DEFINE k == [j EXCEPT !.step = "post", !.at = turns, !.found = list]
<1>2. j \in Job /\ j.step = "detect" /\ UNCHANGED <<serving, turns, did>>
  BY DEF Detect, ServicesIInv, DatabaseTypeOK
<1>3. turns \in 0..MaxTurns /\ did \in 0..MaxTurns /\ did <= turns /\ asOf <= turns
      /\ turns \in Nat /\ serving \subseteq Installs /\ j.kind # "query"
  BY <1>2, DatabaseAssumption DEF ServicesIInv, DatabaseTypeOK, TurnsPast, JobsFit
<1>4. list \in Seq(Entry) /\ Len(list) = Cardinality(Shown)
  BY DetectedFacts
<1>5. /\ k \in Job /\ k.kind = j.kind /\ k.id = j.id /\ k.at = turns /\ k.found = list
      /\ k.step = "post"
  BY <1>2, <1>3, <1>4 DEF Job, Entry
<1>6. Looked(k)
  BY <1>3, <1>5 DEF Looked
<1>7. Moves(j, k)
  BY <1>1
<1> HIDE DEF k
<1>8. k.at <= turns'
  BY <1>2, <1>3, <1>5
<1>9. k.kind # "query" /\ k.step # "command" /\ asOf <= k.at /\ did' <= k.at /\ turns <= turns'
  BY <1>2, <1>3, <1>5
<1>10. k.found \in detectDatabaseServices(serving')
  BY <1>2, <1>5
<1>11. Len(k.found) = Cardinality(Shown) /\ did' <= turns'
  BY <1>2, <1>3, <1>4, <1>5
<1>12. QED
  BY <1>2, <1>3, <1>5, <1>6, <1>7, <1>8, <1>9, <1>10, <1>11, JobGoesOn

(* The thread's queued call on the GUI thread.                             *)
LEMMA PostKeeps ==
  ASSUME ServicesIInv, NEW j \in jobs, Post(j)
  PROVE  /\ ServicesIInv'
         /\ asOf' # asOf => asOf' > asOf /\ asOf' >= did
<1>1. jobs = {j} /\ jobs' = {} /\ j \in Job /\ j.step = "post"
  BY DEF ServicesIInv, OneJob, Post, DatabaseTypeOK
<1>2. /\ asOf \in Nat /\ turns \in Nat /\ did \in Nat /\ asOf <= turns /\ did <= turns
      /\ j.at \in 0..MaxTurns /\ j.at \in Nat /\ j.at <= turns /\ j.found \in Seq(Entry)
  BY <1>1, DatabaseAssumption DEF ServicesIInv, DatabaseTypeOK, TurnsPast, JobsFit, Job, Entry
<1>3. UNCHANGED <<serving, turns, details, selected, detailOf, did>> /\ bBusy' = FALSE
  BY DEF Post
<1>4. j.kind # "query" => /\ services' = j.found /\ asOf' = j.at /\ UNCHANGED resultOf
                          /\ asOf <= j.at /\ did <= j.at /\ Len(j.found) = Cardinality(Shown)
  BY <1>1 DEF Post, ServicesIInv, Found, Looked
<1>5. j.kind = "query" => UNCHANGED <<services, asOf>> /\ resultOf' = j.id /\ j.id \in Ids
  BY DEF Post, ServicesIInv, JobsFit
<1>6. bControls' = Nothing /\ bScanning' = FALSE
  <2>1. bControls = IF j.kind = "control" THEN j.id ELSE Nothing
    BY <1>1 DEF ServicesIInv, OneJob
  <2>2. bScanning => j.kind = "scan"
    BY <1>1 DEF ServicesIInv, OneJob
  <2>3. bScanning' = (bScanning /\ j.kind # "scan")
        /\ bControls' = IF j.kind = "control" THEN Nothing ELSE bControls
    BY DEF Post
  <2>4. QED
    BY <2>1, <2>2, <2>3
<1>7. services' \in Seq(Entry) /\ selected \in 0..Len(services')
  <2>1. services \in Seq(Entry) /\ selected \in 0..Len(services)
    BY DEF ServicesIInv, DatabaseTypeOK, Entry
  <2>2. selected # 0 => Len(services) = Cardinality(Shown)
    BY <2>1 DEF ServicesIInv, ListIsWhole
  <2>3. CASE j.kind = "query"
    BY <1>5, <2>1, <2>3
  <2>4. CASE j.kind # "query"
    <3>1. services' \in Seq(Entry) /\ Len(services') \in Nat /\ selected \in Nat
      BY <1>2, <1>4, <2>1, <2>4
    <3>2. selected # 0 => Len(services') = Len(services)
      BY <1>4, <2>2, <2>4
    <3>3. QED
      BY <3>1, <3>2, <2>1
  <2>5. QED
    BY <2>3, <2>4
<1>8. DatabaseTypeOK'
  <2>1. asOf' \in 0..MaxTurns
    BY <1>2, <1>4, <1>5 DEF ServicesIInv, DatabaseTypeOK
  <2>2. QED
    BY <1>1, <1>3, <1>4, <1>5, <1>6, <1>7, <2>1 DEF ServicesIInv, DatabaseTypeOK, Entry
<1>9. OneJob'
  BY <1>1, <1>3, <1>6 DEF OneJob
<1>10. (Found /\ JobsFit)'
  BY <1>1 DEF Found, JobsFit
<1>11. TurnsPast'
  <2>1. asOf' <= turns
    BY <1>2, <1>4, <1>5
  <2>2. QED
    BY <1>2, <1>3, <2>1 DEF TurnsPast
<1>12. ListIsWhole'
  <2>1. Len(services) # 0 => Len(services) = Cardinality(Shown)
    BY DEF ServicesIInv, ListIsWhole
  <2>2. QED
    BY <1>3, <1>4, <1>5, <2>1 DEF ListIsWhole
<1>13. ServicesIInv'
  BY <1>8, <1>9, <1>10, <1>11, <1>12 DEF ServicesIInv
<1>14. asOf' # asOf => asOf' > asOf /\ asOf' >= did
  BY <1>2, <1>4, <1>5
<1>15. QED
  BY <1>13, <1>14

LEMMA SelectedType ==
  ASSUME ServicesIInv, NEW i \in 1..Len(services)
  PROVE  services[i].id \in Ids
<1>1. services \in Seq(Entry)
  BY DEF ServicesIInv, DatabaseTypeOK, Entry
<1>2. services[i] \in Entry
  BY <1>1
<1>3. QED
  BY <1>2 DEF Entry

(* The page, and the servers that start and stop by themselves.            *)
LEMMA PageKeeps ==
  ASSUME ServicesIInv,
         \/ \E i \in 0..Len(services) : Select(i)
         \/ \E id \in details : DetailReady(id)
  PROVE  ServicesIInv'
<1>1. UNCHANGED <<serving, turns, services, asOf, bBusy, bScanning, bControls, jobs, did>>
  BY DEF Select, DetailReady
<1>2. /\ details' \subseteq Ids /\ selected' \in 0..Len(services)
      /\ detailOf' \in Ids \cup {Nothing} /\ resultOf' \in Ids \cup {Nothing}
  <2>1. ASSUME NEW i \in 0..Len(services), Select(i)
        PROVE  /\ details' \subseteq Ids /\ selected' \in 0..Len(services)
               /\ detailOf' \in Ids \cup {Nothing} /\ resultOf' \in Ids \cup {Nothing}
    <3>1. details \subseteq Ids
      BY DEF ServicesIInv, DatabaseTypeOK
    <3>2. i # 0 => services[i].id \in Ids
      <4>1. Len(services) \in Nat
        BY DEF ServicesIInv, DatabaseTypeOK
      <4>2. i # 0 => i \in 1..Len(services)
        BY <4>1
      <4>3. QED
        BY <4>2, SelectedType
    <3>3. QED
      BY <2>1, <3>1, <3>2 DEF Select
  <2>2. ASSUME NEW id \in details, DetailReady(id)
        PROVE  /\ details' \subseteq Ids /\ selected' \in 0..Len(services)
               /\ detailOf' \in Ids \cup {Nothing} /\ resultOf' \in Ids \cup {Nothing}
    BY <2>2 DEF DetailReady, ServicesIInv, DatabaseTypeOK
  <2>3. QED
    BY <2>1, <2>2
<1>3. Len(services) # 0 => Len(services) = Cardinality(Shown)
  BY DEF ServicesIInv, ListIsWhole
<1>4. QED
  BY <1>1, <1>2, <1>3
     DEF ServicesIInv, DatabaseTypeOK, OneJob, Found, JobsFit, TurnsPast, ListIsWhole, Looked

LEMMA ServersKeep ==
  ASSUME ServicesIInv, ServerTurns
  PROVE  ServicesIInv'
<1>1. UNCHANGED <<services, asOf, bBusy, bScanning, bControls, jobs, details, selected,
                  detailOf, resultOf, did>>
  BY DEF ServerTurns
<1>2. serving' \subseteq Installs /\ turns' \in 0..MaxTurns
      /\ turns < turns' /\ turns \in Nat /\ turns' \in Nat
  BY TurnFacts DEF ServerTurns
<1>3. asOf \in Nat /\ did \in Nat /\ \A j \in jobs : j \in Job /\ j.at \in Nat /\ j.at < turns'
  <2>1. \A j \in jobs : j \in Job /\ j.at \in Nat /\ j.at <= turns
    <3>1. \A j \in jobs : j \in Job /\ j.at <= turns
      BY DEF ServicesIInv, DatabaseTypeOK, JobsFit
    <3>2. MaxTurns \in Nat /\ \A j \in Job : j.at \in 0..MaxTurns
      BY DatabaseAssumption DEF Job
    <3>3. QED
      BY <3>1, <3>2
  <2>2. QED
    BY <1>2, <2>1, DatabaseAssumption DEF ServicesIInv, DatabaseTypeOK
<1>4. DatabaseTypeOK'
  BY <1>1, <1>2 DEF ServicesIInv, DatabaseTypeOK
<1>5. (OneJob /\ ListIsWhole)'
  BY <1>1 DEF ServicesIInv, OneJob, ListIsWhole
<1>6. Found'
  BY <1>1, <1>2, <1>3 DEF ServicesIInv, Found, Looked
<1>7. (JobsFit /\ TurnsPast)'
  BY <1>1, <1>2, <1>3 DEF ServicesIInv, JobsFit, TurnsPast
<1>8. QED
  BY <1>4, <1>5, <1>6, <1>7 DEF ServicesIInv

LEMMA ServicesKeep ==
  ASSUME ServicesIInv, [DatabaseNext]_databaseVars
  PROVE  /\ ServicesIInv'
         /\ asOf' # asOf => asOf' > asOf /\ asOf' >= did
<1>1. CASE UNCHANGED databaseVars
  BY <1>1 DEF databaseVars, ServicesIInv, DatabaseTypeOK, OneJob, Found, JobsFit, TurnsPast,
              ListIsWhole, Looked
<1>2. CASE refresh \/ runQuery \/ \E id \in Ids, start \in BOOLEAN : control(id, start)
  <2>1. asOf' = asOf
    BY <1>2 DEF refresh, runQuery, control
  <2>2. QED
    BY <1>2, <2>1, BeginsKeep
<1>3. ASSUME NEW j \in jobs, JobStep(j) PROVE ServicesIInv' /\ asOf' = asOf
  BY <1>3, CommandKeeps, DetectKeeps DEF JobStep
<1>4. ASSUME NEW j \in jobs, Post(j)
      PROVE  ServicesIInv' /\ (asOf' # asOf => asOf' > asOf /\ asOf' >= did)
  BY <1>4, PostKeeps
<1>5. CASE \/ \E i \in 0..Len(services) : Select(i)
           \/ \E id \in details : DetailReady(id)
  <2>1. asOf' = asOf
    BY <1>5 DEF Select, DetailReady
  <2>2. QED
    BY <1>5, <2>1, PageKeeps
<1>6. CASE ServerTurns
  <2>1. asOf' = asOf
    BY <1>6 DEF ServerTurns
  <2>2. QED
    BY <1>6, <2>1, ServersKeep
<1>7. QED
  BY <1>1, <1>2, <1>3, <1>4, <1>5, <1>6 DEF DatabaseNext, JobThread

(* Whatever is started, stopped, queried and detected, in whatever order   *)
(* the threads and the servers move: the inductive invariant.              *)
THEOREM ServicesInvariant == DatabaseSpec => []ServicesIInv
<1>1. DatabaseInit => ServicesIInv
  BY InitServices
<1>2. ServicesIInv /\ [DatabaseNext]_databaseVars => ServicesIInv'
  BY ServicesKeep
<1>3. QED
  BY <1>1, <1>2, PTL DEF DatabaseSpec

(* busy covers one operation and scanning and controllingId say which; the *)
(* selected index stays in the list; and a Homebrew service is marked as   *)
(* running exactly when it is, even if another install has its port.       *)
THEOREM ServicesAreRight == DatabaseSpec => []ServicesSound
<1>1. ServicesIInv => ServicesSound
  <2> SUFFICES ASSUME ServicesIInv PROVE BrewRunsTruly
    BY DEF ServicesSound, ServicesIInv
  <2> SUFFICES ASSUME NEW j \in jobs, NEW s \in Installs,
                      s.source = "homebrew", j.found # <<>>, j.at = turns
               PROVE  [id |-> s.id, running |-> TRUE] \in ToSet(j.found) <=> s \in serving
    BY DEF BrewRunsTruly
  <2>1. j.found \in detectDatabaseServices(serving)
    BY DEF ServicesIInv, Found
  <2>2. ToSet(j.found) = {j.found[i] : i \in DOMAIN j.found}
    BY DEF ToSet
  <2>3. s \in Shown /\ (Running(s, serving) <=> s \in serving)
    BY DEF Shown, Listed, Running
  <2>4. ASSUME s \in serving PROVE [id |-> s.id, running |-> TRUE] \in ToSet(j.found)
    <3>1. PICK i \in DOMAIN j.found : j.found[i] = [id |-> s.id, running |-> Running(s, serving)]
      BY <2>1, <2>3, DetectedFacts
    <3>2. Running(s, serving) = TRUE
      BY <2>3, <2>4, RunningType
    <3>3. QED
      BY <2>2, <3>1, <3>2
  <2>5. ASSUME [id |-> s.id, running |-> TRUE] \in ToSet(j.found) PROVE s \in serving
    <3>1. PICK i \in DOMAIN j.found : j.found[i] = [id |-> s.id, running |-> TRUE]
      BY <2>2, <2>5
    <3>2. PICK t \in Shown : j.found[i] = [id |-> t.id, running |-> Running(t, serving)]
      BY <2>1, DetectedFacts
    <3>3. t.id = s.id /\ Running(t, serving) = TRUE
      BY <3>1, <3>2
    <3>4. t = s
      BY <3>3, DatabaseAssumption, ShownFacts
    <3>5. QED
      BY <2>3, <3>3, <3>4
  <2>6. QED
    BY <2>4, <2>5
<1>2. QED
  BY <1>1, ServicesInvariant, PTL

(* The list that the page shows is never replaced by an older one, and     *)
(* after a start or stop of ours it is from then or later.                 *)
THEOREM ListNeverGoesBack == DatabaseSpec => ListMovesOn
<1>1. ServicesIInv /\ [DatabaseNext]_databaseVars
        => [asOf' # asOf => asOf' > asOf /\ asOf' >= did]_databaseVars
  BY ServicesKeep
<1>2. QED
  BY <1>1, ServicesInvariant, PTL DEF DatabaseSpec, ListMovesOn
=============================================================================

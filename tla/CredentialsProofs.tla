-------------------------- MODULE CredentialsProofs ---------------------------
(***************************************************************************)
(* That a withdrawn credential stays withdrawn, for any number of sockets, *)
(* and that the door holds, for any number of clients, logins and starts.  *)
(*                                                                         *)
(* A socket ends by writing back the copy of the row it read when it       *)
(* authenticated; the strengthening says that none of these copies, and    *)
(* not the row, holds a credential that counts as withdrawn. The table of  *)
(* the throttle is an account of the guesses made: one entry per client,   *)
(* with their number and the lockout the last one bought.                  *)
(***************************************************************************)
EXTENDS Credentials, SequenceTheorems, TLAPS

States == {"none", "registered", "connected", "stale", "disconnected", "revoked", "incompatible"}
Phases == {"free", "admitted", "serving", "ending", "over"}
Row == [state : States, credential : Nat, revoked : BOOLEAN, connected : BOOLEAN]
Socket == [phase : Phases, record : Row]
Numbers == SUBSET Nat

PairingType ==
    pairing \in [row : Row, issued : Nat, live : Nat, socket : [Handlers -> Socket],
                 host : Nat, withdrawn : Numbers, settled : BOOLEAN, slipped : BOOLEAN]

Running(s) == pairing.socket[s].phase \in {"admitted", "serving", "ending"}

\* A copy of the row that may be written back: it holds no withdrawn credential.
Standing(row) == row.credential <= pairing.issued /\ row.credential \notin pairing.withdrawn

CopiesStand ==
    /\ \A w \in pairing.withdrawn : w # 0 /\ w <= pairing.issued
    /\ Standing(pairing.row)
    /\ \A s \in Handlers : Running(s) => Standing(pairing.socket[s].record)

SettledIsQuiet ==
    pairing.settled =>
        /\ pairing.row.state = "revoked" /\ pairing.row.credential = 0 /\ pairing.live = 0
        /\ \A s \in Handlers : ~Running(s)

PairingInv == PairingType /\ CopiesStand /\ SettledIsQuiet /\ ~pairing.slipped

(* What the repository makes of a row is a row (paired, revoked,           *)
(* clear_stale_connection_states, attach, snapshot).                       *)
LEMMA RowKinds ==
    ASSUME NEW row \in Row
    PROVE  /\ \A credential \in Nat : paired(row, credential) \in Row
           /\ revoked(row) \in Row /\ cleared(row) \in Row
           /\ [row EXCEPT !.state = "connected", !.connected = TRUE] \in Row
           /\ [row EXCEPT !.state = "disconnected"] \in Row
    BY DEF Row, States, paired, revoked, cleared

(* The fields keep their kinds (BrowserHostRow, BrowserHostManager).       *)
LEMMA PairingTypeStep ==
    ASSUME PairingType, [PairingNext]_pairing
    PROVE  PairingType'
<1> USE DEF PairingType
<1>a. pairing.row \in Row /\ Withdrawn \in Numbers
    BY DEF Withdrawn, Numbers, Row
<1>b. ASSUME NEW s \in Handlers, NEW phase \in Phases, NEW record \in Row
      PROVE  s \in Nat /\ [phase |-> phase, record |-> record] \in Socket
    BY PairingAssumption DEF Handlers, Socket
<1>c. \A s \in Handlers : /\ pairing.socket[s] \in Socket
                          /\ pairing.socket[s].record \in Row
    BY DEF Socket
<1>1. CASE UNCHANGED pairing
    BY <1>1
<1>2. CASE pair_host
    <2>0. pairing.issued + 1 \in Nat
        OBVIOUS
    <2>1. \A credential \in Nat : paired(pairing.row, credential) \in Row
        BY <1>a, RowKinds
    <2>2. PICK row \in Row, over \in Numbers :
              pairing' = [pairing EXCEPT !.issued = pairing.issued + 1, !.row = row,
                             !.withdrawn = over, !.settled = FALSE]
        <3> DEFINE new == paired(pairing.row, pairing.issued + 1)
        <3>1. new \in Row
            BY <2>0, <2>1
        <3>2. pairing' = [pairing EXCEPT !.issued = pairing.issued + 1, !.row = new,
                             !.withdrawn = Withdrawn, !.settled = FALSE]
            BY <1>2 DEF pair_host
        <3> HIDE DEF new
        <3> QED
            BY <3>1, <3>2, <1>a
    <2> QED
        BY <2>0, <2>2
<1>3. CASE revoke_host
    <2>1. PICK row \in Row, over \in Numbers, quiet \in BOOLEAN :
              pairing' = [pairing EXCEPT !.row = row, !.live = 0, !.withdrawn = over,
                             !.settled = quiet]
        BY <1>3, <1>a, RowKinds DEF revoke_host, HandlerRuns
    <2> QED
        BY <2>1
<1>4. CASE HostGoes
    BY <1>4 DEF HostGoes
<1>5. CASE ServerRestarts
    <2> DEFINE after == [s \in Handlers |->
                   IF pairing.socket[s].phase = "free" THEN pairing.socket[s]
                   ELSE [pairing.socket[s] EXCEPT !.phase = "over"]]
    <2>1. after \in [Handlers -> Socket]
        BY DEF Socket, Phases
    <2>2. pairing' = [pairing EXCEPT !.live = 0, !.host = 0, !.row = cleared(pairing.row),
                         !.socket = after]
        BY <1>5 DEF ServerRestarts
    <2> HIDE DEF after
    <2> QED
        BY <2>1, <2>2, <1>a, RowKinds
<1>6. ASSUME NEW s \in Handlers, NEW credential \in 1..pairing.issued, NEW compatible \in BOOLEAN,
             authenticate(s, credential, compatible)
      PROVE  PairingType'
    <2> DEFINE mine == [phase |-> "admitted", record |-> pairing.row]
    <2> DEFINE gone == [pairing.socket[s] EXCEPT !.phase = "over"]
    <2>1. mine \in Socket /\ gone \in Socket /\ s \in Nat
        BY <1>a, <1>b, <1>c DEF Socket, Phases
    <2>2. \/ \E b \in BOOLEAN : pairing' = [pairing EXCEPT !.host = s,
                                   !.socket = [@ EXCEPT ![s] = mine], !.slipped = b]
          \/ pairing' = [pairing EXCEPT !.socket = [@ EXCEPT ![s] = gone]]
        BY <1>6 DEF authenticate
    <2>3. ASSUME NEW b \in BOOLEAN, pairing' = [pairing EXCEPT !.host = s,
                                      !.socket = [@ EXCEPT ![s] = mine], !.slipped = b]
          PROVE  PairingType'
        <3> HIDE DEF mine
        <3> QED
            BY <2>1, <2>3
    <2>4. CASE pairing' = [pairing EXCEPT !.socket = [@ EXCEPT ![s] = gone]]
        <3> HIDE DEF gone
        <3> QED
            BY <2>1, <2>4
    <2> QED
        BY <2>2, <2>3, <2>4
<1>7. ASSUME NEW s \in Handlers, attach(s)
      PROVE  PairingType'
    <2> DEFINE mine == [phase |-> "serving", record |-> [pairing.socket[s].record EXCEPT
                           !.state = "connected", !.connected = TRUE]]
    <2>1. mine \in Socket /\ s \in Nat
        BY <1>b, <1>c, RowKinds DEF Phases
    <2>2. pairing' = [pairing EXCEPT !.live = s, !.socket = [@ EXCEPT ![s] = mine]]
        BY <1>7 DEF attach
    <2> HIDE DEF mine
    <2> QED
        BY <2>1, <2>2
<1>8. ASSUME NEW s \in Handlers, SocketEnds(s)
      PROVE  PairingType'
    <2> DEFINE mine == [phase |-> "ending", record |-> [pairing.socket[s].record EXCEPT
                           !.state = "disconnected"]]
    <2>1. mine \in Socket
        BY <1>b, <1>c, RowKinds DEF Phases
    <2>2. pairing' = [pairing EXCEPT !.live = 0, !.socket = [@ EXCEPT ![s] = mine]]
        BY <1>8 DEF SocketEnds
    <2> HIDE DEF mine
    <2> QED
        BY <2>1, <2>2
<1>9. ASSUME NEW s \in Handlers, persist_snapshot(s)
      PROVE  PairingType'
    <2> DEFINE gone == [pairing.socket[s] EXCEPT !.phase = "over"]
    <2>1. gone \in Socket
        BY <1>c DEF Socket, Phases
    <2>2. PICK row \in Row : pairing' = [pairing EXCEPT !.row = row,
                                             !.socket = [@ EXCEPT ![s] = gone]]
        BY <1>9, <1>a, <1>c DEF persist_snapshot
    <2> HIDE DEF gone
    <2> QED
        BY <2>1, <2>2
<1> QED
    BY <1>1, <1>2, <1>3, <1>4, <1>5, <1>6, <1>7, <1>8, <1>9 DEF PairingNext

(* Neither the row nor a copy that will be written back gets hold of a     *)
(* withdrawn credential, so none authenticates (authenticate,              *)
(* _persist_snapshot).                                                     *)
LEMMA CopiesStep ==
    ASSUME PairingType, CopiesStand, ~pairing.slipped, [PairingNext]_pairing
    PROVE  CopiesStand' /\ ~pairing'.slipped
<1> USE DEF PairingType, Row, Socket, Numbers, CopiesStand, Standing, Running
<1>1. CASE UNCHANGED pairing
    BY <1>1
<1>2. CASE pair_host
    <2>1. /\ pairing'.issued = pairing.issued + 1
          /\ pairing'.row.credential = pairing.issued + 1
          /\ pairing'.withdrawn = Withdrawn
          /\ pairing'.socket = pairing.socket /\ pairing'.slipped = pairing.slipped
        BY <1>2 DEF pair_host, paired
    <2>2. \A w \in Withdrawn : w \in Nat /\ w # 0 /\ w <= pairing.issued
        BY DEF Withdrawn
    <2>3. CASE HandlerRuns
        BY <2>1, <2>2, <2>3 DEF Withdrawn
    <2>4. CASE ~HandlerRuns
        BY <2>1, <2>2, <2>4 DEF HandlerRuns
    <2> QED
        BY <2>3, <2>4
<1>3. CASE revoke_host
    <2>1. /\ pairing'.issued = pairing.issued /\ pairing'.row.credential = 0
          /\ pairing'.withdrawn = Withdrawn
          /\ pairing'.socket = pairing.socket /\ pairing'.slipped = pairing.slipped
        BY <1>3 DEF revoke_host, revoked
    <2>2. \A w \in Withdrawn : w \in Nat /\ w # 0 /\ w <= pairing.issued
        BY DEF Withdrawn
    <2>3. CASE HandlerRuns
        BY <2>1, <2>2, <2>3 DEF Withdrawn
    <2>4. CASE ~HandlerRuns
        BY <2>1, <2>2, <2>4 DEF HandlerRuns
    <2> QED
        BY <2>3, <2>4
<1>4. CASE HostGoes
    BY <1>4 DEF HostGoes
<1>5. CASE ServerRestarts
    <2>1. /\ pairing'.issued = pairing.issued /\ pairing'.withdrawn = pairing.withdrawn
          /\ pairing'.slipped = pairing.slipped
          /\ pairing'.row.credential = pairing.row.credential
        BY <1>5 DEF ServerRestarts, cleared
    <2>2. \A s \in Handlers : pairing'.socket[s].phase \in {"free", "over"}
        BY <1>5 DEF ServerRestarts
    <2> QED
        BY <2>1, <2>2
<1>6. ASSUME NEW s \in Handlers, NEW credential \in 1..pairing.issued, NEW compatible \in BOOLEAN,
             authenticate(s, credential, compatible)
      PROVE  CopiesStand' /\ ~pairing'.slipped
    <2>1. CASE compatible /\ authenticates(pairing.row, credential)
        <3>1. credential \notin pairing.withdrawn
            BY <2>1 DEF authenticates
        <3> QED
            BY <1>6, <2>1, <3>1 DEF authenticate
    <2>2. CASE ~(compatible /\ authenticates(pairing.row, credential))
        BY <1>6, <2>2 DEF authenticate
    <2> QED
        BY <2>1, <2>2
<1>7. ASSUME NEW s \in Handlers, NEW phase, NEW record, Running(s),
             record.credential = pairing.socket[s].record.credential,
             pairing'.issued = pairing.issued, pairing'.withdrawn = pairing.withdrawn,
             pairing'.slipped = pairing.slipped, pairing'.row = pairing.row,
             pairing'.socket = [pairing.socket EXCEPT ![s] = [phase |-> phase, record |-> record]]
      PROVE  CopiesStand' /\ ~pairing'.slipped
    BY <1>7
<1>x. ASSUME NEW s \in Handlers, attach(s)
       PROVE  CopiesStand' /\ ~pairing'.slipped
    <2> DEFINE record == [pairing.socket[s].record EXCEPT !.state = "connected", !.connected = TRUE]
    <2>1. record.credential = pairing.socket[s].record.credential /\ Running(s)
        BY <1>x DEF attach
    <2>2. pairing' = [pairing EXCEPT !.live = s,
                         !.socket = [@ EXCEPT ![s] = [phase |-> "serving", record |-> record]]]
        BY <1>x DEF attach
    <2> HIDE DEF record
    <2> QED
        BY <2>1, <2>2, <1>7
<1>y. ASSUME NEW s \in Handlers, SocketEnds(s)
       PROVE  CopiesStand' /\ ~pairing'.slipped
    <2> DEFINE record == [pairing.socket[s].record EXCEPT !.state = "disconnected"]
    <2>1. record.credential = pairing.socket[s].record.credential /\ Running(s)
        BY <1>y DEF SocketEnds
    <2>2. pairing' = [pairing EXCEPT !.live = 0,
                         !.socket = [@ EXCEPT ![s] = [phase |-> "ending", record |-> record]]]
        BY <1>y DEF SocketEnds
    <2> HIDE DEF record
    <2> QED
        BY <2>1, <2>2, <1>7
<1>8. ASSUME NEW s \in Handlers, persist_snapshot(s)
      PROVE  CopiesStand' /\ ~pairing'.slipped
    <2>1. /\ pairing'.issued = pairing.issued /\ pairing'.withdrawn = pairing.withdrawn
          /\ pairing'.slipped = pairing.slipped
          /\ pairing'.row \in {pairing.row, pairing.socket[s].record}
        BY <1>8 DEF persist_snapshot
    <2>2. Running(s) /\ pairing'.socket[s].phase = "over"
        BY <1>8 DEF persist_snapshot
    <2>3. \A t \in Handlers \ {s} : pairing'.socket[t] = pairing.socket[t]
        BY <1>8 DEF persist_snapshot
    <2> QED
        BY <2>1, <2>2, <2>3
<1> QED
    BY <1>1, <1>2, <1>3, <1>4, <1>5, <1>6, <1>x, <1>y, <1>8 DEF PairingNext

(* While a revocation that found no handler stands, nothing authenticates, *)
(* so nothing is there to write the row back (revoke_host).                *)
LEMMA SettledStep ==
    ASSUME PairingType, SettledIsQuiet, [PairingNext]_pairing
    PROVE  SettledIsQuiet'
<1> USE DEF PairingType, Row, Socket, SettledIsQuiet, Running
<1>1. CASE UNCHANGED pairing
    BY <1>1
<1>2. CASE pair_host
    BY <1>2 DEF pair_host
<1>3. CASE revoke_host
    <2>1. /\ pairing'.settled = ~HandlerRuns /\ pairing'.live = 0
          /\ pairing'.row.state = "revoked" /\ pairing'.row.credential = 0
          /\ pairing'.socket = pairing.socket
        BY <1>3 DEF revoke_host, revoked
    <2> QED
        BY <2>1 DEF HandlerRuns
<1>4. CASE HostGoes
    BY <1>4 DEF HostGoes
<1>5. CASE ServerRestarts
    <2>1. /\ pairing'.settled = pairing.settled /\ pairing'.live = 0
          /\ pairing'.row = cleared(pairing.row)
        BY <1>5 DEF ServerRestarts
    <2>2. \A s \in Handlers : pairing'.socket[s].phase \in {"free", "over"}
        BY <1>5 DEF ServerRestarts
    <2> QED
        BY <2>1, <2>2 DEF cleared
<1>6. ASSUME NEW s \in Handlers, NEW credential \in 1..pairing.issued, NEW compatible \in BOOLEAN,
             authenticate(s, credential, compatible)
      PROVE  SettledIsQuiet'
    <2>1. CASE compatible /\ authenticates(pairing.row, credential)
        BY <1>6, <2>1 DEF authenticate, authenticates
    <2>2. CASE ~(compatible /\ authenticates(pairing.row, credential))
        BY <1>6, <2>2 DEF authenticate
    <2> QED
        BY <2>1, <2>2
<1>7. ASSUME NEW s \in Handlers, attach(s) \/ SocketEnds(s) \/ persist_snapshot(s)
      PROVE  SettledIsQuiet'
    <2>1. Running(s) /\ pairing'.settled = pairing.settled
        BY <1>7 DEF attach, SocketEnds, persist_snapshot
    <2> QED
        BY <2>1
<1> QED
    BY <1>1, <1>2, <1>3, <1>4, <1>5, <1>6, <1>7 DEF PairingNext

(* The strengthening holds always.                                         *)
THEOREM PairingInvAlways == PairingSpec => []PairingInv
<1>1. PairingInit => PairingInv
    BY DEF PairingInit, PairingInv, PairingType, CopiesStand, SettledIsQuiet, Standing, Running,
           Socket, Numbers, Row, States, Phases, NotPaired, NoSocket
<1>2. PairingInv /\ [PairingNext]_pairing => PairingInv'
    BY PairingTypeStep, CopiesStep, SettledStep DEF PairingInv
<1> QED
    BY <1>1, <1>2, PTL DEF PairingSpec

(* A credential that was revoked or replaced while no handler of its host  *)
(* ran is never let in again, and a revoked host is shown as revoked,      *)
(* however many sockets come and go (pair, revoke, authenticate,           *)
(* list_hosts).                                                            *)
THEOREM WithdrawnStaysWithdrawnAlways == PairingSpec => []WithdrawnStaysWithdrawn
<1>1. PairingInv => WithdrawnStaysWithdrawn
    BY DEF PairingInv, SettledIsQuiet, WithdrawnStaysWithdrawn, shown, offline_state
<1> QED
    BY <1>1, PairingInvAlways, PTL

-----------------------------------------------------------------------------
(* The door: what the table of the throttle says of the guesses            *)

Secrets == {settings.secret : settings \in AllSettings}
Token == [key : Secrets, expires : Nat, opened : Secrets]
Entry == [client : Clients, count : Nat \ {0}, until : Int]

\* An entry holds the number of a client's guesses and the lockout after the last one.
Accounts(entry, guesses, now) ==
    LET n == Len(guesses)
    IN  n > 0 /\ entry.count = n /\ entry.until = guesses[n] + Penalty(n) /\ guesses[n] <= now

\* The table has one entry for each client that guessed wrong, and no other.
Table(failures, row, now) ==
    /\ failures \in Seq(Entry) /\ row \in [Clients -> Seq(Nat)]
    /\ \A i, j \in 1..Len(failures) : failures[i].client = failures[j].client => i = j
    /\ \A i \in 1..Len(failures) : Accounts(failures[i], row[failures[i].client], now)
    /\ \A c \in Clients : row[c] = << >> \/ \E i \in 1..Len(failures) : failures[i].client = c

\* Beyond the free ones, a guess is followed by another no sooner than its lockout ends.
Slowed(guesses) ==
    \A k \in 1..(Len(guesses) - 1) : k > FreeAttempts => guesses[k + 1] - guesses[k] >= Penalty(k)

DoorInv ==
    /\ door \in [settings : AllSettings, now : Nat, tokens : Seq(Token),
                 jar : [session : Nat, csrf : Nat], failures : Seq(Entry), starts : Nat,
                 row : [Clients -> Seq(Nat)]]
    /\ MayServe(door.settings)
    /\ \A t \in 1..Len(door.tokens) : door.tokens[t].key = door.tokens[t].opened
    /\ door.jar.session = door.jar.csrf
    /\ Table(door.failures, door.row, door.now)
    /\ \A c \in Clients : Slowed(door.row[c])

LEMMA PenaltyIsInt == ASSUME NEW n \in Nat PROVE Penalty(n) \in Int
<1>1. CASE n > FreeAttempts
  <2>1. n - FreeAttempts - 1 \in Nat
    BY <1>1, LoginAssumption
  <2>2. \A m \in Nat : 2^m \in Int
    BY SMT
  <2>3. Doubled(n - FreeAttempts - 1) \in Int
    BY <2>1, <2>2, LoginAssumption DEF Doubled
  <2> HIDE DEF Doubled
  <2> QED BY <2>3, LoginAssumption DEF Penalty, Lesser
<1>2. CASE ~ (n > FreeAttempts)
  BY <1>2 DEF Penalty
<1> QED BY <1>1, <1>2

\* A client goes from the table: after a login, or as the oldest of a table that is full.
LEMMA EntryGoes ==
    ASSUME NEW failures, NEW row, NEW now \in Nat, Table(failures, row, now),
           NEW p \in 1..Len(failures), NEW rest \in Seq(Entry),
           Len(rest) = Len(failures) - 1,
           \A i \in 1..Len(rest) : rest[i] = IF i < p THEN failures[i] ELSE failures[i + 1]
    PROVE  /\ Table(rest, [row EXCEPT ![failures[p].client] = << >>], now)
           /\ \A i \in 1..Len(rest) : rest[i].client # failures[p].client
<1>0. /\ Len(failures) \in Nat /\ Len(rest) \in Nat
      /\ \A i \in 1..Len(failures) : failures[i] \in Entry /\ failures[i].client \in Clients
      /\ \A i, j \in 1..Len(failures) : failures[i].client = failures[j].client => i = j
  <2>1. /\ failures \in Seq(Entry)
        /\ \A i, j \in 1..Len(failures) : failures[i].client = failures[j].client => i = j
    BY DEF Table
  <2>2. Len(failures) \in Nat /\ Len(rest) \in Nat
    BY <2>1, LenProperties
  <2>3. \A i \in 1..Len(failures) : failures[i] \in Entry
    BY <2>1, ElementOfSeq
  <2> QED BY <2>1, <2>2, <2>3 DEF Entry
<1>1. \A i \in 1..Len(rest) : \E j \in 1..Len(failures) :
        j # p /\ rest[i] = failures[j] /\ j = IF i < p THEN i ELSE i + 1
  <2>1. ASSUME NEW i \in 1..Len(rest)
        PROVE  \E j \in 1..Len(failures) :
                 j # p /\ rest[i] = failures[j] /\ j = IF i < p THEN i ELSE i + 1
    BY <1>0
  <2> QED BY <2>1
<1>2. \A i \in 1..Len(rest) : rest[i].client # failures[p].client
  BY <1>0, <1>1
<1>3. \A i, j \in 1..Len(rest) : rest[i].client = rest[j].client => i = j
  BY <1>0, <1>1, SMTT(30)
<1>4. \A j \in 1..Len(failures) \ {p} : \E i \in 1..Len(rest) : rest[i] = failures[j]
  <2>1. ASSUME NEW j \in 1..Len(failures) \ {p}
        PROVE  \E i \in 1..Len(rest) : rest[i] = failures[j]
    <3>1. CASE j < p
      BY <1>0, <3>1
    <3>2. CASE j > p
      <4>1. j - 1 \in 1..Len(rest) /\ ~ (j - 1 < p) /\ (j - 1) + 1 = j
        BY <1>0, <3>2
      <4> QED BY <4>1
    <3> QED BY <1>0, <3>1, <3>2
  <2> QED BY <2>1
<1> DEFINE after == [row EXCEPT ![failures[p].client] = << >>]
<1>5. /\ after \in [Clients -> Seq(Nat)] /\ after[failures[p].client] = << >>
      /\ \A c \in Clients \ {failures[p].client} : after[c] = row[c]
  BY <1>0, EmptySeq DEF Table
<1> HIDE DEF after
<1>6. \A i \in 1..Len(rest) : Accounts(rest[i], after[rest[i].client], now)
  BY <1>0, <1>1, <1>2, <1>5, SMTT(30) DEF Table
<1>7. \A c \in Clients : after[c] = << >> \/ \E i \in 1..Len(rest) : rest[i].client = c
  <2>1. ASSUME NEW c \in Clients, after[c] # << >>
        PROVE  \E i \in 1..Len(rest) : rest[i].client = c
    <3>1. c # failures[p].client /\ row[c] # << >>
      BY <1>5, <2>1
    <3>2. PICK j \in 1..Len(failures) : failures[j].client = c
      BY <3>1 DEF Table
    <3>3. j # p
      BY <3>1, <3>2
    <3> QED BY <1>4, <3>2, <3>3
  <2> QED BY <2>1
<1> QED BY <1>2, <1>3, <1>5, <1>6, <1>7 DEF Table, after

LEMMA RemoveAtProperties ==
    ASSUME NEW S, NEW s \in Seq(S), NEW p \in 1..Len(s)
    PROVE  /\ RemoveAt(s, p) \in Seq(S) /\ Len(RemoveAt(s, p)) = Len(s) - 1
           /\ \A i \in 1..(Len(s) - 1) : RemoveAt(s, p)[i] = IF i < p THEN s[i] ELSE s[i + 1]
<1> DEFINE a == SubSeq(s, 1, p - 1)
           b == SubSeq(s, p + 1, Len(s))
<1>0. Len(s) \in Nat /\ \A i \in 1..Len(s) : s[i] \in S
  BY ElementOfSeq, LenProperties
<1>1. /\ a \in Seq(S) /\ Len(a) = p - 1
      /\ \A i \in 1..(p - 1) : a[i] = s[i]
  BY <1>0, SubSeqProperties
<1>2. /\ b \in Seq(S) /\ Len(b) = Len(s) - p
      /\ \A i \in 1..(Len(s) - p) : b[i] = s[p + i]
  BY <1>0, SubSeqProperties
<1> HIDE DEF a, b
<1>3. /\ a \o b \in Seq(S) /\ Len(a \o b) = Len(a) + Len(b)
      /\ \A i \in 1..(Len(a) + Len(b)) : (a \o b)[i] = IF i <= Len(a) THEN a[i] ELSE b[i - Len(a)]
  BY <1>1, <1>2, ConcatProperties
<1>4. RemoveAt(s, p) = a \o b
  BY DEF RemoveAt, a, b
<1>5. ASSUME NEW i \in 1..(Len(s) - 1)
      PROVE  (a \o b)[i] = IF i < p THEN s[i] ELSE s[i + 1]
  <2>1. CASE i < p
    BY <1>0, <1>1, <1>2, <1>3, <2>1
  <2>2. CASE ~ (i < p)
    <3>1. i - (p - 1) \in 1..(Len(s) - p) /\ p + (i - (p - 1)) = i + 1
      BY <1>0, <2>2
    <3>2. (a \o b)[i] = b[i - (p - 1)]
      BY <1>0, <1>1, <1>2, <1>3, <2>2
    <3>3. b[i - (p - 1)] = s[p + (i - (p - 1))]
      BY <1>2, <3>1
    <3> QED BY <2>2, <3>1, <3>2, <3>3
  <2> QED BY <2>1, <2>2
<1>6. Len(a) + Len(b) = Len(s) - 1
  BY <1>0, <1>1, <1>2
<1>7. RemoveAt(s, p) \in Seq(S) /\ Len(RemoveAt(s, p)) = Len(s) - 1
  BY <1>3, <1>4, <1>6
<1>8. \A i \in 1..(Len(s) - 1) : RemoveAt(s, p)[i] = IF i < p THEN s[i] ELSE s[i + 1]
  BY <1>4, <1>5
<1> QED BY <1>7, <1>8

\* The entry for one more guess, made now.
LEMMA GuessAccounted ==
    ASSUME NEW guesses \in Seq(Nat), NEW now \in Nat, NEW client \in Clients,
           NEW entry, entry = [client |-> client, count |-> Len(guesses) + 1,
                               until |-> now + Penalty(Len(guesses) + 1)]
    PROVE  entry \in Entry /\ Accounts(entry, Append(guesses, now), now)
<1>1. /\ Len(guesses) + 1 \in Nat \ {0} /\ Len(Append(guesses, now)) = Len(guesses) + 1
      /\ Append(guesses, now)[Len(guesses) + 1] = now
  BY LenProperties, AppendProperties
<1>2. Penalty(Len(guesses) + 1) \in Int
  BY <1>1, PenaltyIsInt
<1> QED BY <1>1, <1>2 DEF Entry, Accounts

LEMMA GuessSlowed ==
    ASSUME NEW guesses \in Seq(Nat), NEW now \in Nat, Slowed(guesses),
           guesses # << >> => guesses[Len(guesses)] + Penalty(Len(guesses)) <= now
    PROVE  Slowed(Append(guesses, now))
<1>1. /\ Len(guesses) \in Nat /\ Len(Append(guesses, now)) = Len(guesses) + 1
      /\ Append(guesses, now)[Len(guesses) + 1] = now
      /\ \A k \in 1..Len(guesses) : Append(guesses, now)[k] = guesses[k] /\ guesses[k] \in Nat
      /\ guesses = << >> => Len(guesses) = 0
  BY LenProperties, AppendProperties, ElementOfSeq
<1>2. ASSUME NEW k \in 1..Len(guesses), k > FreeAttempts
      PROVE  Append(guesses, now)[k + 1] - Append(guesses, now)[k] >= Penalty(k)
  <2>0. Penalty(k) \in Int
    BY <1>1, PenaltyIsInt
  <2>1. CASE k < Len(guesses)
    BY <1>1, <1>2, <2>1 DEF Slowed
  <2>2. CASE k = Len(guesses)
    BY <1>1, <2>0, <2>2
  <2> QED BY <1>1, <2>1, <2>2
<1> QED BY <1>1, <1>2 DEF Slowed

LEMMA EntryComes ==
    ASSUME NEW failures, NEW row, NEW now \in Nat, Table(failures, row, now),
           NEW client \in Clients, \A i \in 1..Len(failures) : failures[i].client # client,
           NEW entry, entry = [client |-> client, count |-> 1, until |-> now + Penalty(1)]
    PROVE  Table(Append(failures, entry), [row EXCEPT ![client] = Append(@, now)], now)
<1>0. /\ failures \in Seq(Entry) /\ row \in [Clients -> Seq(Nat)]
      /\ row[client] = << >> /\ Len(<< >>) = 0 /\ << >> \in Seq(Nat)
      /\ Len(failures) \in Nat
      /\ \A i \in 1..Len(failures) : failures[i] \in Entry
  <2>1. failures \in Seq(Entry) /\ row \in [Clients -> Seq(Nat)] /\ row[client] = << >>
    BY DEF Table
  <2>2. Len(failures) \in Nat /\ \A i \in 1..Len(failures) : failures[i] \in Entry
    BY <2>1, LenProperties, ElementOfSeq
  <2> QED BY <2>1, <2>2, EmptySeq
<1>1. entry \in Entry /\ Accounts(entry, Append(<< >>, now), now) /\ entry.client = client
  <2> DEFINE none == << >>
  <2>1. none \in Seq(Nat) /\ Len(none) = 0
    BY <1>0
  <2> HIDE DEF none
  <2>2. entry = [client |-> client, count |-> Len(none) + 1,
                 until |-> now + Penalty(Len(none) + 1)]
    BY <2>1
  <2>3. entry \in Entry /\ Accounts(entry, Append(none, now), now)
    BY <2>1, <2>2, GuessAccounted
  <2> QED BY <2>3 DEF none
<1> DEFINE more == Append(failures, entry)
           after == [row EXCEPT ![client] = Append(@, now)]
<1>2. /\ more \in Seq(Entry) /\ Len(more) = Len(failures) + 1
      /\ \A i \in 1..Len(failures) : more[i] = failures[i]
      /\ more[Len(failures) + 1] = entry
  BY <1>0, <1>1, AppendProperties
<1>3. /\ after \in [Clients -> Seq(Nat)] /\ after[client] = Append(<< >>, now)
      /\ \A c \in Clients \ {client} : after[c] = row[c]
  BY <1>0, AppendProperties
<1> HIDE DEF more, after
<1>4. \A i \in 1..Len(more) :
        \/ i \in 1..Len(failures) /\ more[i] = failures[i] /\ more[i].client \in Clients \ {client}
        \/ i = Len(failures) + 1 /\ more[i] = entry
  <2>1. \A i \in 1..Len(more) : i \in 1..Len(failures) \/ i = Len(failures) + 1
    BY <1>0, <1>2
  <2>2. \A i \in 1..Len(failures) : failures[i].client \in Clients \ {client}
    BY <1>0 DEF Entry
  <2> QED BY <1>2, <2>1, <2>2
<1>5. ASSUME NEW i \in 1..Len(more), NEW j \in 1..Len(more), more[i].client = more[j].client
      PROVE  i = j
  <2>1. \A k, l \in 1..Len(failures) : failures[k].client = failures[l].client => k = l
    BY DEF Table
  <2> QED BY <1>1, <1>4, <1>5, <2>1
<1>6. \A i \in 1..Len(more) : Accounts(more[i], after[more[i].client], now)
  <2>1. ASSUME NEW i \in 1..Len(failures), more[i] = failures[i],
               more[i].client \in Clients \ {client}
        PROVE  Accounts(more[i], after[more[i].client], now)
    <3>1. Accounts(failures[i], row[failures[i].client], now)
      BY DEF Table
    <3>2. after[more[i].client] = row[failures[i].client]
      BY <1>3, <2>1
    <3> QED BY <2>1, <3>1, <3>2
  <2>2. ASSUME NEW i, more[i] = entry PROVE Accounts(more[i], after[more[i].client], now)
    BY <1>1, <1>3, <2>2
  <2> QED BY <1>4, <2>1, <2>2
<1>7. \A c \in Clients : after[c] = << >> \/ \E i \in 1..Len(more) : more[i].client = c
  <2>1. ASSUME NEW c \in Clients \ {client}, after[c] # << >>
        PROVE  \E i \in 1..Len(more) : more[i].client = c
    <3>1. PICK i \in 1..Len(failures) : failures[i].client = c
      BY <1>3, <2>1 DEF Table
    <3> QED BY <1>0, <1>2, <3>1
  <2>2. Len(more) \in 1..Len(more) /\ more[Len(more)].client = client
    BY <1>0, <1>1, <1>2
  <2> QED BY <2>1, <2>2
<1> QED BY <1>2, <1>3, <1>5, <1>6, <1>7 DEF Table, more, after

LEMMA EntryChanges ==
    ASSUME NEW failures, NEW row, NEW now \in Nat, Table(failures, row, now),
           NEW p \in 1..Len(failures), NEW client \in Clients, failures[p].client = client,
           NEW entry, entry = [client |-> client, count |-> Len(row[client]) + 1,
                               until |-> now + Penalty(Len(row[client]) + 1)]
    PROVE  Table([failures EXCEPT ![p] = entry], [row EXCEPT ![client] = Append(@, now)], now)
<1>0. /\ failures \in Seq(Entry) /\ row \in [Clients -> Seq(Nat)] /\ row[client] \in Seq(Nat)
      /\ \A i \in 1..Len(failures) : failures[i] \in Entry
      /\ \A i, j \in 1..Len(failures) : failures[i].client = failures[j].client => i = j
  BY ElementOfSeq DEF Table
<1>1. entry \in Entry /\ Accounts(entry, Append(row[client], now), now) /\ entry.client = client
  BY <1>0, GuessAccounted
<1> DEFINE changed == [failures EXCEPT ![p] = entry]
           after == [row EXCEPT ![client] = Append(@, now)]
<1>2. /\ changed \in Seq(Entry) /\ Len(changed) = Len(failures)
      /\ \A i \in 1..Len(failures) : changed[i] = IF i = p THEN entry ELSE failures[i]
  BY <1>0, <1>1, ExceptSeq
<1>3. /\ after \in [Clients -> Seq(Nat)] /\ after[client] = Append(row[client], now)
      /\ \A c \in Clients \ {client} : after[c] = row[c]
  BY <1>0, AppendProperties
<1> HIDE DEF changed, after
<1>4. \A i \in 1..Len(changed) : changed[i].client = failures[i].client
  BY <1>1, <1>2
<1>5. \A i \in 1..Len(changed) : Accounts(changed[i], after[changed[i].client], now)
  <2>1. ASSUME NEW i \in 1..Len(changed), i # p
        PROVE  Accounts(changed[i], after[changed[i].client], now)
    <3>1. changed[i] = failures[i] /\ failures[i].client \in Clients \ {client}
      BY <1>0, <1>2, <2>1 DEF Entry
    <3> QED BY <1>2, <1>3, <3>1 DEF Table
  <2> QED BY <1>1, <1>2, <1>3, <2>1
<1>6. \A c \in Clients : after[c] = << >> \/ \E i \in 1..Len(changed) : changed[i].client = c
  <2>1. ASSUME NEW c \in Clients, after[c] # << >>
        PROVE  \E i \in 1..Len(failures) : failures[i].client = c
    BY <1>3, <2>1 DEF Table
  <2> QED BY <1>2, <1>4, <2>1
<1> QED BY <1>0, <1>2, <1>3, <1>4, <1>5, <1>6 DEF Table, changed, after

-----------------------------------------------------------------------------
(* The door: its steps                                                     *)

LEMMA ThrottleFrame ==
    ASSUME DoorInv, NEW failures, NEW row,
           door' = [door EXCEPT !.failures = failures, !.row = row],
           Table(failures, row, door.now), \A c \in Clients : Slowed(row[c])
    PROVE  DoorInv'
<1>1. failures \in Seq(Entry) /\ row \in [Clients -> Seq(Nat)]
  BY DEF Table
<1>2. /\ door'.settings = door.settings /\ door'.now = door.now /\ door'.tokens = door.tokens
      /\ door'.jar = door.jar /\ door'.failures = failures /\ door'.row = row
  BY DEF DoorInv
<1>3. door' \in [settings : AllSettings, now : Nat, tokens : Seq(Token),
                 jar : [session : Nat, csrf : Nat], failures : Seq(Entry), starts : Nat,
                 row : [Clients -> Seq(Nat)]]
  BY <1>1 DEF DoorInv
<1> QED BY <1>2, <1>3 DEF DoorInv, MayServe

\* Where the table has a client, and what it has of it.
LEMMA PlaceProperties ==
    ASSUME DoorInv, NEW client \in Clients
    PROVE  IF Entries(client) = {}
           THEN /\ CountOf(client) = 0 /\ door.row[client] = << >>
                /\ \A i \in 1..Len(door.failures) : door.failures[i].client # client
           ELSE /\ PlaceOf(client) \in 1..Len(door.failures)
                /\ door.failures[PlaceOf(client)].client = client
                /\ CountOf(client) = Len(door.row[client]) /\ Len(door.row[client]) \in Nat \ {0}
                /\ door.failures[PlaceOf(client)].until =
                      door.row[client][Len(door.row[client])] + Penalty(Len(door.row[client]))
                /\ door.row[client][Len(door.row[client])] \in 0..door.now
<1>0. Table(door.failures, door.row, door.now) /\ door.failures \in Seq(Entry)
  BY DEF DoorInv
<1>1. Entries(client) = {i \in 1..Len(door.failures) : door.failures[i].client = client}
  BY <1>0, LenProperties DEF Entries
<1>2. CASE Entries(client) = {}
  BY <1>0, <1>1, <1>2 DEF Table, CountOf
<1>3. CASE Entries(client) # {}
  <2>1. PlaceOf(client) \in Entries(client)
    BY <1>3 DEF PlaceOf
  <2>2. /\ PlaceOf(client) \in 1..Len(door.failures)
        /\ door.failures[PlaceOf(client)].client = client
    BY <1>1, <2>1
  <2>3. Accounts(door.failures[PlaceOf(client)], door.row[client], door.now)
    BY <1>0, <2>2 DEF Table
  <2>4. /\ door.row[client] \in Seq(Nat) /\ Len(door.row[client]) \in Nat \ {0}
        /\ CountOf(client) = Len(door.row[client])
    <3>1. door.row[client] \in Seq(Nat)
      BY DEF DoorInv
    <3>2. Len(door.row[client]) \in Nat
      BY <3>1, LenProperties
    <3> QED BY <1>3, <2>3, <3>1, <3>2 DEF CountOf, Accounts
  <2>5. door.row[client][Len(door.row[client])] \in Nat
    BY <2>4, ElementOfSeq
  <2> QED BY <1>3, <2>2, <2>3, <2>4, <2>5 DEF Accounts, DoorInv
<1> QED BY <1>2, <1>3

LEMMA TailTakesTheOldest ==
    ASSUME DoorInv, door.failures # << >>
    PROVE  LET row == [door.row EXCEPT ![Head(door.failures).client] = << >>]
           IN  /\ Table(Tail(door.failures), row, door.now)
               /\ Head(door.failures).client \in Clients
               /\ \A c \in Clients : Slowed(row[c])
<1>1. Table(door.failures, door.row, door.now) /\ door.failures \in Seq(Entry) /\ door.now \in Nat
  BY DEF DoorInv
<1>2. /\ Tail(door.failures) \in Seq(Entry) /\ Head(door.failures) = door.failures[1]
      /\ Head(door.failures) \in Entry
      /\ Len(Tail(door.failures)) = Len(door.failures) - 1 /\ 1 \in 1..Len(door.failures)
      /\ \A i \in 1..Len(Tail(door.failures)) : Tail(door.failures)[i] = door.failures[i + 1]
  BY <1>1, HeadTailProperties, LenProperties, EmptySeq
<1>3. \A i \in 1..Len(Tail(door.failures)) :
        Tail(door.failures)[i] = IF i < 1 THEN door.failures[i] ELSE door.failures[i + 1]
  BY <1>1, <1>2, LenProperties
<1>4. Table(Tail(door.failures), [door.row EXCEPT ![Head(door.failures).client] = << >>], door.now)
  BY <1>1, <1>2, <1>3, EntryGoes
<1>5. Head(door.failures).client \in Clients
  BY <1>2 DEF Entry
<1>6. Slowed(<< >>)
  BY EmptySeq DEF Slowed
<1> QED BY <1>4, <1>5, <1>6 DEF DoorInv

LEMMA FailureStep ==
    ASSUME DoorInv, NEW client \in Clients, retry_after(client) = 0, record_failure_of(client)
    PROVE  DoorInv'
<1> DEFINE entry == [client |-> client, count |-> CountOf(client) + 1,
                     until |-> door.now + Penalty(CountOf(client) + 1)]
<1>0. /\ Table(door.failures, door.row, door.now) /\ door.now \in Nat
      /\ door.failures \in Seq(Entry) /\ door.row \in [Clients -> Seq(Nat)]
      /\ \A c \in Clients : Slowed(door.row[c])
      /\ Len(door.failures) \in Nat
  BY LenProperties DEF DoorInv
<1>1. CASE Entries(client) # {}
  <2> DEFINE row == [door.row EXCEPT ![client] = Append(@, door.now)]
             failures == [door.failures EXCEPT ![PlaceOf(client)] = entry]
  <2>1. /\ PlaceOf(client) \in 1..Len(door.failures)
        /\ door.failures[PlaceOf(client)].client = client
        /\ CountOf(client) = Len(door.row[client])
    BY <1>1, PlaceProperties
  <2>2. Table(failures, row, door.now)
    BY <1>0, <2>1, EntryChanges
  <2>3. door.row[client][Len(door.row[client])] + Penalty(Len(door.row[client])) <= door.now
    <3>1. /\ door.row[client][Len(door.row[client])] \in 0..door.now
          /\ Len(door.row[client]) \in Nat
          /\ door.failures[PlaceOf(client)].until =
                door.row[client][Len(door.row[client])] + Penalty(Len(door.row[client]))
      BY <1>1, PlaceProperties
    <3>2. Penalty(Len(door.row[client])) \in Int
      BY <3>1, PenaltyIsInt
    <3>3. door.failures[PlaceOf(client)].until \in Int
      BY <1>0, <3>1, <3>2
    <3>4. door.failures[PlaceOf(client)].until <= door.now
      BY <1>0, <1>1, <3>3 DEF retry_after
    <3> QED BY <3>1, <3>4
  <2>4. Slowed(Append(door.row[client], door.now))
    BY <1>0, <2>3, GuessSlowed
  <2>5. \A c \in Clients : Slowed(row[c])
    BY <1>0, <2>4
  <2>6. door' = [door EXCEPT !.failures = failures, !.row = row]
    <3>1. row = [c \in Clients |-> IF c \in {} THEN << >>
                                   ELSE IF c = client THEN Append(door.row[c], door.now)
                                   ELSE door.row[c]]
      BY <1>0
    <3> QED BY <1>1, <3>1 DEF record_failure_of
  <2> HIDE DEF row, failures
  <2> QED BY <2>2, <2>5, <2>6, ThrottleFrame
<1>2. ASSUME Entries(client) = {}, NEW kept, NEW before,
             Table(kept, before, door.now), \A i \in 1..Len(kept) : kept[i].client # client,
             \A c \in Clients : Slowed(before[c]),
             door'= [door EXCEPT !.failures = Append(kept, entry),
                                 !.row = [before EXCEPT ![client] = Append(@, door.now)]]
      PROVE  DoorInv'
  <2> DEFINE row == [before EXCEPT ![client] = Append(@, door.now)]
  <2>1. entry = [client |-> client, count |-> 1, until |-> door.now + Penalty(1)]
    BY <1>2, PlaceProperties
  <2>2. Table(Append(kept, entry), row, door.now)
    BY <1>0, <1>2, <2>1, EntryComes
  <2>3. before \in [Clients -> Seq(Nat)] /\ before[client] = << >>
    BY <1>2 DEF Table
  <2>4. Slowed(Append(before[client], door.now))
    BY <1>0, <1>2, <2>3, GuessSlowed
  <2>5. \A c \in Clients : Slowed(row[c])
    BY <1>2, <2>3, <2>4
  <2> HIDE DEF row, entry
  <2> QED BY <1>2, <2>2, <2>5, ThrottleFrame DEF row
<1>3. CASE Entries(client) = {} /\ ~ (Len(door.failures) >= MaxTracked)
  <2>1. \A i \in 1..Len(door.failures) : door.failures[i].client # client
    BY <1>3, PlaceProperties
  <2>2. [c \in Clients |-> IF c \in {} THEN << >>
                           ELSE IF c = client THEN Append(door.row[c], door.now)
                           ELSE door.row[c]]
        = [door.row EXCEPT ![client] = Append(@, door.now)]
    BY <1>0
  <2>3. door' = [door EXCEPT !.failures = Append(door.failures, entry),
                             !.row = [door.row EXCEPT ![client] = Append(@, door.now)]]
    BY <1>3, <2>2 DEF record_failure_of
  <2> HIDE DEF entry
  <2> QED BY <1>0, <1>2, <1>3, <2>1, <2>3
<1>4. CASE Entries(client) = {} /\ Len(door.failures) >= MaxTracked
  <2> DEFINE oldest == Head(door.failures).client
             kept == Tail(door.failures)
             before == [door.row EXCEPT ![oldest] = << >>]
  <2>1. door.failures # << >>
    BY <1>4, LoginAssumption, EmptySeq
  <2>2. /\ Table(kept, before, door.now) /\ \A c \in Clients : Slowed(before[c])
        /\ oldest \in Clients
    BY <2>1, TailTakesTheOldest
  <2>3. /\ \A i \in 1..Len(door.failures) : door.failures[i].client # client
        /\ oldest # client /\ \A i \in 1..Len(kept) : kept[i].client # client
    <3>1. \A i \in 1..Len(door.failures) : door.failures[i].client # client
      BY <1>4, PlaceProperties
    <3>2. /\ Head(door.failures) = door.failures[1] /\ 1 \in 1..Len(door.failures)
          /\ Len(kept) = Len(door.failures) - 1
          /\ \A i \in 1..Len(kept) : kept[i] = door.failures[i + 1]
      BY <1>0, <2>1, HeadTailProperties, EmptySeq
    <3>3. \A i \in 1..Len(kept) : i + 1 \in 1..Len(door.failures)
      BY <1>0, <3>2
    <3> QED BY <3>1, <3>2, <3>3
  <2>4. [c \in Clients |-> IF c \in {oldest} THEN << >>
                           ELSE IF c = client THEN Append(door.row[c], door.now)
                           ELSE door.row[c]]
        = [before EXCEPT ![client] = Append(@, door.now)]
    BY <1>0, <2>3
  <2>5. door' = [door EXCEPT !.failures = Append(kept, entry),
                             !.row = [before EXCEPT ![client] = Append(@, door.now)]]
    BY <1>4, <2>4 DEF record_failure_of
  <2> HIDE DEF entry, before, kept
  <2> QED BY <1>2, <1>4, <2>2, <2>3, <2>5
<1> QED BY <1>1, <1>3, <1>4

LEMMA SuccessTakesTheEntry ==
    ASSUME DoorInv, NEW client \in Clients
    PROVE  LET row == [door.row EXCEPT ![client] = << >>]
           IN  /\ Table(record_success(client), row, door.now)
               /\ \A c \in Clients : Slowed(row[c])
<1>0. /\ Table(door.failures, door.row, door.now) /\ door.now \in Nat
      /\ door.failures \in Seq(Entry) /\ door.row \in [Clients -> Seq(Nat)]
      /\ \A c \in Clients : Slowed(door.row[c])
  BY DEF DoorInv
<1>1. \A c \in Clients : Slowed([door.row EXCEPT ![client] = << >>][c])
  <2>1. Slowed(<< >>)
    BY EmptySeq DEF Slowed
  <2> QED BY <1>0, <2>1
<1>2. CASE Entries(client) = {}
  <2>1. [door.row EXCEPT ![client] = << >>] = door.row
    BY <1>0, <1>2, PlaceProperties
  <2> QED BY <1>0, <1>1, <1>2, <2>1 DEF record_success
<1>3. CASE Entries(client) # {}
  <2> DEFINE rest == RemoveAt(door.failures, PlaceOf(client))
  <2>1. /\ PlaceOf(client) \in 1..Len(door.failures)
        /\ door.failures[PlaceOf(client)].client = client
    BY <1>3, PlaceProperties
  <2>2. /\ rest \in Seq(Entry) /\ Len(rest) = Len(door.failures) - 1
        /\ \A i \in 1..Len(rest) :
             rest[i] = IF i < PlaceOf(client) THEN door.failures[i] ELSE door.failures[i + 1]
    BY <1>0, <2>1, RemoveAtProperties
  <2>3. record_success(client) = rest
    BY <1>3 DEF record_success
  <2> HIDE DEF rest
  <2>4. Table(rest, [door.row EXCEPT ![client] = << >>], door.now)
    BY <1>0, <2>1, <2>2, EntryGoes
  <2> QED BY <1>1, <2>3, <2>4
<1> QED BY <1>2, <1>3

LEMMA LoginStep ==
    ASSUME DoorInv, NEW client \in Clients, NEW word \in Words, login(client, word)
    PROVE  DoorInv'
<1>1. CASE ~ verify_configured_password(word)
  BY <1>1, FailureStep DEF login
<1>2. CASE verify_configured_password(word)
  <2> DEFINE row == [door.row EXCEPT ![client] = << >>]
             failures == record_success(client)
             tokens == Append(door.tokens, issue_session)
             nonce == Len(door.tokens) + 1
  <2>1. Table(failures, row, door.now) /\ \A c \in Clients : Slowed(row[c])
    BY SuccessTakesTheEntry
  <2>2. issue_session \in Token /\ issue_session.key = issue_session.opened
    BY LoginAssumption DEF issue_session, session_material, Token, Secrets, DoorInv
  <2>3. /\ tokens \in Seq(Token) /\ nonce \in Nat
        /\ \A t \in 1..Len(tokens) : tokens[t].key = tokens[t].opened
    <3>1. /\ door.tokens \in Seq(Token) /\ Len(door.tokens) \in Nat
          /\ \A t \in 1..Len(door.tokens) : door.tokens[t].key = door.tokens[t].opened
      BY LenProperties DEF DoorInv
    <3>2. /\ tokens \in Seq(Token) /\ Len(tokens) = nonce /\ tokens[nonce] = issue_session
          /\ \A t \in 1..Len(door.tokens) : tokens[t] = door.tokens[t]
      BY <2>2, <3>1, AppendProperties
    <3> HIDE DEF tokens
    <3>3. \A t \in 1..nonce : t \in 1..Len(door.tokens) \/ t = nonce
      BY <3>1
    <3>4. ASSUME NEW t \in 1..nonce PROVE tokens[t].key = tokens[t].opened
      <4>1. CASE t = nonce
        BY <2>2, <3>2, <4>1
      <4>2. CASE t \in 1..Len(door.tokens)
        BY <3>1, <3>2, <4>2
      <4> QED BY <3>3, <4>1, <4>2
    <3>5. nonce \in Nat
      BY <3>1
    <3> QED BY <3>2, <3>4, <3>5
  <2>4. door' = [door EXCEPT !.tokens = tokens, !.jar = [session |-> nonce, csrf |-> nonce],
                             !.failures = failures, !.row = row]
    BY <1>2 DEF login, DoorInv
  <2>5. failures \in Seq(Entry) /\ row \in [Clients -> Seq(Nat)]
    BY <2>1 DEF Table
  <2> HIDE DEF tokens, failures, row, nonce
  <2>6. /\ door'.settings = door.settings /\ door'.now = door.now /\ door'.tokens = tokens
        /\ door'.jar = [session |-> nonce, csrf |-> nonce]
        /\ door'.failures = failures /\ door'.row = row
    BY <2>4 DEF DoorInv
  <2>7. door' \in [settings : AllSettings, now : Nat, tokens : Seq(Token),
                   jar : [session : Nat, csrf : Nat], failures : Seq(Entry), starts : Nat,
                   row : [Clients -> Seq(Nat)]]
    BY <2>3, <2>4, <2>5 DEF DoorInv
  <2> QED BY <2>1, <2>3, <2>6, <2>7 DEF DoorInv, MayServe
<1> QED BY <1>1, <1>2

LEMMA SecondStep == ASSUME DoorInv, SecondPasses PROVE DoorInv'
<1>1. /\ door' = [door EXCEPT !.now = @ + 1]
      /\ door.row \in [Clients -> Seq(Nat)] /\ door.now \in Nat
      /\ Table(door.failures, door.row, door.now)
  BY DEF SecondPasses, DoorInv
<1>2. /\ door'.settings = door.settings /\ door'.now = door.now + 1
      /\ door'.tokens = door.tokens /\ door'.jar = door.jar
      /\ door'.failures = door.failures /\ door'.row = door.row
  BY <1>1 DEF DoorInv
<1>3. ASSUME NEW i \in 1..Len(door.failures)
      PROVE  Accounts(door.failures[i], door.row[door.failures[i].client], door.now + 1)
  <2> DEFINE guesses == door.row[door.failures[i].client]
  <2>1. door.failures[i].client \in Clients
    <3>1. door.failures[i] \in Entry
      BY <1>1, ElementOfSeq DEF Table
    <3> QED BY <3>1 DEF Entry
  <2>2. Accounts(door.failures[i], guesses, door.now) /\ guesses \in Seq(Nat)
    BY <1>1, <2>1 DEF Table
  <2> HIDE DEF guesses
  <2>3. Len(guesses) \in Nat
    BY <2>2, LenProperties
  <2>4. guesses[Len(guesses)] \in Nat
    BY <2>2, <2>3, ElementOfSeq DEF Accounts
  <2>5. Accounts(door.failures[i], guesses, door.now + 1)
    BY <1>1, <2>2, <2>4 DEF Accounts
  <2> QED BY <2>5 DEF guesses
<1>4. Table(door.failures, door.row, door.now + 1)
  BY <1>1, <1>3 DEF Table
<1>5. door' \in [settings : AllSettings, now : Nat, tokens : Seq(Token),
                 jar : [session : Nat, csrf : Nat], failures : Seq(Entry), starts : Nat,
                 row : [Clients -> Seq(Nat)]]
  <2>1. PICK later \in Nat : door' = [door EXCEPT !.now = later]
    <3>1. door.now + 1 \in Nat /\ door' = [door EXCEPT !.now = door.now + 1]
      BY <1>1
    <3> QED BY <3>1, Zenon
  <2> QED BY <2>1 DEF DoorInv
<1> QED BY <1>2, <1>4, <1>5 DEF DoorInv, MayServe

\* A process that starts knows of no guess.
LEMMA FreshTable ==
    ASSUME NEW now
    PROVE  LET row == [c \in Clients |-> << >>]
           IN  Table(<< >>, row, now) /\ \A c \in Clients : Slowed(row[c])
<1>1. /\ << >> \in Seq(Entry) /\ << >> \in Seq(Nat) /\ Len(<< >>) = 0
  BY EmptySeq
<1> QED BY <1>1 DEF Table, Slowed

LEMMA StartStep ==
    ASSUME DoorInv, NEW settings \in AllSettings, Start(settings)
    PROVE  DoorInv'
<1>1. /\ door' = [door EXCEPT !.settings = settings, !.starts = @ + 1, !.failures = << >>,
                              !.row = [c \in Clients |-> << >>]]
      /\ MayServe(settings) /\ door.starts \in Nat
  BY DEF Start, DoorInv
<1>2. /\ door'.settings = settings /\ door'.now = door.now /\ door'.tokens = door.tokens
      /\ door'.jar = door.jar /\ door'.failures = << >>
      /\ door'.row = [c \in Clients |-> << >>]
  BY <1>1 DEF DoorInv
<1>3. door' \in [settings : AllSettings, now : Nat, tokens : Seq(Token),
                 jar : [session : Nat, csrf : Nat], failures : Seq(Entry), starts : Nat,
                 row : [Clients -> Seq(Nat)]]
  <2>1. PICK starts \in Nat, row \in [Clients -> Seq(Nat)], failures \in Seq(Entry) :
          door' = [door EXCEPT !.settings = settings, !.starts = starts,
                               !.failures = failures, !.row = row]
    <3>1. << >> \in Seq(Entry) /\ << >> \in Seq(Nat)
      BY EmptySeq
    <3>2. [c \in Clients |-> << >>] \in [Clients -> Seq(Nat)] /\ door.starts + 1 \in Nat
      BY <1>1, <3>1
    <3> QED BY <1>1, <3>1, <3>2
  <2> QED BY <2>1 DEF DoorInv
<1> QED BY <1>1, <1>2, <1>3, FreshTable DEF DoorInv, MayServe

\* The door keeps account of the guesses, and of the password each session was opened
\* with (LoginThrottle, SessionToken).
THEOREM DoorInvAlways == DoorSpec => []DoorInv
<1>1. DoorInit => DoorInv
  <2>1. ASSUME NEW settings \in AllSettings, MayServe(settings),
               door = [settings |-> settings, now |-> 0, tokens |-> << >>,
                       jar |-> [session |-> 0, csrf |-> 0], failures |-> << >>, starts |-> 1,
                       row |-> [c \in Clients |-> << >>]]
        PROVE  DoorInv
    <3>1. << >> \in Seq(Token) /\ << >> \in Seq(Entry) /\ << >> \in Seq(Nat) /\ Len(<< >>) = 0
      BY EmptySeq
    <3> QED BY <2>1, <3>1, FreshTable DEF DoorInv
  <2> QED BY <2>1 DEF DoorInit
<1>2. ASSUME DoorInv, [DoorNext]_door PROVE DoorInv'
  <2>1. CASE logout
    <3>1. /\ door' = [door EXCEPT !.jar = [session |-> 0, csrf |-> 0]]
      BY <2>1 DEF logout
    <3> QED BY <1>2, <3>1 DEF DoorInv, MayServe
  <2>2. CASE UNCHANGED door
    BY <1>2, <2>2 DEF DoorInv, MayServe
  <2> QED BY <1>2, <2>1, <2>2, LoginStep, SecondStep, StartStep DEF DoorNext
<1> QED BY <1>1, <1>2, PTL DEF DoorSpec

\* Sessions live and end with the configured password, the UI is served what it shows,
\* an open API is deliberate, and wrong guesses are slowed down per client, however many
\* clients, logins and starts there are (AuthenticationMiddleware, LoginThrottle).
THEOREM TheDoorHoldsAlways == DoorSpec => []TheDoorHolds
<1>1. ASSUME DoorInv PROVE TheDoorHolds
  <2>0. /\ door.tokens \in Seq(Token) /\ DOMAIN door.tokens = 1..Len(door.tokens)
        /\ Len(door.tokens) \in Nat /\ door.now \in Nat
        /\ \A t \in 1..Len(door.tokens) : door.tokens[t] \in Token
    <3>1. door.tokens \in Seq(Token) /\ door.now \in Nat
      BY <1>1 DEF DoorInv
    <3> QED BY <3>1, LenProperties, ElementOfSeq
  <2>1. SessionsGoByThePassword
    BY <1>1, <2>0 DEF SessionsGoByThePassword, verify_session, session_material, Tokens,
                      DoorInv, Token
  <2>2. WhatIsShownIsServed
    <3>1. Cookie(door.jar.session) = Cookie(door.jar.csrf)
      BY <1>1 DEF DoorInv
    <3>2. verify_session(Cookie(door.jar.session)) = "valid" => Cookie(door.jar.session) # 0
      BY <2>0 DEF verify_session, Tokens
    <3> QED BY <3>1, <3>2 DEF WhatIsShownIsServed, authenticated, reject, csrf_matches
  <2>3. OpenOnlyOnPurpose
    BY <1>1 DEF DoorInv, MayServe, OpenOnlyOnPurpose
  <2>4. GuessesAreSlowed
    <3>1. ASSUME NEW c \in Clients, NEW k \in 1..(Len(door.row[c]) - 1), k > FreeAttempts
          PROVE  door.row[c][k + 1] - door.row[c][k]
                      >= Lesser(Doubled(k - FreeAttempts - 1), MaxLockout)
      BY <1>1, <3>1 DEF DoorInv, Slowed, Penalty
    <3>2. ASSUME NEW c \in Clients, retry_after(c) > 0
          PROVE  Len(door.row[c]) > FreeAttempts
      <4> DEFINE n == Len(door.row[c])
                 last == door.row[c][n]
                 until == door.failures[PlaceOf(c)].until
      <4>1. Entries(c) # {} /\ until > door.now
        BY <3>2 DEF retry_after
      <4>2. n \in Nat /\ until = last + Penalty(n) /\ last \in 0..door.now
        BY <1>1, <4>1, PlaceProperties
      <4>3. CASE ~ (n > FreeAttempts)
        <5>1. Penalty(n) = 0
          BY <4>3 DEF Penalty
        <5> HIDE DEF last, until
        <5> QED BY <2>0, <4>1, <4>2, <5>1
      <4> QED BY <4>3
    <3> QED BY <3>1, <3>2 DEF GuessesAreSlowed
  <2> QED BY <2>1, <2>2, <2>3, <2>4 DEF TheDoorHolds
<1>2. DoorInv => TheDoorHolds
  BY <1>1
<1> QED BY <1>2, DoorInvAlways, PTL

\* No credential of either kind lets anyone in that should not: not that of a host once
\* it is withdrawn, nor that of the operator once the password changed.
THEOREM OnlyStandingCredentialsAlways == CredentialsSpec => []OnlyStandingCredentials
BY WithdrawnStaysWithdrawnAlways, TheDoorHoldsAlways, PTL
DEF CredentialsSpec, OnlyStandingCredentials
=============================================================================

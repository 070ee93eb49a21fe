------------------------ MODULE ExchangeJournalProofs ------------------------
(***************************************************************************)
(* What a server between two commands knows of the file, and what is on    *)
(* the disk before anything is answered, for any number of servers,        *)
(* commands, records and failures.                                         *)
(***************************************************************************)
EXTENDS ExchangeJournal, SequenceTheorems, TLAPS

(* The invariant *)

Pieces == [of : Commands \cup Configs \cup {"junk"}, part : 0..2]

ServerStates == [at : {"off", "creating", "naming", "running", "appending", "durable"},
                 config : Configs \cup {""}, state : Seq(Commands), output : Seq(Pieces)]

TypeOK ==
    /\ file \in Seq(Pieces)
    /\ synced \in 0..Len(file)
    /\ named \in BOOLEAN
    /\ server \in [Servers -> ServerStates]
    /\ answered \subseteq [place : Nat, command : Commands]

\* A server that runs holds the lock, alone.
Exclusive == \A p \in Servers : server[p].at # "off" => lock = {p}

\* The piece at place k of f is part part of of.
Is(f, k, of, part) == f[k].of = of /\ f[k].part = part

\* f is a header, the records of state, and extra pieces.
Holds(f, config, state, extra) ==
    /\ Len(f) = 2 * Len(state) + 2 + extra
    /\ Is(f, 1, config, 1) /\ Is(f, 2, config, 2)
    /\ \A n \in 1..Len(state) : Is(f, 2 * n + 1, state[n], 1) /\ Is(f, 2 * n + 2, state[n], 2)

\* The header of server s is being written to f.
Creating(f, s) ==
    /\ s.state = <<>>
    /\ \/ Len(f) = 0 /\ s.output = Whole(s.config)
       \/ Len(f) = 1 /\ Is(f, 1, s.config, 1) /\ s.output = <<Piece(s.config, 2)>>
       \/ Holds(f, s.config, s.state, 0) /\ s.output = <<>>

\* A record of server s is being written to f.
Appending(f, s) ==
    \E c \in Commands :
        \/ Holds(f, s.config, s.state, 0) /\ s.output = Whole(c)
        \/ /\ Holds(f, s.config, s.state, 1) /\ s.output = <<Piece(c, 2)>>
           /\ Is(f, Len(f), c, 1)
        \/ /\ Holds(f, s.config, s.state, 2) /\ s.output = <<>>
           /\ Is(f, Len(f) - 1, c, 1) /\ Is(f, Len(f), c, 2)

\* What is in the file f while s is where it is.
Written(f, s) ==
    /\ s.at # "off" => s.config \in Configs
    /\ s.at = "creating" => Creating(f, s)
    /\ s.at = "naming" => Holds(f, s.config, s.state, 0) /\ s.state = <<>> /\ s.output = <<>>
    /\ s.at = "running" => Holds(f, s.config, s.state, 0) /\ s.output = <<>>
    /\ s.at = "appending" => Appending(f, s)
    /\ s.at = "durable" => Appending(f, s) /\ s.output = <<>>

FileInv == TypeOK /\ Exclusive /\ \A p \in Servers : Written(file, server[p])

\* What is answered is in the part of the file that a power loss leaves, and
\* so is the record of a command about to be processed.
OnDisk ==
    /\ \A a \in answered :
          /\ a.place >= 1 /\ 2 * a.place + 2 <= synced
          /\ Is(file, 2 * a.place + 1, a.command, 1) /\ Is(file, 2 * a.place + 2, a.command, 2)
    /\ answered # {} => named
    /\ \A p \in Servers : server[p].at = "durable" => synced = Len(file) /\ named

-----------------------------------------------------------------------------
(* Lemmas about pieces and files *)

\* The two writes of a header or a record.
LEMMA WholeParts ==
    ASSUME NEW of
    PROVE  /\ Whole(of) # <<>> /\ <<Piece(of, 2)>> # <<>>
           /\ Head(Whole(of)) = Piece(of, 1) /\ Tail(Whole(of)) = <<Piece(of, 2)>>
           /\ Head(<<Piece(of, 2)>>) = Piece(of, 2) /\ Tail(<<Piece(of, 2)>>) = <<>>
           /\ Piece(of, 1).of = of /\ Piece(of, 1).part = 1
           /\ Piece(of, 2).of = of /\ Piece(of, 2).part = 2
  BY DEF Whole, Piece

\* Pieces of commands and configurations are pieces.
LEMMA PieceType ==
    ASSUME NEW of \in Commands \cup Configs
    PROVE  Piece(of, 1) \in Pieces /\ Piece(of, 2) \in Pieces /\ Whole(of) \in Seq(Pieces)
  BY DEF Whole, Piece, Pieces

\* Two pieces in a row are a whole record if they are its two parts.
LEMMA WholeInFile ==
    ASSUME NEW f \in Seq(Pieces), NEW k \in Nat, k + 2 <= Len(f), NEW of
    PROVE  SubSeq(f, k + 1, k + 2) = Whole(of) <=> Is(f, k + 1, of, 1) /\ Is(f, k + 2, of, 2)
  <1> DEFINE s == SubSeq(f, k + 1, k + 2)
  <1>1. s \in Seq(Pieces) /\ Len(s) = 2 /\ s[1] = f[k + 1] /\ s[2] = f[k + 2]
    BY SubSeqProperties
  <1>2. f[k + 1] \in Pieces /\ f[k + 2] \in Pieces
    BY ElementOfSeq
  <1> HIDE DEF s
  <1>3. s = Whole(of) <=> s[1] = Piece(of, 1) /\ s[2] = Piece(of, 2)
    BY <1>1 DEF Whole
  <1>4. /\ f[k + 1] = Piece(of, 1) <=> Is(f, k + 1, of, 1)
        /\ f[k + 2] = Piece(of, 2) <=> Is(f, k + 2, of, 2)
    BY <1>2 DEF Is, Piece, Pieces
  <1> QED
    BY <1>1, <1>3, <1>4 DEF s

\* A write adds a piece and leaves the others.
LEMMA HoldsAfterWrite ==
    ASSUME NEW f \in Seq(Pieces), NEW piece \in Pieces, NEW config, NEW state \in Seq(Commands),
           NEW extra \in Nat, Holds(f, config, state, extra)
    PROVE  /\ Append(f, piece) \in Seq(Pieces) /\ Len(Append(f, piece)) = Len(f) + 1
           /\ Append(f, piece)[Len(f) + 1] = piece
           /\ \A k \in 1..Len(f) : Append(f, piece)[k] = f[k]
           /\ Holds(Append(f, piece), config, state, extra + 1)
  <1> DEFINE g == Append(f, piece)
  <1>1. /\ g \in Seq(Pieces) /\ Len(g) = Len(f) + 1 /\ g[Len(f) + 1] = piece
        /\ \A k \in 1..Len(f) : g[k] = f[k]
    BY AppendProperties
  <1> HIDE DEF g
  <1>2. Len(state) \in Nat /\ Len(f) \in Nat
    OBVIOUS
  <1>3. ASSUME NEW n \in 1..Len(state)
        PROVE  Is(g, 2 * n + 1, state[n], 1) /\ Is(g, 2 * n + 2, state[n], 2)
    <2>1. 2 * n + 1 \in 1..Len(f) /\ 2 * n + 2 \in 1..Len(f)
      BY <1>2 DEF Holds
    <2> QED
      BY <1>1, <2>1 DEF Holds, Is
  <1>4. Holds(g, config, state, extra + 1)
    <2>1. 1 \in 1..Len(f) /\ 2 \in 1..Len(f) /\ Len(g) = 2 * Len(state) + 2 + (extra + 1)
      BY <1>1, <1>2 DEF Holds
    <2>2. Is(g, 1, config, 1) /\ Is(g, 2, config, 2)
      BY <1>1, <2>1 DEF Holds, Is
    <2> QED
      BY <1>3, <2>1, <2>2 DEF Holds
  <1> QED
    BY <1>1, <1>4 DEF g

-----------------------------------------------------------------------------
(* Every step preserves FileInv *)

\* While one server is on, or takes the lock, the others are off: it is enough
\* to look at the server that takes a step.
LEMMA OneServerSteps ==
    ASSUME FileInv, NEW p \in Servers, server[p].at # "off" \/ lock = {},
           NEW s \in ServerStates, server' = [server EXCEPT ![p] = s],
           file' \in Seq(Pieces), synced' \in 0..Len(file'), named' \in BOOLEAN,
           answered' \subseteq [place : Nat, command : Commands],
           s.at # "off" => lock' = {p}, Written(file', s)
    PROVE  FileInv'
  <1>1. TypeOK'
    BY DEF FileInv, TypeOK
  <1>2. server'[p] = s
    BY DEF FileInv, TypeOK
  <1>3. ASSUME NEW q \in Servers, q # p
        PROVE  server'[q] = server[q] /\ server[q].at = "off"
    BY <1>3, Zenon DEF FileInv, TypeOK, Exclusive
  <1>4. Exclusive'
    BY <1>2, <1>3 DEF Exclusive
  <1>5. ASSUME NEW q \in Servers
        PROVE  Written(file', server'[q])
    BY <1>2, <1>3 DEF Written
  <1> QED
    BY <1>1, <1>4, <1>5 DEF FileInv

\* A server that ends leaves the file as it is.
LEMMA EndPreservesFileInv ==
    ASSUME FileInv, NEW p \in Servers, server[p].at # "off",
           server' = [server EXCEPT ![p] = Off], UNCHANGED <<file, synced, named, answered>>
    PROVE  FileInv'
  <1>1. Off \in ServerStates /\ Off.at = "off"
    <2>1. <<>> \in Seq(Commands) /\ <<>> \in Seq(Pieces)
      BY EmptySeq
    <2> QED
      BY <2>1, Zenon DEF Off, ServerStates
  <1>2. Written(file', Off)
    BY <1>1 DEF Written
  <1>3. /\ file' \in Seq(Pieces) /\ synced' \in 0..Len(file') /\ named' \in BOOLEAN
        /\ answered' \subseteq [place : Nat, command : Commands]
    BY DEF FileInv, TypeOK
  <1> QED
    BY <1>1, <1>2, <1>3, OneServerSteps, Zenon

\* A file that is read without an error is a header and whole records, and
\* the state is what they hold.
LEMMA ReadableHolds ==
    ASSUME TypeOK, NEW config, Len(file) >= 2, SubSeq(file, 1, 2) = Whole(config), Readable
    PROVE  Content \in Seq(Commands) /\ Holds(file, config, Content, 0)
  <1> DEFINE m == (Len(file) \div 2) - 1
  <1>1. file \in Seq(Pieces) /\ Len(file) \in Nat
    BY DEF TypeOK
  <1>2. ASSUME NEW n \in Records
        PROVE  /\ n \in Nat /\ 2 * n + 2 <= Len(file)
               /\ \E c \in Commands : Is(file, 2 * n + 1, c, 1) /\ Is(file, 2 * n + 2, c, 2)
    <2>1. PICK c \in Commands : Record(n) = Whole(c)
      BY DEF Readable
    <2>2. n \in Nat /\ 2 * n + 2 <= Len(file)
      BY <2>1, WholeParts DEF Record, Records
    <2>3. SubSeq(file, 2 * n + 1, 2 * n + 2) = Whole(c)
      BY <2>1, <2>2 DEF Record
    <2>4. Is(file, 2 * n + 1, c, 1) /\ Is(file, 2 * n + 2, c, 2)
      BY <1>1, <2>2, <2>3, WholeInFile
    <2> QED
      BY <2>2, <2>4
  <1>3. m \in Nat /\ Len(file) = 2 * m + 2 /\ Records = 1..m
    <2>1. Len(file) \div 2 \in Nat /\ (Len(file) = 2 * (Len(file) \div 2) \/ Len(file) = 2 * (Len(file) \div 2) + 1)
      BY <1>1
    <2>2. Len(file) # 2 * (Len(file) \div 2) + 1
      <3> SUFFICES ASSUME Len(file) = 2 * (Len(file) \div 2) + 1 PROVE FALSE
        OBVIOUS
      <3> DEFINE h == Len(file) \div 2
      <3>1. h \in Records
        BY <1>1, <2>1 DEF Records
      <3> QED
        BY <3>1, <1>2, <1>1, <2>1
    <2> QED
      BY <1>1, <2>1, <2>2 DEF Records
  <1> HIDE DEF m
  <1>4. /\ Content = [n \in 1..m |-> file[2 * n + 1].of]
        /\ \A n \in 1..m : file[2 * n + 1].of \in Commands
    BY <1>2, <1>3 DEF Content, Is
  <1>5. Content \in Seq(Commands) /\ Len(Content) = m
    BY <1>3, <1>4
  <1>6. Is(file, 1, config, 1) /\ Is(file, 2, config, 2)
    <2>1. PICK k \in Nat : k = 0
      OBVIOUS
    <2>2. SubSeq(file, k + 1, k + 2) = Whole(config) /\ k + 2 <= Len(file)
      BY <2>1
    <2>3. Is(file, k + 1, config, 1) /\ Is(file, k + 2, config, 2)
      BY <1>1, <2>2, WholeInFile
    <2> QED
      BY <2>1, <2>3
  <1>7. ASSUME NEW n \in 1..Len(Content)
        PROVE  Is(file, 2 * n + 1, Content[n], 1) /\ Is(file, 2 * n + 2, Content[n], 2)
    <2>1. n \in Records /\ Content[n] = file[2 * n + 1].of
      BY <1>3, <1>4, <1>5
    <2> QED
      BY <2>1, <1>2 DEF Is
  <1> QED
    BY <1>3, <1>5, <1>6, <1>7 DEF Holds

\* The lock keeps a second server out, and a strict read keeps a server from
\* running on a damaged file.
LEMMA StartPreservesFileInv ==
    ASSUME FileInv, NEW p \in Servers, NEW config \in Configs, Start(p, config)
    PROVE  FileInv'
  <1>1. /\ file' \in Seq(Pieces) /\ synced' \in 0..Len(file') /\ named' \in BOOLEAN
        /\ answered' \subseteq [place : Nat, command : Commands] /\ file' = file
    BY DEF FileInv, TypeOK, Start
  <1>2. CASE file = <<>> /\ Locks(p)
             /\ server' = [server EXCEPT ![p] = [at |-> "creating", config |-> config,
                                                 state |-> <<>>, output |-> Whole(config)]]
    <2> DEFINE s == [at |-> "creating", config |-> config, state |-> <<>>, output |-> Whole(config)]
    <2>1. s \in ServerStates
      <3>1. <<>> \in Seq(Commands) /\ Whole(config) \in Seq(Pieces)
        BY EmptySeq, PieceType
      <3> QED
        BY <3>1, Zenon DEF ServerStates
    <2>2. Written(file', s)
      BY <1>1, <1>2 DEF Written, Creating
    <2>3. lock = {} /\ lock' = {p}
      BY <1>2 DEF Locks
    <2> QED
      BY <1>1, <1>2, <2>1, <2>2, <2>3, OneServerSteps, Zenon
  <1>3. CASE /\ Len(file) >= 2 /\ SubSeq(file, 1, 2) = Whole(config) /\ Readable /\ Locks(p)
             /\ server' = [server EXCEPT ![p] = [at |-> "running", config |-> config,
                                                 state |-> Content, output |-> <<>>]]
    <2> DEFINE s == [at |-> "running", config |-> config, state |-> Content, output |-> <<>>]
    <2>1. Content \in Seq(Commands) /\ Holds(file, config, Content, 0)
      BY <1>3, ReadableHolds DEF FileInv
    <2>2. s \in ServerStates
      <3>1. <<>> \in Seq(Pieces)
        BY EmptySeq
      <3> QED
        BY <2>1, <3>1, Zenon DEF ServerStates
    <2>3. Written(file', s)
      BY <1>1, <2>1 DEF Written
    <2>4. lock = {} /\ lock' = {p}
      BY <1>3 DEF Locks
    <2> HIDE DEF s
    <2>5. server' = [server EXCEPT ![p] = s]
      BY <1>3, SMTT(30) DEF s
    <2> QED
      BY <1>1, <2>2, <2>3, <2>4, <2>5, OneServerSteps, Zenon
  <1> QED
    BY <1>2, <1>3 DEF Start

\* A write continues the header or the record that was begun.
LEMMA WritePreservesFileInv ==
    ASSUME FileInv, NEW p \in Servers, Write(p)
    PROVE  FileInv'
  <1> DEFINE t == server[p]
             s == [t EXCEPT !.output = Tail(t.output)]
  <1>1. /\ t \in ServerStates /\ t.at \in {"creating", "appending"} /\ t.output # <<>>
        /\ file' = Append(file, Head(t.output)) /\ file \in Seq(Pieces) /\ synced \in 0..Len(file)
        /\ lock = {p} /\ lock' = {p} /\ Written(file, t)
        /\ UNCHANGED <<synced, named, answered>>
    BY DEF FileInv, TypeOK, Exclusive, Write
  <1>2. t.state \in Seq(Commands) /\ Tail(t.output) \in Seq(Pieces) /\ Head(t.output) \in Pieces
    <2>1. t.state \in Seq(Commands) /\ t.output \in Seq(Pieces)
      BY <1>1, Zenon DEF ServerStates
    <2> QED
      BY <1>1, <2>1, HeadTailProperties
  <1>3. /\ s \in ServerStates /\ s.at = t.at /\ s.config = t.config /\ s.state = t.state
        /\ s.output = Tail(t.output)
    BY <1>1, <1>2, Zenon DEF ServerStates
  <1>4. server' = [server EXCEPT ![p] = s]
    BY DEF Write
  <1> HIDE DEF t, s
  <1>5. /\ file' \in Seq(Pieces) /\ Len(file') = Len(file) + 1 /\ synced' \in 0..Len(file')
        /\ file'[Len(file) + 1] = Head(t.output) /\ \A k \in 1..Len(file) : file'[k] = file[k]
    BY <1>1, <1>2, AppendProperties
  <1>6. Written(file', s)
    <2>1. CASE t.at = "creating"
      <3>1. Creating(file, t) /\ t.config \in Configs
        BY <1>1, <2>1 DEF Written
      <3>2. CASE Len(file) = 0 /\ t.output = Whole(t.config)
        <4>1. Len(file') = 1 /\ file'[1] = Piece(t.config, 1) /\ s.output = <<Piece(s.config, 2)>>
          BY <1>3, <1>5, <3>2, WholeParts
        <4>2. Is(file', 1, s.config, 1)
          BY <1>3, <4>1, WholeParts DEF Is
        <4>3. Creating(file', s)
          BY <1>3, <3>1, <4>1, <4>2, ZenonT(30) DEF Creating
        <4> QED
          BY <1>3, <2>1, <3>1, <4>3 DEF Written
      <3>3. CASE Len(file) = 1 /\ Is(file, 1, t.config, 1) /\ t.output = <<Piece(t.config, 2)>>
        <4>1. Len(file') = 2 /\ file'[1] = file[1] /\ file'[2] = Piece(t.config, 2) /\ s.output = <<>>
          BY <1>3, <1>5, <3>3, WholeParts
        <4>2. Len(s.state) = 0 /\ s.state = <<>>
          BY <1>3, <3>1 DEF Creating
        <4>3. Holds(file', s.config, s.state, 0)
          BY <1>3, <3>3, <4>1, <4>2, WholeParts DEF Holds, Is
        <4>4. Creating(file', s)
          BY <4>1, <4>2, <4>3 DEF Creating
        <4> QED
          BY <1>3, <2>1, <3>1, <4>4 DEF Written
      <3> QED
        BY <1>1, <3>1, <3>2, <3>3 DEF Creating
    <2>2. CASE t.at = "appending"
      <3>1. /\ t.config \in Configs
            /\ \E c \in Commands :
                \/ Holds(file, t.config, t.state, 0) /\ t.output = Whole(c)
                \/ /\ Holds(file, t.config, t.state, 1) /\ t.output = <<Piece(c, 2)>>
                   /\ Is(file, Len(file), c, 1)
        BY <1>1, <2>2 DEF Written, Appending
      <3>2. PICK c \in Commands :
                \/ Holds(file, t.config, t.state, 0) /\ t.output = Whole(c)
                \/ /\ Holds(file, t.config, t.state, 1) /\ t.output = <<Piece(c, 2)>>
                   /\ Is(file, Len(file), c, 1)
        BY <3>1
      <3>3. CASE Holds(file, t.config, t.state, 0) /\ t.output = Whole(c)
        <4>1. Holds(file', s.config, s.state, 1)
          <5>1. Holds(file', t.config, t.state, 0 + 1)
            BY <1>1, <1>2, <3>3, HoldsAfterWrite, SMTT(30)
          <5> QED
            BY <1>3, <5>1
        <4>2. s.output = <<Piece(c, 2)>> /\ Is(file', Len(file'), c, 1)
          BY <1>3, <1>5, <3>3, WholeParts DEF Is
        <4>3. Appending(file', s)
          BY <4>1, <4>2 DEF Appending
        <4> QED
          BY <1>3, <2>2, <3>1, <4>3 DEF Written
      <3>4. CASE /\ Holds(file, t.config, t.state, 1) /\ t.output = <<Piece(c, 2)>>
                 /\ Is(file, Len(file), c, 1)
        <4>1. Holds(file', s.config, s.state, 2)
          <5>1. Holds(file', t.config, t.state, 1 + 1)
            BY <1>1, <1>2, <3>4, HoldsAfterWrite, SMTT(30)
          <5> QED
            BY <1>3, <5>1, SMTT(30)
        <4>2. s.output = <<>>
          BY <1>3, <3>4, WholeParts, SMTT(30)
        <4>3. Is(file', Len(file') - 1, c, 1) /\ Is(file', Len(file'), c, 2)
          <5>1. Len(file) \in 1..Len(file)
            BY <1>1, <1>2, <3>4 DEF Holds
          <5>2. Len(file') - 1 = Len(file) /\ file'[Len(file)] = file[Len(file)]
            BY <1>1, <1>5, <5>1
          <5> QED
            BY <1>5, <3>4, <5>2, WholeParts, SMTT(30) DEF Is
        <4>4. Appending(file', s)
          BY <4>1, <4>2, <4>3 DEF Appending
        <4> QED
          BY <1>3, <2>2, <3>1, <4>4 DEF Written
      <3> QED
        BY <3>2, <3>3, <3>4
    <2> QED
      BY <1>1, <2>1, <2>2
  <1>7. named' \in BOOLEAN /\ answered' \subseteq [place : Nat, command : Commands]
    BY <1>1 DEF FileInv, TypeOK
  <1> QED
    BY <1>1, <1>3, <1>4, <1>5, <1>6, <1>7, OneServerSteps, Zenon DEF t

\* What sync changes of the file is only how much of it is on the disk.
LEMMA SyncPreservesFileInv ==
    ASSUME FileInv, NEW p \in Servers, Sync(p)
    PROVE  FileInv'
  <1> DEFINE t == server[p]
             s == [t EXCEPT !.at = IF t.at = "creating" THEN "naming" ELSE "durable"]
  <1>1. /\ t \in ServerStates /\ Written(file, t) /\ server \in [Servers -> ServerStates]
        /\ t.at \in {"creating", "appending"} /\ t.output = <<>> /\ lock' = {p}
        /\ file \in Seq(Pieces) /\ synced' = Len(file) /\ named' = (named \/ SyncNames)
        /\ named \in BOOLEAN /\ UNCHANGED <<file, answered>>
    BY DEF FileInv, TypeOK, Exclusive, Sync
  <1>2. /\ s \in ServerStates /\ s.at = (IF t.at = "creating" THEN "naming" ELSE "durable")
        /\ s.config = t.config /\ s.state = t.state /\ s.output = <<>>
    BY <1>1, Zenon DEF ServerStates
  <1>3. server' = [server EXCEPT ![p] = s]
    BY DEF Sync
  <1> HIDE DEF t, s
  <1>4. Written(file', s)
    <2>1. CASE t.at = "creating"
      BY <1>1, <1>2, <2>1, WholeParts DEF Written, Creating
    <2>2. CASE t.at = "appending"
      <3>1. Appending(file, s)
        BY <1>1, <1>2, <2>2 DEF Written, Appending
      <3> QED
        BY <1>1, <1>2, <2>2, <3>1 DEF Written
    <2> QED
      BY <1>1, <2>1, <2>2
  <1>5. /\ file' \in Seq(Pieces) /\ synced' \in 0..Len(file') /\ named' \in BOOLEAN
        /\ answered' \subseteq [place : Nat, command : Commands]
    BY <1>1, JournalAssumption, SMTT(30) DEF FileInv, TypeOK
  <1> QED
    BY <1>1, <1>2, <1>3, <1>4, <1>5, OneServerSteps, Zenon DEF t

\* The name is made durable once the header is.
LEMMA SyncDirectoryPreservesFileInv ==
    ASSUME FileInv, NEW p \in Servers, SyncDirectory(p)
    PROVE  FileInv'
  <1> DEFINE t == server[p]
             s == [t EXCEPT !.at = "running"]
  <1>1. /\ t \in ServerStates /\ Written(file, t) /\ t.at = "naming" /\ lock' = {p}
        /\ file' \in Seq(Pieces) /\ synced' \in 0..Len(file') /\ named' \in BOOLEAN
        /\ answered' \subseteq [place : Nat, command : Commands] /\ file' = file
    BY DEF FileInv, TypeOK, Exclusive, SyncDirectory
  <1>2. /\ s \in ServerStates /\ s.at = "running"
        /\ s.config = t.config /\ s.state = t.state /\ s.output = t.output
    BY <1>1, Zenon DEF ServerStates
  <1>3. server' = [server EXCEPT ![p] = s]
    BY DEF SyncDirectory
  <1> HIDE DEF t, s
  <1>4. Written(file', s)
    BY <1>1, <1>2 DEF Written
  <1> QED
    BY <1>1, <1>2, <1>3, <1>4, OneServerSteps, Zenon DEF t

\* append begins at the end of the last whole record.
LEMMA TakePreservesFileInv ==
    ASSUME FileInv, NEW p \in Servers, NEW c \in Commands, Take(p, c)
    PROVE  FileInv'
  <1> DEFINE t == server[p]
             s == [t EXCEPT !.at = "appending", !.output = Whole(c)]
  <1>1. /\ t \in ServerStates /\ Written(file, t) /\ t.at = "running" /\ lock' = {p}
        /\ file' \in Seq(Pieces) /\ synced' \in 0..Len(file') /\ named' \in BOOLEAN
        /\ answered' \subseteq [place : Nat, command : Commands] /\ file' = file
    BY DEF FileInv, TypeOK, Exclusive, Take
  <1>2. /\ s \in ServerStates /\ s.at = "appending"
        /\ s.config = t.config /\ s.state = t.state /\ s.output = Whole(c)
    BY <1>1, PieceType, Zenon DEF ServerStates
  <1>3. server' = [server EXCEPT ![p] = s]
    BY Zenon DEF Take
  <1> HIDE DEF t, s
  <1>4. Written(file', s)
    <2>1. Appending(file', s)
      BY <1>1, <1>2 DEF Written, Appending
    <2> QED
      BY <1>1, <1>2, <2>1 DEF Written
  <1> QED
    BY <1>1, <1>2, <1>3, <1>4, OneServerSteps, Zenon DEF t

\* The command that is processed is the one of the record that append wrote.
LEMMA DurableRecord ==
    ASSUME FileInv, NEW p \in Servers, server[p].at = "durable"
    PROVE  /\ file[Len(file)].of \in Commands
           /\ Len(file) = 2 * Len(server[p].state) + 4
           /\ Is(file, Len(file) - 1, file[Len(file)].of, 1) /\ Is(file, Len(file), file[Len(file)].of, 2)
           /\ Holds(file, server[p].config, Append(server[p].state, file[Len(file)].of), 0)
  <1> DEFINE t == server[p]
             c == file[Len(file)].of
  <1>1. /\ t \in ServerStates /\ Appending(file, t) /\ t.output = <<>> /\ file \in Seq(Pieces)
    BY DEF FileInv, TypeOK, Written
  <1>2. t.state \in Seq(Commands) /\ Len(t.state) \in Nat
    <2>1. t.state \in Seq(Commands)
      BY <1>1, ZenonT(30) DEF ServerStates
    <2> QED
      BY <2>1, LenProperties
  <1>3. PICK d \in Commands :
            /\ Holds(file, t.config, t.state, 2)
            /\ Is(file, Len(file) - 1, d, 1) /\ Is(file, Len(file), d, 2)
    BY <1>1, WholeParts DEF Appending
  <1>4. c = d
    BY <1>3 DEF Is
  <1> DEFINE state == Append(t.state, c)
  <1> HIDE DEF c, t
  <1>5. /\ state \in Seq(Commands) /\ Len(state) = Len(t.state) + 1 /\ state[Len(t.state) + 1] = c
        /\ \A n \in 1..Len(t.state) : state[n] = t.state[n]
    BY <1>2, <1>3, <1>4, AppendProperties
  <1> HIDE DEF state
  <1>6. Len(file) = 2 * Len(t.state) + 4
    BY <1>2, <1>3 DEF Holds
  <1>7. ASSUME NEW n \in 1..Len(state)
        PROVE  Is(file, 2 * n + 1, state[n], 1) /\ Is(file, 2 * n + 2, state[n], 2)
    <2>1. CASE n = Len(t.state) + 1
      BY <1>2, <1>3, <1>4, <1>5, <1>6, <2>1
    <2>2. CASE n # Len(t.state) + 1
      <3>1. n \in 1..Len(t.state) /\ state[n] = t.state[n]
        BY <1>2, <1>5, <2>2
      <3> QED
        BY <1>3, <3>1 DEF Holds
    <2> QED
      BY <2>1, <2>2
  <1>8. Holds(file, t.config, state, 0)
    <2>1. Len(file) = 2 * Len(state) + 2 + 0
      BY <1>2, <1>5, <1>6
    <2>2. Is(file, 1, t.config, 1) /\ Is(file, 2, t.config, 2)
      BY <1>3, SMTT(30) DEF Holds
    <2> QED
      BY <1>7, <2>1, <2>2 DEF Holds
  <1> QED
    BY <1>3, <1>4, <1>6, <1>8 DEF t, c, state

\* What is processed is added to the state as it stands in the file.
LEMMA ProcessPreservesFileInv ==
    ASSUME FileInv, NEW p \in Servers, Process(p)
    PROVE  FileInv'
  <1> DEFINE t == server[p]
             c == file[Len(file)].of
             s == [t EXCEPT !.at = "running", !.state = Append(t.state, c)]
  <1>1. /\ t \in ServerStates /\ Written(file, t) /\ t.at = "durable" /\ lock' = {p}
        /\ file' \in Seq(Pieces) /\ synced' \in 0..Len(file') /\ named' \in BOOLEAN
        /\ answered \subseteq [place : Nat, command : Commands] /\ file' = file
        /\ answered' = answered \cup {[place |-> Len(t.state) + 1, command |-> c]}
    BY DEF FileInv, TypeOK, Exclusive, Process
  <1>2. c \in Commands /\ Holds(file, t.config, Append(t.state, c), 0)
    BY <1>1, DurableRecord
  <1> HIDE DEF c
  <1>3. t.state \in Seq(Commands) /\ Len(t.state) \in Nat
    <2>1. t.state \in Seq(Commands)
      BY <1>1, Zenon DEF ServerStates
    <2> QED
      BY <2>1, LenProperties
  <1>4. Append(t.state, c) \in Seq(Commands)
    BY <1>2, <1>3, AppendProperties
  <1>5. /\ s \in ServerStates /\ s.at = "running"
        /\ s.config = t.config /\ s.state = Append(t.state, c) /\ s.output = t.output
    BY <1>1, <1>4, Zenon DEF ServerStates
  <1>6. server' = [server EXCEPT ![p] = s]
    BY Zenon DEF Process, c
  <1>7. answered' \subseteq [place : Nat, command : Commands]
    BY <1>1, <1>2, <1>3
  <1> HIDE DEF t, s
  <1>8. Written(file', s)
    BY <1>1, <1>2, <1>5 DEF Written
  <1> QED
    BY <1>1, <1>5, <1>6, <1>7, <1>8, OneServerSteps, Zenon DEF t

\* What a power loss leaves is a file, and no server.
LEMMA PowerLossPreservesFileInv == ASSUME FileInv, PowerLoss PROVE FileInv'
  <1>1. file \in Seq(Pieces) /\ synced \in 0..Len(file) /\ Len(file) \in Nat
    BY DEF FileInv, TypeOK
  <1>2. file' \in Seq(Pieces)
    <2>1. CASE file' = <<>>
      BY <2>1, EmptySeq
    <2>2. ASSUME NEW n \in synced..Len(file), NEW damaged \in BOOLEAN,
                 file' = [k \in 1..n |-> IF damaged /\ k = n /\ n > synced THEN Junk ELSE file[k]]
          PROVE  file' \in Seq(Pieces)
      <3>1. n \in Nat /\ Junk \in Pieces /\ \A k \in 1..n : file[k] \in Pieces
        <4>1. n \in Nat /\ \A k \in 1..n : k \in 1..Len(file)
          BY <1>1
        <4>2. Junk \in Pieces
          BY DEF Junk, Piece, Pieces
        <4> QED
          BY <1>1, <4>1, <4>2, ElementOfSeq
      <3>2. file' \in [1..n -> Pieces]
        BY <2>2, <3>1
      <3> QED
        BY <3>1, <3>2
    <2> QED
      BY <2>1, <2>2 DEF PowerLoss
  <1>3. synced' \in 0..Len(file') /\ named' \in BOOLEAN /\ answered' = answered
    BY <1>2, LenProperties DEF PowerLoss
  <1>4. Off \in ServerStates /\ Off.at = "off"
    <2>1. <<>> \in Seq(Commands) /\ <<>> \in Seq(Pieces)
      BY EmptySeq
    <2> QED
      BY <2>1 DEF Off, ServerStates
  <1>5. server' \in [Servers -> ServerStates] /\ \A p \in Servers : server'[p].at = "off"
    BY <1>4 DEF PowerLoss
  <1>6. TypeOK'
    BY <1>2, <1>3, <1>5, SMTT(30) DEF TypeOK, FileInv
  <1>7. Exclusive' /\ \A p \in Servers : Written(file', server'[p])
    BY <1>5 DEF Exclusive, Written
  <1> QED
    BY <1>6, <1>7 DEF FileInv

\* FileInv holds whatever the file system does with names.
LEMMA FileInvariant == Spec => []FileInv
  <1>1. Init => FileInv
    <2> SUFFICES ASSUME Init PROVE FileInv
      OBVIOUS
    <2>1. <<>> \in Seq(Commands) /\ <<>> \in Seq(Pieces) /\ Len(<<>>) = 0
      BY EmptySeq
    <2>2. server \in [Servers -> ServerStates] /\ \A p \in Servers : server[p].at = "off"
      BY <2>1, Zenon DEF Init, Off, ServerStates
    <2>3. file \in Seq(Pieces) /\ synced \in 0..Len(file)
      BY <2>1 DEF Init
    <2>4. TypeOK
      BY <2>2, <2>3, Zenon DEF Init, TypeOK
    <2> QED
      BY <2>2, <2>4 DEF FileInv, Exclusive, Written
  <1>2. FileInv /\ [Next]_vars => FileInv'
    <2> SUFFICES ASSUME FileInv, [Next]_vars PROVE FileInv'
      OBVIOUS
    <2>1. ASSUME NEW p \in Servers, NEW config \in Configs, Start(p, config) PROVE FileInv'
      BY <2>1, StartPreservesFileInv
    <2>2. ASSUME NEW p \in Servers, NEW c \in Commands, Take(p, c) PROVE FileInv'
      BY <2>2, TakePreservesFileInv
    <2>3. ASSUME NEW p \in Servers, Write(p) PROVE FileInv'
      BY <2>3, WritePreservesFileInv
    <2>4. ASSUME NEW p \in Servers, Sync(p) PROVE FileInv'
      BY <2>4, SyncPreservesFileInv
    <2>5. ASSUME NEW p \in Servers, SyncDirectory(p) PROVE FileInv'
      BY <2>5, SyncDirectoryPreservesFileInv
    <2>6. ASSUME NEW p \in Servers, Process(p) PROVE FileInv'
      BY <2>6, ProcessPreservesFileInv
    <2>7. ASSUME NEW p \in Servers, AppendFails(p) \/ Stop(p) \/ Kill(p) PROVE FileInv'
      <3>1. /\ server[p].at # "off" /\ server' = [server EXCEPT ![p] = Off]
            /\ UNCHANGED <<file, synced, named, answered>>
        BY <2>7 DEF AppendFails, Stop, Kill
      <3> QED
        BY <3>1, EndPreservesFileInv, Zenon
    <2>8. CASE PowerLoss
      BY <2>8, PowerLossPreservesFileInv
    <2>9. CASE UNCHANGED vars
      BY <2>9 DEF vars, FileInv, TypeOK, Exclusive
    <2> QED
      BY <2>1, <2>2, <2>3, <2>4, <2>5, <2>6, <2>7, <2>8, <2>9 DEF Next
  <1> QED
    BY <1>1, <1>2, PTL DEF Spec

-----------------------------------------------------------------------------
(* A server between two commands is what its file says *)

\* A file that holds state reads back as state.
LEMMA HeldIsReadable ==
    ASSUME NEW config, NEW state \in Seq(Commands), file \in Seq(Pieces), Holds(file, config, state, 0)
    PROVE  /\ Len(file) >= 2 /\ SubSeq(file, 1, 2) = Whole(config)
           /\ Readable /\ Content = state
  <1>1. Len(state) \in Nat /\ Len(file) = 2 * Len(state) + 2
    <2>1. Len(state) \in Nat
      BY LenProperties
    <2> QED
      BY <2>1 DEF Holds
  <1>2. Records = 1..Len(state)
    BY <1>1 DEF Records
  <1>3. ASSUME NEW n \in 1..Len(state)
        PROVE  Record(n) = Whole(state[n]) /\ file[2 * n + 1].of = state[n] /\ state[n] \in Commands
    <2>1. 2 * n \in Nat /\ 2 * n + 2 <= Len(file)
      BY <1>1
    <2>2. Is(file, 2 * n + 1, state[n], 1) /\ Is(file, 2 * n + 2, state[n], 2)
      BY DEF Holds
    <2>3. SubSeq(file, 2 * n + 1, 2 * n + 2) = Whole(state[n])
      BY <2>1, <2>2, WholeInFile
    <2> QED
      BY <2>1, <2>2, <2>3, ElementOfSeq DEF Record, Is
  <1>4. SubSeq(file, 1, 2) = Whole(config)
    <2>1. PICK k \in Nat : k = 0
      OBVIOUS
    <2>2. Is(file, k + 1, config, 1) /\ Is(file, k + 2, config, 2) /\ k + 2 <= Len(file)
      BY <1>1, <2>1 DEF Holds
    <2>3. SubSeq(file, k + 1, k + 2) = Whole(config)
      BY <2>2, WholeInFile
    <2> QED
      BY <2>1, <2>3
  <1>5. Readable
    BY <1>2, <1>3 DEF Readable
  <1>6. Content = state
    <2>1. Content = [n \in 1..Len(state) |-> state[n]]
      BY <1>2, <1>3 DEF Content
    <2>2. state = [n \in 1..Len(state) |-> state[n]]
      BY LenProperties
    <2> QED
      BY <2>1, <2>2, SMTT(30)
  <1> QED
    BY <1>1, <1>4, <1>5, <1>6

\* For any number of servers, commands, records and failures, and whether or not
\* names are durable: a server between two commands has processed exactly the
\* commands of the file, and no other server can write to it.
THEOREM JournalStateIsTheFile == Spec => []StateIsTheFile
  <1>1. FileInv => StateIsTheFile
    <2> SUFFICES ASSUME FileInv, NEW p \in Servers, server[p].at = "running"
                 PROVE  /\ Len(file) >= 2 /\ SubSeq(file, 1, 2) = Whole(server[p].config)
                        /\ Readable /\ Content = server[p].state
                        /\ lock = {p}
      BY DEF StateIsTheFile
    <2>1. server[p].state \in Seq(Commands) /\ file \in Seq(Pieces) /\ lock = {p}
      BY ZenonT(30) DEF FileInv, TypeOK, ServerStates, Exclusive
    <2>2. Holds(file, server[p].config, server[p].state, 0)
      BY DEF FileInv, Written
    <2> QED
      BY <2>1, <2>2, HeldIsReadable
  <1> QED
    BY <1>1, FileInvariant, PTL

-----------------------------------------------------------------------------
(* What is answered is on the disk *)

\* Where the file keeps its pieces and the disk keeps what it has, what is
\* answered stays where it is.
LEMMA AnsweredStays ==
    ASSUME FileInv, OnDisk, answered' = answered,
           synced' \in Nat, synced' >= synced, \A k \in 1..synced : file'[k] = file[k]
    PROVE  \A a \in answered' :
              /\ a.place >= 1 /\ 2 * a.place + 2 <= synced'
              /\ Is(file', 2 * a.place + 1, a.command, 1) /\ Is(file', 2 * a.place + 2, a.command, 2)
  <1> SUFFICES ASSUME NEW a \in answered
               PROVE  /\ a.place >= 1 /\ 2 * a.place + 2 <= synced'
                      /\ Is(file', 2 * a.place + 1, a.command, 1)
                      /\ Is(file', 2 * a.place + 2, a.command, 2)
    OBVIOUS
  <1>1. /\ a.place \in Nat /\ synced \in Nat /\ a.place >= 1 /\ 2 * a.place + 2 <= synced
        /\ Is(file, 2 * a.place + 1, a.command, 1) /\ Is(file, 2 * a.place + 2, a.command, 2)
    BY DEF FileInv, TypeOK, OnDisk
  <1>2. 2 * a.place + 1 \in 1..synced /\ 2 * a.place + 2 \in 1..synced
    BY <1>1
  <1> QED
    BY <1>1, <1>2 DEF Is

\* Every step keeps what is answered on the disk, if syncing a file makes its
\* name durable: the first record of a file made by a server that was killed
\* before it synced the directory has no other protection.
LEMMA StepPreservesOnDisk ==
    ASSUME SyncNames, FileInv, OnDisk, [Next]_vars
    PROVE  OnDisk'
  <1> DEFINE Kept == \A a \in answered :
                        /\ a.place >= 1 /\ 2 * a.place + 2 <= synced
                        /\ Is(file, 2 * a.place + 1, a.command, 1)
                        /\ Is(file, 2 * a.place + 2, a.command, 2)
  <1>1. /\ file \in Seq(Pieces) /\ Len(file) \in Nat /\ synced \in Nat /\ synced <= Len(file)
        /\ server \in [Servers -> ServerStates]
    BY DEF FileInv, TypeOK
  \* The steps that sync nothing and answer nothing.
  <1>2. ASSUME NEW p \in Servers, NEW s \in ServerStates, server' = [server EXCEPT ![p] = s],
               UNCHANGED <<file, synced, answered>>, named' = named \/ named' = TRUE, s.at # "durable"
        PROVE  OnDisk'
    <2>1. Kept'
      BY <1>1, <1>2, AnsweredStays
    <2>2. \A q \in Servers : server'[q].at = "durable" => server[q].at = "durable"
      BY <1>1, <1>2, SMTT(30)
    <2> QED
      BY <1>2, <2>1, <2>2 DEF OnDisk
  <1>3. ASSUME NEW p \in Servers, NEW config \in Configs, Start(p, config)
        PROVE  OnDisk'
    <2>1. FileInv'
      BY <1>3, StartPreservesFileInv
    <2>2. server'[p] \in ServerStates
      BY <2>1, SMTT(30) DEF FileInv, TypeOK
    <2>3. server' = [server EXCEPT ![p] = server'[p]] /\ server'[p].at # "durable"
      BY <1>1, <1>3 DEF Start
    <2> QED
      BY <1>2, <1>3, <2>2, <2>3 DEF Start
  <1>4. ASSUME NEW p \in Servers, NEW c \in Commands, Take(p, c)
        PROVE  OnDisk'
    <2>1. FileInv'
      BY <1>4, TakePreservesFileInv
    <2>2. server'[p] \in ServerStates
      BY <2>1 DEF FileInv, TypeOK
    <2>3. server' = [server EXCEPT ![p] = server'[p]] /\ server'[p].at # "durable"
      BY <1>1, <1>4, Zenon DEF Take, ServerStates
    <2> QED
      BY <1>2, <1>4, <2>2, <2>3, Zenon DEF Take
  <1>5. ASSUME NEW p \in Servers, SyncDirectory(p)
        PROVE  OnDisk'
    <2>1. FileInv'
      BY <1>5, SyncDirectoryPreservesFileInv
    <2>2. server'[p] \in ServerStates
      BY <2>1 DEF FileInv, TypeOK
    <2>3. server' = [server EXCEPT ![p] = server'[p]] /\ server'[p].at # "durable"
      BY <1>1, <1>5, ZenonT(30) DEF SyncDirectory, ServerStates
    <2> QED
      BY <1>2, <1>5, <2>2, <2>3, Zenon DEF SyncDirectory
  <1>6. ASSUME NEW p \in Servers, AppendFails(p) \/ Stop(p) \/ Kill(p)
        PROVE  OnDisk'
    <2>1. Off \in ServerStates /\ Off.at # "durable"
      <3>1. <<>> \in Seq(Commands) /\ <<>> \in Seq(Pieces)
        BY EmptySeq
      <3> QED
        BY <3>1 DEF Off, ServerStates
    <2>2. server' = [server EXCEPT ![p] = Off] /\ UNCHANGED <<file, synced, named, answered>>
      BY <1>6 DEF AppendFails, Stop, Kill
    <2> QED
      BY <1>2, <2>1, <2>2, Zenon
  \* A write goes behind what is on the disk.
  <1>7. ASSUME NEW p \in Servers, Write(p)
        PROVE  OnDisk'
    <2>1. /\ file' = Append(file, Head(server[p].output)) /\ server[p].at # "off"
          /\ server[p].at # "durable" /\ UNCHANGED <<synced, named, answered>>
      BY <1>7 DEF Write
    <2>2. \A k \in 1..synced : file'[k] = file[k]
      BY <1>1, <2>1
    <2>3. Kept'
      BY <1>1, <2>1, <2>2, AnsweredStays
    <2>4. ASSUME NEW q \in Servers PROVE server'[q].at # "durable"
      <3>1. CASE q = p
        BY <1>1, <1>7, <2>1, <3>1, Zenon DEF Write, ServerStates
      <3>2. CASE q # p
        BY <1>1, <1>7, <2>1, <3>2, Zenon DEF Write, FileInv, Exclusive
      <3> QED
        BY <3>1, <3>2
    <2> QED
      BY <2>1, <2>3, <2>4 DEF OnDisk
  \* A sync brings all of the file to the disk, and its name.
  <1>8. ASSUME NEW p \in Servers, Sync(p)
        PROVE  OnDisk'
    <2>1. synced' = Len(file) /\ named' = TRUE /\ UNCHANGED <<file, answered>>
      BY <1>8, Zenon DEF Sync
    <2>2. Kept'
      BY <1>1, <2>1, AnsweredStays
    <2> QED
      BY <2>1, <2>2 DEF OnDisk
  \* What is answered now is the last record, which is synced.
  <1>9. ASSUME NEW p \in Servers, Process(p)
        PROVE  OnDisk'
    <2> DEFINE c == file[Len(file)].of
               new == [place |-> Len(server[p].state) + 1, command |-> c]
    <2>1. /\ server[p].at = "durable" /\ synced = Len(file) /\ named
          /\ answered' = answered \cup {new} /\ UNCHANGED <<file, synced, named>>
      BY <1>9, SMTT(30) DEF Process, OnDisk
    <2>2. /\ Len(server[p].state) \in Nat /\ Len(file) = 2 * Len(server[p].state) + 4
          /\ Is(file, Len(file) - 1, c, 1) /\ Is(file, Len(file), c, 2)
      <3>1. Len(server[p].state) \in Nat
        <4>1. server[p].state \in Seq(Commands)
          BY <1>1, ZenonT(30) DEF ServerStates
        <4> QED
          BY <4>1, LenProperties
      <3> QED
        BY <2>1, <3>1, DurableRecord
    <2> HIDE DEF c
    <2>3. /\ new.place >= 1 /\ 2 * new.place + 2 <= synced
          /\ Is(file, 2 * new.place + 1, new.command, 1) /\ Is(file, 2 * new.place + 2, new.command, 2)
      BY <2>1, <2>2, SMTT(30)
    <2> HIDE DEF new
    <2>4. Kept'
      BY <2>1, <2>3 DEF OnDisk, Is
    <2>5. \A q \in Servers : server'[q].at = "durable" => server[q].at = "durable"
      BY <1>1, <1>9, Zenon DEF Process, ServerStates
    <2> QED
      BY <2>1, <2>4, <2>5 DEF OnDisk
  \* A power loss takes nothing that is synced, and the file only if it is not named.
  <1>10. CASE PowerLoss
    <2>1. \A q \in Servers : server'[q].at # "durable"
      BY <1>10, ZenonT(30) DEF PowerLoss, Off
    <2>2. CASE ~named /\ file' = <<>>
      <3>1. answered' = {}
        BY <1>10, <2>2, SMTT(30) DEF OnDisk, PowerLoss
      <3> QED
        BY <2>1, <3>1, SMTT(30) DEF OnDisk
    <2>3. ASSUME NEW n \in synced..Len(file), NEW damaged \in BOOLEAN,
                 file' = [k \in 1..n |-> IF damaged /\ k = n /\ n > synced THEN Junk ELSE file[k]]
          PROVE  OnDisk'
      <3>1. /\ n \in Nat /\ n >= synced /\ Len(file') = n
            /\ \A k \in 1..synced : file'[k] = file[k]
        BY <1>1, <2>3
      <3>2. synced' = n /\ answered' = answered /\ named' = (file' # <<>>)
        BY <1>10, <3>1 DEF PowerLoss
      <3>3. Kept'
        BY <3>1, <3>2, AnsweredStays
      <3>4. ASSUME NEW a \in answered PROVE file' # <<>>
        <4>1. a.place \in Nat /\ 2 * a.place + 2 <= synced
          BY DEF FileInv, TypeOK, OnDisk
        <4>2. Len(file') # 0
          BY <1>1, <3>1, <4>1
        <4> QED
          BY <4>2
      <3> QED
        BY <2>1, <3>2, <3>3, <3>4, Zenon DEF OnDisk
    <2> QED
      BY <1>10, <2>2, <2>3, SMTT(30) DEF PowerLoss
  <1>11. CASE UNCHANGED vars
    BY <1>11 DEF vars, OnDisk, Is
  <1> QED
    BY <1>3, <1>4, <1>5, <1>6, <1>7, <1>8, <1>9, <1>10, <1>11 DEF Next

\* For any number of servers, commands, records and failures, where syncing a
\* file makes its name durable: a command whose reports were queued is in its
\* place in the state of every server that runs later.
THEOREM JournalAnsweredIsNeverLost ==
    ASSUME SyncNames
    PROVE  Spec => []AnsweredIsNeverLost
  <1>1. Init => OnDisk
    <2> SUFFICES ASSUME Init PROVE OnDisk
      OBVIOUS
    <2>1. answered = {} /\ \A p \in Servers : server[p].at = "off"
      BY Zenon DEF Init, Off
    <2> QED
      BY <2>1 DEF OnDisk
  <1>2. FileInv /\ OnDisk /\ [Next]_vars => OnDisk'
    BY StepPreservesOnDisk
  <1>3. FileInv /\ OnDisk => AnsweredIsNeverLost
    <2> SUFFICES ASSUME FileInv, OnDisk, NEW p \in Servers, server[p].at = "running", NEW a \in answered
                 PROVE  a.place <= Len(server[p].state) /\ server[p].state[a.place] = a.command
      BY SMTT(30) DEF AnsweredIsNeverLost
    <2>1. Holds(file, server[p].config, server[p].state, 0)
      BY DEF FileInv, Written
    <2>2. server[p].state \in Seq(Commands)
      BY Zenon DEF FileInv, TypeOK, ServerStates
    <2>3. Len(server[p].state) \in Nat
      BY <2>2, LenProperties
    <2>4. /\ a.place \in Nat /\ synced \in Nat /\ Len(file) \in Nat /\ synced <= Len(file)
          /\ a.place >= 1 /\ 2 * a.place + 2 <= synced /\ Is(file, 2 * a.place + 1, a.command, 1)
      BY DEF FileInv, TypeOK, OnDisk
    <2>5. a.place \in 1..Len(server[p].state)
      BY <2>1, <2>3, <2>4, SMTT(30) DEF Holds
    <2>6. Is(file, 2 * a.place + 1, server[p].state[a.place], 1)
      BY <2>1, <2>5, SMTT(30) DEF Holds
    <2> QED
      BY <2>3, <2>4, <2>5, <2>6 DEF Is
  <1> QED
    BY <1>1, <1>2, <1>3, FileInvariant, PTL DEF Spec
=============================================================================

-------------------------- MODULE LedgerChainProofs --------------------------
(***************************************************************************)
(* For any writers, bodies and bounds: appends to the JSON-lines ledger    *)
(* that do not overlap keep it whole, and an event that was acknowledged   *)
(* is never lost from a file that still verifies, whatever overlaps or     *)
(* crashes.                                                                *)
(***************************************************************************)
EXTENDS LedgerChain, SequenceTheorems, TLAPS

\* Every acknowledged event is on a line of its own, or the file is damaged.
AckedOrDamaged ==
    HasDamage(file) \/ \A e \in acked : \E i \in DOMAIN file : file[i].event = e

\* A line without newline comes from a crash, and so does damage.
CrashMarks ==
    crashes = 0 => \A i \in DOMAIN file : file[i].ok /\ file[i].ended

IInv ==
    /\ TypeOK
    /\ AckedOrDamaged
    /\ CrashMarks
    /\ DamageIsLast
    /\ WriterFollowsLast

-----------------------------------------------------------------------------
\* What AppendText does to the lines, by the case it takes.
LEMMA AppendTextCases ==
    ASSUME TypeOK, NEW line, file' = AppendText(line),
           line.ended \in BOOLEAN, line.ok \in BOOLEAN,
           NEW n \in Nat, n = Len(file)
    PROVE  \/ /\ n > 0 /\ ~file[n].ended
              /\ DOMAIN file' = 1..n /\ Len(file') = n
              /\ \A i \in 1..(n - 1) : file'[i] = file[i]
              /\ file'[n] = Damaged(line.ended)
           \/ /\ n > 0 => file[n].ended
              /\ DOMAIN file' = 1..(n + 1) /\ Len(file') = n + 1
              /\ \A i \in 1..n : file'[i] = file[i]
              /\ file'[n + 1] = line
<1> DEFINE S == {file[i] : i \in DOMAIN file}
<1>1. file \in Seq(S) /\ DOMAIN file = 1..n
  BY DEF TypeOK
<1>2. file = <<>> <=> n = 0
  BY <1>1, EmptySeq
<1>3. CASE n > 0 /\ ~file[n].ended
  <2>1. file' = [file EXCEPT ![n] = Damaged(line.ended)]
    BY <1>2, <1>3 DEF AppendText, LastLine
  <2>2. DOMAIN file' = 1..n
    BY <1>1, <2>1
  <2>3. file' \in Seq(S \cup {Damaged(line.ended)})
    BY <1>1, <2>1, <1>3
  <2>4. QED
    BY <1>1, <1>3, <2>1, <2>2, <2>3
<1>4. CASE ~(n > 0 /\ ~file[n].ended)
  <2>1. file' = Append(file, line)
    BY <1>2, <1>4 DEF AppendText, LastLine
  <2>2. file \in Seq(S \cup {line})
    BY <1>1, SeqMonotonic
  <2>3. QED
    BY <1>1, <1>4, <2>1, <2>2, AppendProperties
<1>5. QED
  BY <1>3, <1>4

\* Whatever text a writer adds, the file stays a sequence of lines of which only
\* the last can lack its newline.
LEMMA AppendTextTypes ==
    ASSUME TypeOK, NEW line, file' = AppendText(line),
           line.ended \in BOOLEAN, line.ok \in BOOLEAN
    PROVE  /\ file' \in Seq({file'[i] : i \in DOMAIN file'})
           /\ \A i \in DOMAIN file' : ~file'[i].ended => i = Len(file')
<1>1. PICK n \in Nat : n = Len(file) /\ DOMAIN file = 1..n
  BY DEF TypeOK
<1>2. \A i \in 1..n : ~file[i].ended => i = n
  BY <1>1 DEF TypeOK
<1>3. PICK m \in Nat : DOMAIN file' = 1..m /\ Len(file') = m
  BY <1>1, AppendTextCases
<1>4. file' \in Seq({file'[i] : i \in DOMAIN file'})
  <2>1. file' = [i \in 1..m |-> file'[i]]
    <3>1. \A T : \A f \in Seq(T) : f = [i \in DOMAIN f |-> f[i]]
      OBVIOUS
    <3>2. \E T : file' \in Seq(T)
      <4> DEFINE S == {file[i] : i \in DOMAIN file}
      <4>1. file \in Seq(S)
        BY DEF TypeOK
      <4>2. file \in Seq(S \cup {line, Damaged(line.ended)})
        BY <4>1, SeqMonotonic
      <4>3. file' \in Seq(S \cup {line, Damaged(line.ended)})
        <5> DEFINE U == S \cup {line, Damaged(line.ended)}
        <5>1. line \in U /\ Damaged(line.ended) \in U /\ file \in Seq(U)
          BY <4>2
        <5>2. Append(file, line) \in Seq(U)
          BY <5>1, AppendProperties
        <5>3. file # <<>> => n \in 1..Len(file)
          BY <1>1, <5>1, EmptySeq
        <5>4. file # <<>> => [file EXCEPT ![n] = Damaged(line.ended)] \in Seq(U)
          BY <5>1, <5>3, ExceptSeq
        <5> HIDE DEF U
        <5>5. file' \in Seq(U)
          BY <1>1, <5>2, <5>4 DEF AppendText
        <5>6. QED
          BY <5>5 DEF U
      <4>4. QED
        BY <4>3
    <3>3. QED
      BY <1>3, <3>1, <3>2
  <2>2. \A i \in 1..m : file'[i] \in {file'[j] : j \in DOMAIN file'}
    BY <1>3
  <2> DEFINE R == {file'[j] : j \in DOMAIN file'}
  <2> HIDE DEF R
  <2>3. \A i \in 1..m : file'[i] \in R
    BY <2>2 DEF R
  <2>4. file' \in [1..m -> R]
    BY <2>1, <2>3
  <2>5. file' \in Seq(R)
    BY <2>4, SeqDef
  <2>6. QED
    BY <2>5 DEF R
<1>5. \A i \in DOMAIN file' : ~file'[i].ended => i = Len(file')
  BY <1>1, <1>2, AppendTextCases
<1>6. QED
  BY <1>4, <1>5

\* Damage never goes away, and an event stays on its line or its line is damaged.
LEMMA LinesKept ==
    ASSUME TypeOK, NEW line, file' = AppendText(line),
           line.ended \in BOOLEAN, line.ok \in BOOLEAN
    PROVE  /\ HasDamage(file) => HasDamage(file')
           /\ \/ HasDamage(file')
              \/ /\ \A i \in DOMAIN file : i \in DOMAIN file' /\ file'[i] = file[i]
                 /\ \E i \in DOMAIN file' : file'[i] = line
<1>1. PICK n \in Nat : n = Len(file) /\ DOMAIN file = 1..n
  BY DEF TypeOK
<1>2. \/ /\ n > 0 /\ DOMAIN file' = 1..n
         /\ file'[n] = Damaged(line.ended)
      \/ /\ DOMAIN file' = 1..(n + 1)
         /\ \A i \in 1..n : file'[i] = file[i]
         /\ file'[n + 1] = line
  BY <1>1, AppendTextCases
<1>3. CASE n > 0 /\ DOMAIN file' = 1..n /\ file'[n] = Damaged(line.ended)
  <2>1. HasDamage(file')
    BY <1>3 DEF HasDamage, Damaged
  <2>2. QED
    BY <2>1
<1>4. CASE /\ DOMAIN file' = 1..(n + 1)
           /\ \A i \in 1..n : file'[i] = file[i]
           /\ file'[n + 1] = line
  <2>1. \A i \in DOMAIN file : i \in DOMAIN file' /\ file'[i] = file[i]
    BY <1>1, <1>4
  <2>2. n + 1 \in DOMAIN file'
    BY <1>4
  <2>3. HasDamage(file) => HasDamage(file')
    BY <2>1 DEF HasDamage
  <2>4. QED
    BY <1>4, <2>1, <2>2, <2>3
<1>5. QED
  BY <1>2, <1>3, <1>4

\* Acknowledged events are on their lines or the damage shows.
LEMMA AckedStep ==
    ASSUME TypeOK, AckedOrDamaged, [Next]_vars
    PROVE  AckedOrDamaged'
<1>1. CASE file' = file /\ acked' = acked
  BY <1>1 DEF AckedOrDamaged, HasDamage
<1>2. ASSUME NEW w \in Writers, Write(w)
      PROVE  AckedOrDamaged'
  <2>1. Whole(call[w]).ok \in BOOLEAN /\ Whole(call[w]).ended \in BOOLEAN
    BY DEF Whole
  <2>2. /\ HasDamage(file) => HasDamage(file')
        /\ \/ HasDamage(file')
           \/ /\ \A i \in DOMAIN file : i \in DOMAIN file' /\ file'[i] = file[i]
              /\ \E i \in DOMAIN file' : file'[i] = Whole(call[w])
    BY <1>2, <2>1, LinesKept DEF Write
  <2>3. acked' = acked \cup {call[w]} /\ Whole(call[w]).event = call[w]
    BY <1>2 DEF Write, Whole
  <2>4. CASE HasDamage(file')
    BY <2>4 DEF AckedOrDamaged
  <2>5. CASE ~HasDamage(file')
    <3>1. ~HasDamage(file)
      BY <2>2, <2>5
    <3>2. \A e \in acked : \E i \in DOMAIN file' : file'[i].event = e
      BY <2>2, <2>5, <3>1 DEF AckedOrDamaged
    <3>3. \E i \in DOMAIN file' : file'[i].event = call[w]
      BY <2>2, <2>3, <2>5
    <3>4. QED
      BY <2>3, <3>2, <3>3 DEF AckedOrDamaged
  <2>6. QED
    BY <2>4, <2>5
<1>3. ASSUME NEW w \in Writers, Crash(w), file' # file
      PROVE  AckedOrDamaged'
  <2>1. PICK line : /\ file' = AppendText(line)
                    /\ line.ok \in BOOLEAN /\ line.ended \in BOOLEAN
    <3>1. \/ file' = AppendText(Damaged(FALSE))
          \/ file' = AppendText(Unended(call[w]))
          \/ file' = AppendText(Whole(call[w]))
      BY <1>3 DEF Crash
    <3>2. /\ Damaged(FALSE).ok \in BOOLEAN /\ Damaged(FALSE).ended \in BOOLEAN
          /\ Unended(call[w]).ok \in BOOLEAN /\ Unended(call[w]).ended \in BOOLEAN
          /\ Whole(call[w]).ok \in BOOLEAN /\ Whole(call[w]).ended \in BOOLEAN
      BY DEF Whole, Unended, Damaged
    <3>3. QED
      BY <3>1, <3>2
  <2>2. /\ HasDamage(file) => HasDamage(file')
        /\ \/ HasDamage(file')
           \/ \A i \in DOMAIN file : i \in DOMAIN file' /\ file'[i] = file[i]
    BY <2>1, LinesKept
  <2>3. QED
    BY <1>3, <2>2 DEF Crash, AckedOrDamaged
<1>4. QED
  BY <1>1, <1>2, <1>3 DEF Next, Step, ReadLast, Crash, vars

-----------------------------------------------------------------------------
\* Line i is an event that names its predecessor and carries its own hash.
Linked(lines, i) ==
    /\ lines[i].ok
    /\ lines[i].event.prev = PrevHash(lines, i)
    /\ lines[i].event.hash = Digest(PrevHash(lines, i), lines[i].event.body)

\* verify_chain of the first k lines looks at those lines one by one.
LEMMA VerifyPrefix ==
    ASSUME NEW S, NEW lines \in Seq(S), NEW k \in Int, k <= Len(lines)
    PROVE  VerifyChain(SubSeq(lines, 1, k)) <=> \A i \in 1..k : Linked(lines, i)
<1> DEFINE front == SubSeq(lines, 1, k)
<1>1. \A i \in 1..k : lines[i] \in S
  BY ElementOfSeq
<1>2. /\ front \in Seq(S)
      /\ Len(front) = IF 1 <= k THEN k - 1 + 1 ELSE 0
      /\ \A i \in 1..(k - 1 + 1) : front[i] = lines[1 + i - 1]
  BY <1>1, SubSeqProperties
<1>3. DOMAIN front = 1..k
  BY <1>2
<1>4. \A i \in 1..k : front[i] = lines[i]
  BY <1>2
<1>5. \A i \in 1..k : PrevHash(front, i) = PrevHash(lines, i)
  BY <1>4 DEF PrevHash
<1> HIDE DEF front
<1>6. VerifyChain(front) <=> \A i \in 1..k : Linked(lines, i)
  BY <1>3, <1>4, <1>5 DEF VerifyChain, HasDamage, Linked
<1>7. QED
  BY <1>6 DEF front

\* verify_chain of the whole file, likewise.
LEMMA VerifyWhole ==
    ASSUME TypeOK
    PROVE  VerifyChain(file) <=> \A i \in 1..Len(file) : Linked(file, i)
<1>1. DOMAIN file = 1..Len(file)
  BY DEF TypeOK
<1>2. QED
  BY <1>1 DEF VerifyChain, HasDamage, Linked

\* DamageIsLast, line by line.
LEMMA DamageByLine ==
    ASSUME TypeOK
    PROVE  DamageIsLast <=>
             (~overlap => /\ \A i \in 1..(Len(file) - 1) : Linked(file, i)
                          /\ HasDamage(file) \/ \A i \in 1..Len(file) : Linked(file, i))
<1>1. Len(file) \in Nat
  BY DEF TypeOK
<1>2. VerifyChain(SubSeq(file, 1, Len(file) - 1))
        <=> \A i \in 1..(Len(file) - 1) : Linked(file, i)
  BY <1>1, VerifyPrefix DEF TypeOK
<1>3. QED
  BY <1>2, VerifyWhole DEF DamageIsLast

\* Text added by the only writer, to a file that verifies, keeps the damage, if
\* any, in the last line.
LEMMA SoleWrite ==
    ASSUME TypeOK, VerifyChain(file), NEW line, file' = AppendText(line),
           line.ended \in BOOLEAN, line.ok \in BOOLEAN,
           line.ok => line.event = Event(line.event.body, ReadLastHash)
    PROVE  /\ \A i \in 1..(Len(file') - 1) : Linked(file', i)
           /\ HasDamage(file') \/ \A i \in 1..Len(file') : Linked(file', i)
<1>1. PICK n \in Nat : n = Len(file) /\ DOMAIN file = 1..n
  BY DEF TypeOK
<1>2. \A i \in 1..n : Linked(file, i)
  BY <1>1, VerifyWhole
<1>3. CASE /\ n > 0
           /\ DOMAIN file' = 1..n /\ Len(file') = n
           /\ \A i \in 1..(n - 1) : file'[i] = file[i]
           /\ file'[n] = Damaged(line.ended)
  <2>1. \A i \in 1..(n - 1) : Linked(file', i)
    BY <1>2, <1>3 DEF Linked, PrevHash
  <2>2. HasDamage(file')
    BY <1>3 DEF HasDamage, Damaged
  <2>3. QED
    BY <1>3, <2>1, <2>2
<1>4. CASE /\ DOMAIN file' = 1..(n + 1) /\ Len(file') = n + 1
           /\ \A i \in 1..n : file'[i] = file[i]
           /\ file'[n + 1] = line
  <2>1. \A i \in 1..n : Linked(file', i)
    BY <1>2, <1>4 DEF Linked, PrevHash
  <2>2. CASE ~line.ok
    BY <1>4, <2>1, <2>2 DEF HasDamage
  <2>3. CASE line.ok
    <3>1. ReadLastHash = PrevHash(file', n + 1)
      <4>1. file = <<>> <=> n = 0
        BY <1>1, EmptySeq DEF TypeOK
      <4>2. QED
        BY <1>1, <1>4, <4>1 DEF ReadLastHash, PrevHash, LastLine
    <3>2. Linked(file', n + 1)
      BY <1>4, <2>3, <3>1 DEF Linked, Event
    <3>3. \A i \in 1..(n + 1) : Linked(file', i)
      BY <2>1, <3>2
    <3>4. QED
      BY <1>4, <2>1, <3>3
  <2>4. QED
    BY <2>2, <2>3
<1>5. QED
  BY <1>1, <1>3, <1>4, AppendTextCases

-----------------------------------------------------------------------------
\* The initial state satisfies the invariant.
LEMMA InitIInv == Init => IInv
<1> SUFFICES ASSUME Init PROVE IInv
  OBVIOUS
<1>1. file = <<>> /\ DOMAIN file = {} /\ Len(file) = 0 /\ file \in Seq({})
  BY DEF Init
<1>2. TypeOK
  <2>1. {file[i] : i \in DOMAIN file} = {}
    BY <1>1
  <2>2. file \in Seq({file[i] : i \in DOMAIN file})
    BY <1>1, <2>1
  <2>3. pc \in [Writers -> {"idle", "read"}] /\ DOMAIN call = Writers
    BY DEF Init
  <2>4. crashes \in 0..MaxCrashes /\ overlap \in BOOLEAN
    <3>1. crashes = 0 /\ overlap = FALSE /\ MaxCrashes \in Nat
      BY BoundAssumption DEF Init
    <3>2. crashes \in 0..MaxCrashes
      BY <3>1
    <3>3. QED
      BY <3>1, <3>2
  <2>5. QED
    BY <1>1, <2>2, <2>3, <2>4 DEF TypeOK
<1>3. DamageIsLast
  BY <1>1, <1>2, DamageByLine
<1>4. QED
  BY <1>1, <1>2, <1>3 DEF Init, IInv, AckedOrDamaged, CrashMarks, WriterFollowsLast

\* A writer that finds the last line readable finds the chain whole, provided
\* that no append overlapped so far.
LEMMA ReadStep ==
    ASSUME IInv, NEW w \in Writers, NEW b \in Bodies, ReadLast(w, b)
    PROVE  IInv'
<1> USE DEF ReadLast, Transition
<1>1. file' = file /\ crashes' = crashes /\ acked' = acked
  OBVIOUS
<1>2. overlap' \in BOOLEAN /\ (~overlap' => ~overlap)
  BY DEF IInv, TypeOK
<1>3. TypeOK'
  BY <1>1, <1>2 DEF IInv, TypeOK
<1>4. AckedOrDamaged' /\ CrashMarks' /\ DamageIsLast'
  BY <1>1, <1>2 DEF IInv, AckedOrDamaged, CrashMarks, DamageIsLast, HasDamage
<1>5. ASSUME ~overlap' PROVE VerifyChain(file)
  <2>1. PICK n \in Nat : n = Len(file) /\ DOMAIN file = 1..n
    BY DEF IInv, TypeOK
  <2>2. \A i \in 1..(n - 1) : Linked(file, i)
    BY <1>2, <1>5, <2>1, DamageByLine DEF IInv
  <2>3. n > 0 => file[n].ok
    <3>1. file = <<>> <=> n = 0
      BY <2>1, EmptySeq DEF IInv, TypeOK
    <3>2. QED
      BY <2>1, <3>1 DEF LastLineParses, LastLine
  <2>4. ~HasDamage(file)
    BY <2>1, <2>2, <2>3 DEF HasDamage, Linked
  <2>5. QED
    BY <1>2, <1>5, <2>4, DamageByLine, VerifyWhole DEF IInv
<1>6. WriterFollowsLast'
  <2> SUFFICES ASSUME ~overlap', NEW v \in Writers, pc'[v] = "read"
               PROVE  /\ \A u \in Writers \ {v} : pc'[u] = "idle"
                      /\ VerifyChain(file')
                      /\ call'[v] = Event(call'[v].body, ReadLastHash')
    BY DEF WriterFollowsLast
  <2>1. \A u \in Writers \ {w} : pc[u] # "read"
    BY DEF IInv, TypeOK
  <2>2. v = w
    BY <2>1 DEF IInv, TypeOK
  <2>3. call'[w] = Event(b, ReadLastHash) /\ call'[w].body = b
    BY DEF IInv, TypeOK, Event
  <2>4. ReadLastHash' = ReadLastHash
    BY <1>1 DEF ReadLastHash, LastLine
  <2>5. QED
    BY <1>1, <1>5, <2>1, <2>2, <2>3, <2>4 DEF IInv, TypeOK
<1>7. QED
  BY <1>3, <1>4, <1>6 DEF IInv

\* A writer's text reaches the file, in whole or cut short by a crash.
LEMMA TextStep ==
    ASSUME IInv, NEW w \in Writers, Write(w) \/ Crash(w), AckedOrDamaged'
    PROVE  IInv'
<1>1. /\ pc[w] = "read" /\ pc' = [pc EXCEPT ![w] = "idle"]
      /\ call' = [call EXCEPT ![w] = NoEvent] /\ overlap' = overlap
  BY DEF Write, Crash, Transition
<1>2. crashes' \in 0..MaxCrashes /\ crashes' >= crashes
  <2>1. crashes \in 0..MaxCrashes /\ MaxCrashes \in Nat
    BY BoundAssumption DEF IInv, TypeOK
  <2>2. crashes' = crashes \/ (crashes < MaxCrashes /\ crashes' = crashes + 1)
    BY DEF Write, Crash
  <2>3. QED
    BY <2>1, <2>2
<1>3. WriterFollowsLast'
  <2>1. ~overlap => \A v \in Writers : pc'[v] = "idle"
    BY <1>1 DEF IInv, TypeOK, WriterFollowsLast
  <2>2. QED
    BY <1>1, <2>1 DEF WriterFollowsLast
<1>4. CASE file' = file /\ Crash(w)
  <2>1. TypeOK'
    BY <1>1, <1>2, <1>4 DEF IInv, TypeOK
  <2>2. CrashMarks' /\ DamageIsLast'
    BY <1>1, <1>4, BoundAssumption
       DEF IInv, TypeOK, CrashMarks, DamageIsLast, HasDamage, Crash
  <2>3. QED
    BY <1>3, <2>1, <2>2 DEF IInv
<1>5. CASE \E line \in {Whole(call[w]), Unended(call[w]), Damaged(FALSE)} :
             file' = AppendText(line) /\ (Crash(w) \/ line = Whole(call[w]))
  <2>1. PICK line \in {Whole(call[w]), Unended(call[w]), Damaged(FALSE)} :
          file' = AppendText(line) /\ (Crash(w) \/ line = Whole(call[w]))
    BY <1>5
  <2>2. /\ line.ended \in BOOLEAN /\ line.ok \in BOOLEAN
        /\ line.ok => line.event = call[w]
    <3>1. CASE line = Whole(call[w])
      BY <3>1 DEF Whole
    <3>2. CASE line = Unended(call[w])
      BY <3>2 DEF Unended
    <3>3. CASE line = Damaged(FALSE)
      BY <3>3 DEF Damaged
    <3>4. QED
      BY <2>1, <3>1, <3>2, <3>3
  <2>3. TypeOK'
    BY <1>1, <1>2, <2>1, <2>2, AppendTextTypes DEF IInv, TypeOK
  <2>4. DamageIsLast'
    <3> SUFFICES ASSUME ~overlap PROVE DamageIsLast'
      BY <1>1 DEF DamageIsLast
    <3>1. VerifyChain(file) /\ call[w] = Event(call[w].body, ReadLastHash)
      BY <1>1 DEF IInv, WriterFollowsLast
    <3>2. /\ \A i \in 1..(Len(file') - 1) : Linked(file', i)
          /\ HasDamage(file') \/ \A i \in 1..Len(file') : Linked(file', i)
      <4>1. line.ok => line.event = Event(line.event.body, ReadLastHash)
        BY <2>2, <3>1
      <4>2. QED
        BY <2>1, <2>2, <3>1, <4>1, SoleWrite DEF IInv
    <3>3. DOMAIN file' = 1..Len(file') /\ Len(file') \in Nat
      BY <2>3 DEF TypeOK
    <3>4. VerifyChain(SubSeq(file', 1, Len(file') - 1))
            <=> \A i \in 1..(Len(file') - 1) : Linked(file', i)
      BY <2>3, <3>3, VerifyPrefix DEF TypeOK
    <3>5. VerifyChain(file') <=> \A i \in 1..Len(file') : Linked(file', i)
      BY <3>3 DEF VerifyChain, HasDamage, Linked
    <3>6. QED
      BY <3>2, <3>4, <3>5 DEF DamageIsLast
  <2>5. CrashMarks'
    <3>1. CASE Crash(w)
      BY <1>2, <3>1, BoundAssumption DEF Crash, CrashMarks, IInv, TypeOK
    <3>2. CASE line = Whole(call[w]) /\ ~Crash(w)
      <4>1. crashes' = crashes
        BY <3>2 DEF Write
      <4>2. PICK n \in Nat : n = Len(file) /\ DOMAIN file = 1..n
        BY DEF IInv, TypeOK
      <4>3. crashes = 0 =>
              /\ DOMAIN file' = 1..(n + 1)
              /\ \A i \in 1..n : file'[i] = file[i]
              /\ file'[n + 1] = line
        BY <2>1, <2>2, <4>2, AppendTextCases DEF IInv, CrashMarks
      <4>4. QED
        BY <3>2, <4>1, <4>2, <4>3 DEF IInv, CrashMarks, Whole
    <3>3. QED
      BY <2>1, <3>1, <3>2
  <2>6. QED
    BY <1>3, <2>3, <2>4, <2>5 DEF IInv
<1>6. QED
  BY <1>4, <1>5 DEF Write, Crash

\* Every step preserves the invariant.
LEMMA NextIInv == IInv /\ [Next]_vars => IInv'
<1> SUFFICES ASSUME IInv, [Next]_vars PROVE IInv'
  OBVIOUS
<1>1. AckedOrDamaged'
  BY AckedStep DEF IInv
<1>2. ASSUME NEW w \in Writers, Step(w) PROVE IInv'
  BY <1>1, <1>2, ReadStep, TextStep DEF Step
<1>3. CASE UNCHANGED vars
  BY <1>3 DEF vars, IInv, TypeOK, AckedOrDamaged, CrashMarks, DamageIsLast,
              WriterFollowsLast, HasDamage, ReadLastHash, LastLine
<1>4. QED
  BY <1>2, <1>3 DEF Next

\* The invariant holds throughout.
THEOREM Inductive == Spec => []IInv
BY InitIInv, NextIInv, PTL DEF Spec

\* The file is a sequence of lines of which only the last can lack its newline.
THEOREM TypeCorrect == Spec => []TypeOK
BY Inductive, PTL DEF IInv

\* As long as verify_chain succeeds, the file holds every event for which
\* append_event returned: loss by overlap or crash never goes unnoticed.
THEOREM NothingLostSilently == Spec => []AckedOrDetected
<1>1. IInv => AckedOrDetected
  BY DEF IInv, AckedOrDamaged, AckedOrDetected, VerifyChain
<1>2. QED
  BY <1>1, Inductive, PTL

\* Appends that do not overlap, by processes that do not crash, keep the chain
\* verifiable.
THEOREM SequentialIsSafe == Spec => []SequentialVerifies
<1>1. IInv => SequentialVerifies
  <2> SUFFICES ASSUME IInv, ~overlap, crashes = 0 PROVE VerifyChain(file)
    BY DEF SequentialVerifies
  <2>1. ~HasDamage(file)
    BY DEF IInv, CrashMarks, HasDamage
  <2>2. QED
    BY <2>1 DEF IInv, DamageIsLast
<1>2. QED
  BY <1>1, Inductive, PTL

\* Crashes of appends that do not overlap damage the last line only.
THEOREM DamageStaysLast == Spec => []DamageIsLast
BY Inductive, PTL DEF IInv

\* After damage nothing is added and nothing acknowledged: append_event finds
\* the damaged line last and raises.
THEOREM DamageStops == Spec => FailStop
<1>1. IInv /\ [Next]_vars =>
          [~overlap /\ HasDamage(file) => acked' = acked /\ Len(file') = Len(file)]_vars
  <2> SUFFICES ASSUME IInv, Next, ~overlap, HasDamage(file)
               PROVE  acked' = acked /\ Len(file') = Len(file)
    OBVIOUS
  <2>1. \A w \in Writers : pc[w] # "read"
    BY DEF IInv, WriterFollowsLast, VerifyChain
  <2>2. \E w \in Writers, b \in Bodies : ReadLast(w, b)
    BY <2>1 DEF Next, Step, Write, Crash, Transition
  <2> QED
    BY <2>2 DEF ReadLast
<1>2. QED
  BY <1>1, Inductive, PTL DEF Spec, FailStop
=============================================================================

---------------------------- MODULE ServerProofs ----------------------------
(***************************************************************************)
(* Proofs about Server, for any clients, accounts, rooms and connections,  *)
(* and for every plan of every route.                                      *)
(***************************************************************************)
EXTENDS Server, FiniteSetTheorems, SequenceTheorems, TLAPS

\* The statements that plans are made of.
LEMMA DoesType ==
  ASSUME NEW on \in {"nothing", "own", "begin", "tx", "commit"},
         NEW errors \in SUBSET Errors
  PROVE  /\ Does(on, errors) \in Statement
         /\ Does(on, errors).on = on /\ Does(on, errors).throws = errors
         /\ Does(on, errors).locks = {} /\ ~Does(on, errors).writes
  <1> DEFINE w == FALSE
             s == [on |-> on, locks |-> {}, writes |-> w, throws |-> errors]
  <1>1. w \in BOOLEAN /\ Does(on, errors) = s
    BY DEF Does
  <1> HIDE DEF w
  <1>2. s \in Statement /\ s.on = on /\ s.throws = errors /\ s.locks = {}
    BY <1>1 DEF Statement
  <1>3. s.writes = w
    BY Zenon
  <1> QED
    BY <1>1, <1>2, <1>3 DEF w

LEMMA WritesType ==
  ASSUME NEW s \in Statement, NEW t, t = [s EXCEPT !.writes = TRUE]
  PROVE  /\ t \in Statement /\ t.writes /\ t.on = s.on /\ t.throws = s.throws
         /\ t.locks = s.locks
  <1> DEFINE w == TRUE
  <1>1. w \in BOOLEAN /\ t = [s EXCEPT !.writes = w]
    OBVIOUS
  <1> HIDE DEF w
  <1>2. t \in Statement /\ t.on = s.on /\ t.throws = s.throws /\ t.locks = s.locks
    BY <1>1 DEF Statement
  <1>3. t.writes = w
    BY <1>1, Zenon DEF Statement
  <1> QED
    BY <1>2, <1>3 DEF w

LEMMA LocksType ==
  ASSUME NEW s \in Statement, NEW locks \in SUBSET (Row \X Mode)
  PROVE  LET t == [s EXCEPT !.locks = locks]
         IN  t \in Statement /\ t.on = s.on /\ t.throws = s.throws /\ t.locks = locks
  BY DEF Statement

LEMMA LocksWrite ==
  ASSUME NEW s \in Statement, NEW locks
  PROVE  [s EXCEPT !.locks = locks].writes = s.writes
  BY Zenon DEF Statement

LEMMA CheckType ==
  ASSUME NEW errors \in SUBSET Errors
  PROVE  /\ Check(errors) \in Statement /\ Check(errors).on = "nothing"
         /\ ~Check(errors).writes /\ Check(errors).throws = errors
  BY DoesType DEF Check

LEMMA ReadType ==
  ASSUME NEW errors \in SUBSET Errors
  PROVE  /\ Read(errors) \in Statement /\ Read(errors).on = "own"
         /\ ~Read(errors).writes /\ Read(errors).throws = errors
  BY DoesType DEF Read

LEMMA WriteType ==
  ASSUME NEW errors \in SUBSET Errors
  PROVE  /\ Write(errors) \in Statement /\ Write(errors).on = "own"
         /\ Write(errors).throws = errors
  BY ReadType, WritesType DEF Write

LEMMA WriteRowType ==
  ASSUME NEW errors \in SUBSET Errors, NEW row \in Row, NEW mode \in Mode
  PROVE  /\ WriteRow(row, mode, errors) \in Statement
         /\ WriteRow(row, mode, errors).on = "own"
         /\ WriteRow(row, mode, errors).throws = errors
  <1> DEFINE locks == {<<row, mode>>}
  <1>1. locks \in SUBSET (Row \X Mode)
    OBVIOUS
  <1>2. WriteRow(row, mode, errors) = [Write(errors) EXCEPT !.locks = locks]
    BY DEF WriteRow
  <1> HIDE DEF locks
  <1> QED
    BY <1>1, <1>2, WriteType, LocksType

LEMMA BeginType == Begin \in Statement /\ Begin.on = "begin" /\ ~Begin.writes
  <1>1. {} \in SUBSET Errors
    OBVIOUS
  <1> QED
    BY <1>1, DoesType DEF Begin

LEMMA InTxType ==
  ASSUME NEW errors \in SUBSET Errors
  PROVE  InTx(errors) \in Statement /\ InTx(errors).on = "tx" /\ ~InTx(errors).writes
  BY DoesType DEF InTx

LEMMA LockType ==
  ASSUME NEW errors \in SUBSET Errors, NEW row \in Row, NEW mode \in Mode
  PROVE  /\ Lock(row, mode, errors) \in Statement
         /\ Lock(row, mode, errors).on = "tx" /\ ~Lock(row, mode, errors).writes
  <1> DEFINE locks == {<<row, mode>>}
  <1>1. locks \in SUBSET (Row \X Mode)
    OBVIOUS
  <1>2. Lock(row, mode, errors) = [InTx(errors) EXCEPT !.locks = locks]
    BY DEF Lock
  <1> HIDE DEF locks
  <1>3. PICK s \in Statement : s = InTx(errors) /\ s.on = "tx" /\ ~s.writes
    BY InTxType
  <1>4. PICK t : t = [s EXCEPT !.locks = locks]
    OBVIOUS
  <1>5. t \in Statement /\ t.on = s.on
    BY <1>1, <1>4, LocksType
  <1>6. t.writes = s.writes
    BY <1>4, LocksWrite, Zenon
  <1>7. t = Lock(row, mode, errors)
    BY <1>2, <1>3, <1>4, Zenon
  <1> QED
    BY <1>3, <1>5, <1>6, <1>7, Zenon

LEMMA CommitType == Commit \in Statement /\ Commit.on = "commit"
  <1>1. {} \in SUBSET Errors
    OBVIOUS
  <1> QED
    BY <1>1, DoesType, WritesType DEF Commit

-----------------------------------------------------------------------------
\* A part of a plan with what it writes: nothing, or nothing but its last.
Part(plan, before, after, writes) ==
  /\ Frames(plan, before, after)
  /\ \A i \in 1 .. Len(plan) : plan[i].writes => writes /\ i = Len(plan)

\* Two parts make one.
LEMMA FramesJoin ==
  ASSUME NEW a \in BOOLEAN, NEW b \in BOOLEAN, NEW c \in BOOLEAN,
         NEW p, NEW q, Frames(p, a, b), Frames(q, b, c)
  PROVE  Frames(p \o q, a, c)
  <1>a. PICK s : s = p \o q
    OBVIOUS
  <1>b. PICK m \in Nat : m = Len(p)
    BY LenProperties DEF Frames
  <1>c. PICK n \in Nat : n = Len(q)
    BY LenProperties DEF Frames
  <1>1. /\ s \in Seq(Statement) /\ Len(s) = m + n
        /\ \A i \in 1 .. m : s[i] = p[i]
        /\ \A i \in 1 .. n : s[m + i] = q[i]
    BY <1>a, <1>b, <1>c, ConcatProperties DEF Frames
  <1>2. ASSUME NEW first \in Int, NEW last \in Int, last <= m, first >= 1, NEW on,
               Within(p, first, last, on)
        PROVE  Within(s, first, last, on)
    BY <1>1, <1>2 DEF Within
  <1>3. ASSUME NEW first \in Int, NEW last \in Int, last <= n, first >= 1, NEW on,
               Within(q, first, last, on)
        PROVE  Within(s, m + first, m + last, on)
    <2>1. PICK i \in first .. last : q[i].on = on
      BY <1>3 DEF Within
    <2>2. m + i \in m + first .. m + last /\ s[m + i].on = on
      BY <1>1, <1>3, <2>1
    <2> QED
      BY <2>2 DEF Within
  <1>4. ASSUME NEW i \in Int, NEW j \in Int, NEW k \in Int, NEW l \in Int, k <= i, j <= l,
               NEW on, Within(s, i, j, on)
        PROVE  Within(s, k, l, on)
    BY <1>4 DEF Within
  <1>p. /\ a => b \/ Within(p, 1, m, "commit")
        /\ b => a \/ Within(p, 1, m, "begin")
        /\ \A i \in 1 .. m :
             /\ p[i].on = "begin" => b \/ Within(p, i + 1, m, "commit")
             /\ p[i].on = "tx" => a \/ Within(p, 1, i - 1, "begin")
             /\ p[i].on = "commit" =>
                  /\ b => Within(p, i + 1, m, "begin")
                  /\ \A j \in i + 1 .. m :
                       p[j].on = "tx" => Within(p, i + 1, j - 1, "begin")
    BY <1>b DEF Frames
  <1>q. /\ b => c \/ Within(q, 1, n, "commit")
        /\ c => b \/ Within(q, 1, n, "begin")
        /\ \A i \in 1 .. n :
             /\ q[i].on = "begin" => c \/ Within(q, i + 1, n, "commit")
             /\ q[i].on = "tx" => b \/ Within(q, 1, i - 1, "begin")
             /\ q[i].on = "commit" =>
                  /\ c => Within(q, i + 1, n, "begin")
                  /\ \A j \in i + 1 .. n :
                       q[j].on = "tx" => Within(q, i + 1, j - 1, "begin")
    BY <1>c DEF Frames
  <1>6. /\ a => c \/ Within(s, 1, m + n, "commit")
        /\ c => a \/ Within(s, 1, m + n, "begin")
    <2>1. Within(p, 1, m, "commit") => Within(s, 1, m + n, "commit")
      BY <1>2, <1>4
    <2>2. Within(q, 1, n, "commit") => Within(s, 1, m + n, "commit")
      BY <1>3, <1>4
    <2>3. Within(p, 1, m, "begin") => Within(s, 1, m + n, "begin")
      BY <1>2, <1>4
    <2>4. Within(q, 1, n, "begin") => Within(s, 1, m + n, "begin")
      BY <1>3, <1>4
    <2> QED
      BY <1>p, <1>q, <2>1, <2>2, <2>3, <2>4
  <1>7. ASSUME NEW i \in 1 .. m + n
        PROVE  /\ s[i].on = "begin" => c \/ Within(s, i + 1, m + n, "commit")
               /\ s[i].on = "tx" => a \/ Within(s, 1, i - 1, "begin")
               /\ s[i].on = "commit" =>
                    /\ c => Within(s, i + 1, m + n, "begin")
                    /\ \A j \in i + 1 .. m + n :
                         s[j].on = "tx" => Within(s, i + 1, j - 1, "begin")
    <2>1. CASE i \in 1 .. m
      <3>1. s[i] = p[i]
        BY <1>1, <2>1
      <3>2. s[i].on = "begin" => c \/ Within(s, i + 1, m + n, "commit")
        <4>1. Within(p, i + 1, m, "commit") => Within(s, i + 1, m + n, "commit")
          BY <1>2, <1>4, <2>1
        <4>2. Within(q, 1, n, "commit") => Within(s, i + 1, m + n, "commit")
          BY <1>3, <1>4, <2>1
        <4> QED
          BY <1>p, <1>q, <2>1, <3>1, <4>1, <4>2
      <3>3. s[i].on = "tx" => a \/ Within(s, 1, i - 1, "begin")
        BY <1>2, <1>p, <2>1, <3>1
      <3>4. ASSUME s[i].on = "commit"
            PROVE  /\ c => Within(s, i + 1, m + n, "begin")
                   /\ \A j \in i + 1 .. m + n :
                        s[j].on = "tx" => Within(s, i + 1, j - 1, "begin")
        <4>1. b => Within(s, i + 1, m, "begin")
          BY <1>2, <1>p, <2>1, <3>1, <3>4
        <4>2. c => Within(s, i + 1, m + n, "begin")
          <5>1. Within(q, 1, n, "begin") => Within(s, i + 1, m + n, "begin")
            BY <1>3, <1>4, <2>1
          <5>2. Within(s, i + 1, m, "begin") => Within(s, i + 1, m + n, "begin")
            BY <1>4, <2>1
          <5> QED
            BY <1>q, <4>1, <5>1, <5>2
        <4>3. ASSUME NEW j \in i + 1 .. m, s[j].on = "tx"
              PROVE  Within(s, i + 1, j - 1, "begin")
          <5>1. s[j] = p[j] /\ j \in 1 .. m
            BY <1>1, <2>1
          <5>2. Within(p, i + 1, j - 1, "begin")
            BY <1>p, <2>1, <3>1, <3>4, <4>3, <5>1
          <5> QED
            BY <1>2, <2>1, <5>2
        <4>4. ASSUME NEW k \in 1 .. n, s[m + k].on = "tx"
              PROVE  Within(s, i + 1, m + k - 1, "begin")
          <5>1. b \/ Within(q, 1, k - 1, "begin")
            BY <1>1, <1>q, <4>4
          <5>2. Within(q, 1, k - 1, "begin") => Within(s, m + 1, m + (k - 1), "begin")
            BY <1>3
          <5>3. Within(s, m + 1, m + (k - 1), "begin")
                  => Within(s, i + 1, m + k - 1, "begin")
            BY <1>4, <2>1
          <5>4. Within(s, i + 1, m, "begin") => Within(s, i + 1, m + k - 1, "begin")
            BY <1>4, <2>1
          <5> QED
            BY <4>1, <5>1, <5>2, <5>3, <5>4
        <4>5. ASSUME NEW j \in i + 1 .. m + n, s[j].on = "tx"
              PROVE  Within(s, i + 1, j - 1, "begin")
          <5>1. CASE j <= m
            BY <4>3, <4>5, <5>1
          <5>2. CASE j > m
            <6>1. PICK k \in 1 .. n : j = m + k
              <7>1. j - m \in 1 .. n /\ j = m + (j - m)
                BY <2>1, <5>2
              <7> QED
                BY <7>1
            <6> QED
              BY <4>4, <4>5, <6>1
          <5> QED
            BY <2>1, <5>1, <5>2
        <4> QED
          BY <4>2, <4>5
      <3> QED
        BY <3>2, <3>3, <3>4
    <2>2. CASE i \notin 1 .. m
      <3>1. PICK k \in 1 .. n : i = m + k
        <4>1. i - m \in 1 .. n /\ i = m + (i - m)
          BY <2>2
        <4> QED
          BY <4>1
      <3>2. s[i] = q[k]
        BY <1>1, <3>1
      <3>3. s[i].on = "begin" => c \/ Within(s, i + 1, m + n, "commit")
        <4>1. Within(q, k + 1, n, "commit") => Within(s, m + (k + 1), m + n, "commit")
          BY <1>3
        <4> QED
          BY <1>q, <3>1, <3>2, <4>1
      <3>4. s[i].on = "tx" => a \/ Within(s, 1, i - 1, "begin")
        <4>1. Within(q, 1, k - 1, "begin") => Within(s, m + 1, m + (k - 1), "begin")
          BY <1>3
        <4>2. Within(s, m + 1, m + (k - 1), "begin") => Within(s, 1, i - 1, "begin")
          BY <1>4, <3>1
        <4>3. Within(p, 1, m, "begin") => Within(s, 1, i - 1, "begin")
          <5>1. Within(p, 1, m, "begin") => Within(s, 1, m, "begin")
            BY <1>2
          <5> QED
            BY <1>4, <3>1, <5>1
        <4> QED
          BY <1>p, <1>q, <3>2, <4>1, <4>2, <4>3
      <3>5. ASSUME s[i].on = "commit"
            PROVE  /\ c => Within(s, i + 1, m + n, "begin")
                   /\ \A j \in i + 1 .. m + n :
                        s[j].on = "tx" => Within(s, i + 1, j - 1, "begin")
        <4>1. c => Within(s, i + 1, m + n, "begin")
          <5>1. Within(q, k + 1, n, "begin") => Within(s, m + (k + 1), m + n, "begin")
            BY <1>3
          <5> QED
            BY <1>q, <3>1, <3>2, <3>5, <5>1
        <4>2. ASSUME NEW j \in i + 1 .. m + n, s[j].on = "tx"
              PROVE  Within(s, i + 1, j - 1, "begin")
          <5>1. PICK l \in k + 1 .. n : j = m + l
            <6>1. j - m \in k + 1 .. n /\ j = m + (j - m)
              BY <3>1
            <6> QED
              BY <6>1
          <5>2. s[j] = q[l]
            BY <1>1, <5>1
          <5>3. Within(q, k + 1, l - 1, "begin")
            BY <1>q, <3>2, <3>5, <4>2, <5>1, <5>2
          <5>4. Within(s, m + (k + 1), m + (l - 1), "begin")
            BY <1>3, <5>1, <5>3
          <5> QED
            BY <3>1, <5>1, <5>4
        <4> QED
          BY <4>1, <4>2
      <3> QED
        BY <3>3, <3>4, <3>5
    <2> QED
      BY <2>1, <2>2
  <1> QED
    BY <1>a, <1>1, <1>6, <1>7 DEF Frames

\* What is left behind the first statement.
After(s, inTx) == IF s.on = "begin" THEN TRUE ELSE IF s.on = "commit" THEN FALSE ELSE inTx

LEMMA FramesTail ==
  ASSUME NEW a \in BOOLEAN, NEW b \in BOOLEAN, NEW p, Frames(p, a, b), p # <<>>
  PROVE  /\ Head(p) \in Statement /\ Len(p) >= 1 /\ Head(p) = p[1]
         /\ Head(p).on = "tx" => a
         /\ Frames(Tail(p), After(Head(p), a), b)
         /\ Len(Tail(p)) = Len(p) - 1
         /\ \A i \in 1 .. Len(p) - 1 : Tail(p)[i] = p[i + 1]
  <1>a. PICK t : t = Tail(p)
    OBVIOUS
  <1>b. PICK m \in Nat : m = Len(p)
    BY LenProperties DEF Frames
  <1>c. PICK h : h = Head(p)
    OBVIOUS
  <1>1. /\ t \in Seq(Statement) /\ Len(t) = m - 1 /\ m >= 1 /\ h = p[1] /\ h \in Statement
        /\ \A i \in 1 .. m - 1 : t[i] = p[i + 1]
    BY <1>a, <1>b, <1>c, HeadTailProperties DEF Frames
  <1>2. ASSUME NEW first \in Int, NEW last \in Int, first >= 1, last <= m, NEW on,
               Within(p, first, last, on)
        PROVE  (first = 1 /\ h.on = on) \/ Within(t, first - 1, last - 1, on)
    <2>1. PICK i \in first .. last : p[i].on = on
      BY <1>2 DEF Within
    <2>2. CASE i = 1
      BY <1>1, <1>2, <2>1, <2>2
    <2>3. CASE i # 1
      <3>1. i - 1 \in first - 1 .. last - 1 /\ t[i - 1].on = on
        BY <1>1, <1>2, <2>1, <2>3
      <3> QED
        BY <3>1 DEF Within
    <2> QED
      BY <2>2, <2>3
  <1>3. ASSUME NEW last \in Int, last <= m, NEW on, Within(p, 1, last, on)
        PROVE  h.on = on \/ Within(t, 1, last - 1, on)
    <2>1. PICK i \in 1 .. last : p[i].on = on
      BY <1>3 DEF Within
    <2>2. CASE i = 1
      BY <1>1, <2>1, <2>2
    <2>3. CASE i # 1
      <3>1. i - 1 \in 1 .. last - 1 /\ t[i - 1].on = on
        BY <1>1, <1>3, <2>1, <2>3
      <3> QED
        BY <3>1 DEF Within
    <2> QED
      BY <2>2, <2>3
  <1>p. /\ a => b \/ Within(p, 1, m, "commit")
        /\ b => a \/ Within(p, 1, m, "begin")
        /\ \A i \in 1 .. m :
             /\ p[i].on = "begin" => b \/ Within(p, i + 1, m, "commit")
             /\ p[i].on = "tx" => a \/ Within(p, 1, i - 1, "begin")
             /\ p[i].on = "commit" =>
                  /\ b => Within(p, i + 1, m, "begin")
                  /\ \A j \in i + 1 .. m :
                       p[j].on = "tx" => Within(p, i + 1, j - 1, "begin")
    BY <1>b DEF Frames
  <1>h. /\ h.on = "begin" => b \/ Within(t, 1, m - 1, "commit")
        /\ h.on = "tx" => a
        /\ h.on = "commit" =>
             /\ b => Within(t, 1, m - 1, "begin")
             /\ \A j \in 1 .. m - 1 : t[j].on = "tx" => Within(t, 1, j - 1, "begin")
    <2>1. \A on : Within(p, 2, m, on) => Within(t, 1, m - 1, on)
      BY <1>1, <1>2
    <2>2. ~Within(p, 1, 0, "begin")
      BY DEF Within
    <2>3. ASSUME h.on = "commit", NEW j \in 1 .. m - 1, t[j].on = "tx"
          PROVE  Within(t, 1, j - 1, "begin")
      <3>1. j + 1 \in 2 .. m /\ p[j + 1].on = "tx"
        BY <1>1, <2>3
      <3>2. Within(p, 2, j, "begin")
        BY <1>1, <1>p, <2>3, <3>1
      <3> QED
        BY <1>2, <3>1, <3>2
    <2> QED
      BY <1>1, <1>p, <2>1, <2>2, <2>3
  <1>4. PICK c \in BOOLEAN : c = After(h, a)
    BY DEF After
  <1>5. /\ c => b \/ Within(t, 1, m - 1, "commit")
        /\ b => c \/ Within(t, 1, m - 1, "begin")
    <2>1. Within(p, 1, m, "commit") => h.on = "commit" \/ Within(t, 1, m - 1, "commit")
      BY <1>1, <1>3
    <2>2. Within(p, 1, m, "begin") => h.on = "begin" \/ Within(t, 1, m - 1, "begin")
      BY <1>1, <1>3
    <2> QED
      BY <1>p, <1>h, <1>4, <2>1, <2>2 DEF After
  <1>6. ASSUME NEW i \in 1 .. m - 1
        PROVE  /\ t[i].on = "begin" => b \/ Within(t, i + 1, m - 1, "commit")
               /\ t[i].on = "tx" => c \/ Within(t, 1, i - 1, "begin")
               /\ t[i].on = "commit" =>
                    /\ b => Within(t, i + 1, m - 1, "begin")
                    /\ \A j \in i + 1 .. m - 1 :
                         t[j].on = "tx" => Within(t, i + 1, j - 1, "begin")
    <2>1. t[i] = p[i + 1] /\ i + 1 \in 2 .. m
      BY <1>1
    <2>2. \A on : Within(p, i + 2, m, on) => Within(t, i + 1, m - 1, on)
      BY <1>2
    <2>3. t[i].on = "begin" => b \/ Within(t, i + 1, m - 1, "commit")
      BY <1>p, <2>1, <2>2
    <2>4. t[i].on = "tx" => c \/ Within(t, 1, i - 1, "begin")
      <3>1. Within(p, 1, i, "begin") => h.on = "begin" \/ Within(t, 1, i - 1, "begin")
        BY <1>3
      <3> QED
        BY <1>p, <1>h, <1>4, <2>1, <3>1 DEF After
    <2>5. ASSUME t[i].on = "commit", NEW j \in i + 1 .. m - 1, t[j].on = "tx"
          PROVE  Within(t, i + 1, j - 1, "begin")
      <3>a. t[j] = p[j + 1] /\ j \in 1 .. m - 1
        BY <1>1
      <3>b. p[i + 1].on = "commit" /\ p[j + 1].on = "tx"
        BY <2>1, <2>5, <3>a
      <3>c. j + 1 \in i + 2 .. m /\ j \in Int
        OBVIOUS
      <3>1. p[i + 1].on = "commit" /\ j + 1 \in i + 2 .. m /\ p[j + 1].on = "tx"
        BY <3>b, <3>c
      <3>2. Within(p, i + 2, j, "begin")
        BY <1>p, <2>1, <3>1
      <3> QED
        BY <1>2, <3>1, <3>2
    <2>6. t[i].on = "commit" => (b => Within(t, i + 1, m - 1, "begin"))
      BY <1>p, <2>1, <2>2
    <2> QED
      BY <2>3, <2>4, <2>5, <2>6
  <1>7. Frames(t, c, b)
    BY <1>1, <1>5, <1>6 DEF Frames
  <1> QED
    BY <1>a, <1>b, <1>c, <1>1, <1>h, <1>4, <1>7

\* Parts that begin and commit nothing.
LEMMA Outside ==
  ASSUME NEW p \in Seq(Statement), NEW a \in BOOLEAN,
         \A i \in 1 .. Len(p) : p[i].on \in {"nothing", "own"} \/ (a /\ p[i].on = "tx")
  PROVE  Frames(p, a, a)
  BY DEF Frames

LEMMA Join ==
  ASSUME NEW a \in BOOLEAN, NEW b \in BOOLEAN, NEW c \in BOOLEAN, NEW w \in BOOLEAN,
         NEW p, NEW q, Part(p, a, b, FALSE), Part(q, b, c, w)
  PROVE  Part(p \o q, a, c, w)
  <1>a. PICK s : s = p \o q
    OBVIOUS
  <1>b. PICK m \in Nat : m = Len(p)
    BY LenProperties DEF Part, Frames
  <1>c. PICK n \in Nat : n = Len(q)
    BY LenProperties DEF Part, Frames
  <1>1. /\ Len(s) = m + n
        /\ \A i \in 1 .. m : s[i] = p[i]
        /\ \A i \in 1 .. m + n : i \notin 1 .. m => s[i] = q[i - m]
    BY <1>a, <1>b, <1>c, ConcatProperties DEF Part, Frames
  <1>2. Frames(s, a, c)
    BY <1>a, FramesJoin DEF Part
  <1>3. ASSUME NEW i \in 1 .. m + n, s[i].writes PROVE w /\ i = m + n
    <2>1. i \notin 1 .. m
      BY <1>1, <1>3, <1>b DEF Part
    <2>2. i - m \in 1 .. n /\ q[i - m].writes
      BY <1>1, <1>3, <2>1
    <2>3. w /\ i - m = n
      BY <1>c, <2>2 DEF Part
    <2> QED
      BY <1>3, <2>3
  <1> QED
    BY <1>a, <1>1, <1>2, <1>3 DEF Part

\* The parts that the plans are made of.
LEMMA SmallParts ==
  ASSUME NEW a \in BOOLEAN
  PROVE  /\ Part(<<>>, a, a, FALSE)
         /\ \A n \in Nat : Part(Reads(n), a, a, FALSE)
         /\ \A errors \in SUBSET Errors :
              /\ Part(<<Check(errors)>>, a, a, FALSE)
              /\ Part(<<Read(errors)>>, a, a, FALSE)
              /\ Part(<<Write(errors)>>, a, a, TRUE)
              /\ Part(<<InTx(errors)>>, TRUE, TRUE, FALSE)
              /\ \A row \in Row, mode \in Mode :
                   /\ Part(<<WriteRow(row, mode, errors)>>, a, a, TRUE)
                   /\ Part(<<Lock(row, mode, errors)>>, TRUE, TRUE, FALSE)
         /\ Part(<<Begin>>, FALSE, TRUE, FALSE)
         /\ Part(<<Commit>>, TRUE, FALSE, TRUE)
  <1>1. ASSUME NEW s \in Statement, NEW b \in BOOLEAN,
               s.on \in {"nothing", "own"} \/ (b /\ s.on = "tx")
        PROVE  Part(<<s>>, b, b, TRUE) /\ (~s.writes => Part(<<s>>, b, b, FALSE))
    <2>1. <<s>> \in Seq(Statement) /\ Len(<<s>>) = 1 /\ <<s>>[1] = s
      OBVIOUS
    <2>2. Frames(<<s>>, b, b)
      <3>1. \A i \in 1 .. Len(<<s>>) :
              <<s>>[i].on \in {"nothing", "own"} \/ (b /\ <<s>>[i].on = "tx")
        BY <1>1, <2>1
      <3> QED
        BY <2>1, <3>1, Outside, Zenon
    <2> QED
      BY <2>1, <2>2 DEF Part
  <1>2. Part(<<>>, a, a, FALSE)
    <2>1. <<>> \in Seq(Statement) /\ Len(<<>>) = 0
      OBVIOUS
    <2>2. Frames(<<>>, a, a)
      BY <2>1 DEF Frames
    <2> QED
      BY <2>1, <2>2 DEF Part
  <1>3. ASSUME NEW n \in Nat PROVE Part(Reads(n), a, a, FALSE)
    <2>1. Read({}) \in Statement /\ Read({}).on = "own" /\ ~Read({}).writes
      BY ReadType
    <2>2. /\ Reads(n) \in Seq(Statement) /\ Len(Reads(n)) = n
          /\ \A i \in 1 .. n : Reads(n)[i] = Read({})
      BY <2>1 DEF Reads
    <2>3. Frames(Reads(n), a, a)
      BY <2>1, <2>2, Outside
    <2> QED
      BY <2>1, <2>2, <2>3 DEF Part
  <1>4. Part(<<Begin>>, FALSE, TRUE, FALSE)
    <2>1. Begin \in Statement /\ Begin.on = "begin" /\ ~Begin.writes
      BY BeginType
    <2>2. <<Begin>> \in Seq(Statement) /\ Len(<<Begin>>) = 1 /\ <<Begin>>[1] = Begin
      BY <2>1
    <2>3. Within(<<Begin>>, 1, 1, "begin")
      BY <2>1, <2>2 DEF Within
    <2> QED
      BY <2>1, <2>2, <2>3 DEF Part, Frames
  <1>5. Part(<<Commit>>, TRUE, FALSE, TRUE)
    <2>1. Commit \in Statement /\ Commit.on = "commit"
      BY CommitType
    <2>2. <<Commit>> \in Seq(Statement) /\ Len(<<Commit>>) = 1 /\ <<Commit>>[1] = Commit
      BY <2>1
    <2>3. Within(<<Commit>>, 1, 1, "commit")
      BY <2>1, <2>2 DEF Within
    <2> QED
      BY <2>1, <2>2, <2>3 DEF Part, Frames
  <1>6. ASSUME NEW errors \in SUBSET Errors
        PROVE  /\ Part(<<Check(errors)>>, a, a, FALSE)
               /\ Part(<<Read(errors)>>, a, a, FALSE)
               /\ Part(<<Write(errors)>>, a, a, TRUE)
               /\ Part(<<InTx(errors)>>, TRUE, TRUE, FALSE)
    <2>1. /\ Check(errors) \in Statement /\ Check(errors).on = "nothing"
          /\ ~Check(errors).writes
      BY CheckType
    <2>2. Read(errors) \in Statement /\ Read(errors).on = "own" /\ ~Read(errors).writes
      BY ReadType
    <2>3. Write(errors) \in Statement /\ Write(errors).on = "own"
      BY WriteType
    <2>4. InTx(errors) \in Statement /\ InTx(errors).on = "tx" /\ ~InTx(errors).writes
      BY InTxType
    <2>5. Part(<<Check(errors)>>, a, a, FALSE)
      BY <1>1, <2>1, Zenon
    <2>6. Part(<<Read(errors)>>, a, a, FALSE)
      BY <1>1, <2>2, Zenon
    <2>7. Part(<<Write(errors)>>, a, a, TRUE)
      BY <1>1, <2>3, Zenon
    <2>8. Part(<<InTx(errors)>>, TRUE, TRUE, FALSE)
      <3>1. TRUE \in BOOLEAN
        OBVIOUS
      <3> QED
        BY <1>1, <2>4, <3>1, Zenon
    <2> QED
      BY <2>5, <2>6, <2>7, <2>8
  <1>7. ASSUME NEW errors \in SUBSET Errors, NEW row \in Row, NEW mode \in Mode
        PROVE  /\ Part(<<WriteRow(row, mode, errors)>>, a, a, TRUE)
               /\ Part(<<Lock(row, mode, errors)>>, TRUE, TRUE, FALSE)
    <2>1. /\ WriteRow(row, mode, errors) \in Statement
          /\ WriteRow(row, mode, errors).on = "own"
      BY WriteRowType
    <2>2. /\ Lock(row, mode, errors) \in Statement /\ Lock(row, mode, errors).on = "tx"
          /\ ~Lock(row, mode, errors).writes
      BY LockType
    <2>3. Part(<<WriteRow(row, mode, errors)>>, a, a, TRUE)
      BY <1>1, <2>1, Zenon
    <2>4. Part(<<Lock(row, mode, errors)>>, TRUE, TRUE, FALSE)
      <3>1. TRUE \in BOOLEAN
        OBVIOUS
      <3> QED
        BY <1>1, <2>2, <3>1, Zenon
    <2> QED
      BY <2>3, <2>4
  <1> QED
    BY <1>2, <1>3, <1>4, <1>5, <1>6, <1>7

\* Plans whose errors behind their first write are the server's own.
Half(p) == Frames(p, FALSE, FALSE) /\ NoErrorAfterWrite(p)
Harmless(p) == Frames(p, FALSE, FALSE) /\ \A i \in 1 .. Len(p) : p[i].throws = {}

LEMMA JoinHalf ==
  ASSUME NEW p, NEW q, Part(p, FALSE, FALSE, TRUE), Harmless(q)
  PROVE  Half(p \o q)
  <1>a. PICK s : s = p \o q
    OBVIOUS
  <1>b. PICK m \in Nat : m = Len(p)
    BY LenProperties DEF Part, Frames
  <1>c. PICK n \in Nat : n = Len(q)
    BY LenProperties DEF Harmless, Frames
  <1>1. /\ Len(s) = m + n
        /\ \A i \in 1 .. m : s[i] = p[i]
        /\ \A i \in 1 .. m + n : i \notin 1 .. m => s[i] = q[i - m]
    BY <1>a, <1>b, <1>c, ConcatProperties DEF Part, Frames, Harmless
  <1>2. Frames(s, FALSE, FALSE)
    BY <1>a, FramesJoin DEF Part, Harmless
  <1>3. ASSUME NEW i \in 1 .. m + n, NEW j \in 1 .. m + n, i < j, s[i].writes
        PROVE  s[j].throws = {}
    <2>1. CASE j \in 1 .. m
      <3>1. i \in 1 .. m /\ p[i].writes /\ i # m
        BY <1>1, <1>3, <2>1
      <3> QED
        BY <1>b, <3>1 DEF Part
    <2>2. CASE j \notin 1 .. m
      <3>1. j - m \in 1 .. n /\ s[j] = q[j - m]
        BY <1>1, <1>3, <2>2
      <3> QED
        BY <1>c, <3>1 DEF Harmless
    <2> QED
      BY <2>1, <2>2
  <1> QED
    BY <1>a, <1>1, <1>2, <1>3 DEF Half, NoErrorAfterWrite

LEMMA LockEachPart ==
  ASSUME NEW rows \in Seq(Row)
  PROVE  Part(LockEach(rows), TRUE, TRUE, FALSE)
  <1>1. \A row \in Row : /\ Lock(row, "update", {}) \in Statement
                         /\ Lock(row, "update", {}).on = "tx"
                         /\ ~Lock(row, "update", {}).writes
    <2>1. "update" \in Mode /\ {} \in SUBSET Errors
      BY DEF Mode
    <2> QED
      BY <2>1, LockType
  <1>2. DOMAIN rows = 1 .. Len(rows) /\ Len(rows) \in Nat
        /\ \A i \in 1 .. Len(rows) : rows[i] \in Row
    OBVIOUS
  <1>3. PICK p : p = LockEach(rows)
    OBVIOUS
  <1>4. /\ p \in Seq(Statement) /\ Len(p) = Len(rows)
        /\ \A i \in 1 .. Len(p) : p[i].on = "tx" /\ ~p[i].writes
    BY <1>1, <1>2, <1>3 DEF LockEach
  <1>5. Frames(p, TRUE, TRUE)
    BY <1>4 DEF Frames
  <1> QED
    BY <1>3, <1>4, <1>5 DEF Part

\* The kinds of parts: outside of a transaction, with nothing written (Quiet) or
\* something written by the last statement (Done); and of one with a transaction,
\* what opens it, what is inside of it, and what closes it.
Quiet(p) == Part(p, FALSE, FALSE, FALSE)
Done(p) == Part(p, FALSE, FALSE, TRUE)
Opening(p) == Part(p, FALSE, TRUE, FALSE)
Inside(p) == Part(p, TRUE, TRUE, FALSE)
Closing(p) == Part(p, TRUE, FALSE, TRUE)

LEMMA Joins ==
  ASSUME NEW p, NEW q
  PROVE  /\ Quiet(p) /\ Quiet(q) => Quiet(p \o q)
         /\ Quiet(p) /\ Done(q) => Done(p \o q)
         /\ Quiet(p) /\ Opening(q) => Opening(p \o q)
         /\ Opening(p) /\ Inside(q) => Opening(p \o q)
         /\ Inside(p) /\ Inside(q) => Inside(p \o q)
         /\ Inside(p) /\ Closing(q) => Closing(p \o q)
         /\ Opening(p) /\ Closing(q) => Done(p \o q)
  <1>1. Quiet(p) /\ Quiet(q) => Quiet(p \o q)
    BY Join DEF Quiet
  <1>2. Quiet(p) /\ Done(q) => Done(p \o q)
    BY Join DEF Quiet, Done
  <1>3. Quiet(p) /\ Opening(q) => Opening(p \o q)
    BY Join DEF Quiet, Opening
  <1>4. Opening(p) /\ Inside(q) => Opening(p \o q)
    BY Join DEF Inside, Opening
  <1>5. Inside(p) /\ Inside(q) => Inside(p \o q)
    BY Join DEF Inside
  <1>6. Inside(p) /\ Closing(q) => Closing(p \o q)
    BY Join DEF Inside, Closing
  <1>7. Opening(p) /\ Closing(q) => Done(p \o q)
    BY Join DEF Opening, Closing, Done
  <1> QED
    BY <1>1, <1>2, <1>3, <1>4, <1>5, <1>6, <1>7

\* A statement in front of others.
LEMMA Tuples ==
  ASSUME NEW r, NEW s, NEW t, NEW u
  PROVE  /\ <<r, s>> = <<r>> \o <<s>>
         /\ <<r, s, t>> = <<r>> \o <<s, t>>
         /\ <<r, s, t, u>> = <<r>> \o <<s, t, u>>
  <1> DEFINE S == {r, s, t, u}
  <1>1. /\ <<r>> \in Seq(S) /\ <<s>> \in Seq(S) /\ <<s, t>> \in Seq(S)
        /\ <<r, s>> \in Seq(S) /\ <<s, t, u>> \in Seq(S)
        /\ <<r, s, t>> \in Seq(S) /\ <<r, s, t, u>> \in Seq(S)
    OBVIOUS
  <1> HIDE DEF S
  <1>2. <<r, s>> = <<r>> \o <<s>>
    <2>1. PICK v : v = <<r>> \o <<s>>
      OBVIOUS
    <2>2. v \in Seq(S) /\ Len(v) = 2 /\ v[1] = r /\ v[2] = s
      BY <1>1, <2>1, ConcatProperties
    <2>3. Len(<<r, s>>) = 2 /\ \A i \in 1 .. 2 : <<r, s>>[i] = v[i]
      BY <2>2
    <2> QED
      BY <1>1, <2>1, <2>2, <2>3, SeqEqual
  <1>3. <<r, s, t>> = <<r>> \o <<s, t>>
    <2>1. PICK v : v = <<r>> \o <<s, t>>
      OBVIOUS
    <2>2. v \in Seq(S) /\ Len(v) = 3 /\ v[1] = r /\ v[2] = s /\ v[3] = t
      BY <1>1, <2>1, ConcatProperties
    <2>3. Len(<<r, s, t>>) = 3 /\ \A i \in 1 .. 3 : <<r, s, t>>[i] = v[i]
      BY <2>2
    <2> QED
      BY <1>1, <2>1, <2>2, <2>3, SeqEqual
  <1>4. <<r, s, t, u>> = <<r>> \o <<s, t, u>>
    <2>1. PICK v : v = <<r>> \o <<s, t, u>>
      OBVIOUS
    <2>2. v \in Seq(S) /\ Len(v) = 4 /\ v[1] = r /\ v[2] = s /\ v[3] = t /\ v[4] = u
      BY <1>1, <2>1, ConcatProperties
    <2>3. Len(<<r, s, t, u>>) = 4 /\ \A i \in 1 .. 4 : <<r, s, t, u>>[i] = v[i]
      BY <2>2
    <2> QED
      BY <1>1, <2>1, <2>2, <2>3, SeqEqual
  <1> QED
    BY <1>2, <1>3, <1>4

LEMMA Pieces ==
  /\ Quiet(<<>>) /\ Inside(<<>>) /\ Opening(<<Begin>>) /\ Closing(<<Commit>>)
  /\ \A n \in Nat : Quiet(Reads(n)) /\ Inside(Reads(n))
  /\ \A errors \in SUBSET Errors :
       /\ Quiet(<<Check(errors)>>) /\ Quiet(<<Read(errors)>>) /\ Done(<<Write(errors)>>)
       /\ Inside(<<InTx(errors)>>)
       /\ \A row \in Row, mode \in Mode :
            Done(<<WriteRow(row, mode, errors)>>) /\ Inside(<<Lock(row, mode, errors)>>)
  /\ \A rows \in Seq(Row) : Inside(LockEach(rows))
  BY SmallParts, LockEachPart DEF Quiet, Done, Opening, Inside, Closing

\* The same, one statement in front of the others at a time.
LEMMA Fronts ==
  ASSUME NEW a \in BOOLEAN, NEW b \in BOOLEAN, NEW c \in BOOLEAN, NEW w \in BOOLEAN,
         NEW r, NEW s, NEW t, NEW u, Part(<<r>>, a, b, FALSE)
  PROVE  /\ Part(<<s>>, b, c, w) => Part(<<r, s>>, a, c, w)
         /\ Part(<<s, t>>, b, c, w) => Part(<<r, s, t>>, a, c, w)
         /\ Part(<<s, t, u>>, b, c, w) => Part(<<r, s, t, u>>, a, c, w)
  <1>a. PICK p : p = <<r>>
    OBVIOUS
  <1>b. Part(p, a, b, FALSE)
    BY <1>a, Zenon
  <1>1. ASSUME Part(<<s>>, b, c, w) PROVE Part(<<r, s>>, a, c, w)
    <2>1. PICK q : q = <<s>>
      OBVIOUS
    <2>2. Part(p \o q, a, c, w)
      BY <1>b, <1>1, <2>1, Join
    <2>3. <<r, s>> = <<r>> \o <<s>>
      BY Tuples
    <2> QED
      BY <1>a, <2>1, <2>2, <2>3
  <1>2. ASSUME Part(<<s, t>>, b, c, w) PROVE Part(<<r, s, t>>, a, c, w)
    <2>1. PICK q : q = <<s, t>>
      OBVIOUS
    <2>2. Part(p \o q, a, c, w)
      BY <1>b, <1>2, <2>1, Join
    <2>3. <<r, s, t>> = <<r>> \o <<s, t>>
      BY Tuples
    <2> QED
      BY <1>a, <2>1, <2>2, <2>3
  <1>3. ASSUME Part(<<s, t, u>>, b, c, w) PROVE Part(<<r, s, t, u>>, a, c, w)
    <2>1. PICK q : q = <<s, t, u>>
      OBVIOUS
    <2>2. Part(p \o q, a, c, w)
      BY <1>b, <1>3, <2>1, Join
    <2>3. <<r, s, t, u>> = <<r>> \o <<s, t, u>>
      BY Tuples
    <2> QED
      BY <1>a, <2>1, <2>2, <2>3
  <1> QED
    BY <1>1, <1>2, <1>3

LEMMA QuietFront ==
  ASSUME NEW r, NEW s, Quiet(<<r>>)
  PROVE  /\ Quiet(<<s>>) => Quiet(<<r, s>>)
         /\ Done(<<s>>) => Done(<<r, s>>)
         /\ Opening(<<s>>) => Opening(<<r, s>>)
  BY Fronts DEF Quiet, Done, Opening

LEMMA QuietFrontOfTwo ==
  ASSUME NEW r, NEW s, NEW t, Quiet(<<r>>)
  PROVE  /\ Done(<<s, t>>) => Done(<<r, s, t>>)
         /\ Opening(<<s, t>>) => Opening(<<r, s, t>>)
  BY Fronts DEF Done, Quiet, Opening

LEMMA QuietFrontOfThree ==
  ASSUME NEW r, NEW s, NEW t, NEW u, Quiet(<<r>>)
  PROVE  /\ Done(<<s, t, u>>) => Done(<<r, s, t, u>>)
         /\ Opening(<<s, t, u>>) => Opening(<<r, s, t, u>>)
  BY Fronts DEF Done, Quiet, Opening

LEMMA InsideFront ==
  ASSUME NEW r, NEW s, NEW t, NEW u, Inside(<<r>>)
  PROVE  /\ Closing(<<s>>) => Closing(<<r, s>>)
         /\ Closing(<<s, t>>) => Closing(<<r, s, t>>)
         /\ Closing(<<s, t, u>>) => Closing(<<r, s, t, u>>)
  BY Fronts DEF Inside, Closing

LEMMA OpeningFront ==
  ASSUME NEW r, NEW s, Opening(<<r>>), Inside(<<s>>)
  PROVE  Opening(<<r, s>>)
  BY Fronts DEF Opening, Inside

LEMMA Statements ==
  ASSUME NEW errors \in SUBSET Errors
  PROVE  /\ Quiet(<<Check(errors)>>) /\ Quiet(<<Read(errors)>>)
         /\ Done(<<Write(errors)>>) /\ Inside(<<InTx(errors)>>)
  BY Pieces

LEMMA RowStatements ==
  ASSUME NEW errors \in SUBSET Errors, NEW row \in Row, NEW mode \in Mode
  PROVE  Done(<<WriteRow(row, mode, errors)>>) /\ Inside(<<Lock(row, mode, errors)>>)
  BY Pieces

LEMMA Halves ==
  /\ \A n \in Nat : Harmless(Reads(n))
  /\ Harmless(<<Write({})>>)
  /\ \A p, q : Done(p) /\ Harmless(q) => Half(p \o q)
  <1>0. {} \in SUBSET Errors
    OBVIOUS
  <1>1. ASSUME NEW n \in Nat PROVE Harmless(Reads(n))
    <2>1. Read({}).throws = {}
      BY <1>0, ReadType
    <2>2. Len(Reads(n)) = n /\ \A i \in 1 .. n : Reads(n)[i] = Read({})
      BY <1>0, ReadType DEF Reads
    <2>3. Frames(Reads(n), FALSE, FALSE)
      BY Pieces DEF Quiet, Part
    <2> QED
      BY <2>1, <2>2, <2>3 DEF Harmless
  <1>2. Harmless(<<Write({})>>)
    <2>1. Write({}).throws = {}
      BY <1>0, WriteType
    <2>2. Frames(<<Write({})>>, FALSE, FALSE)
      BY <1>0, Pieces DEF Done, Part
    <2>3. Len(<<Write({})>>) = 1 /\ <<Write({})>>[1] = Write({})
      OBVIOUS
    <2>4. \A i \in 1 .. Len(<<Write({})>>) : <<Write({})>>[i].throws = {}
      BY <2>1, <2>3
    <2> QED
      BY <2>2, <2>4, Zenon DEF Harmless
  <1>3. \A p, q : Done(p) /\ Harmless(q) => Half(p \o q)
    BY JoinHalf DEF Done
  <1> QED
    BY <1>1, <1>2, <1>3

-----------------------------------------------------------------------------
\* The services.
LEMMA AuthPlans ==
  /\ \A p \in AuthService.register : Half(p)
  /\ \A p \in AuthService.login : Done(p)
  /\ \A p \in AuthService.refresh : Half(p)
  /\ \A p \in AuthService.logout : Done(p)
  /\ \A p \in AuthService.me : Quiet(p)
  <1> DEFINE email == Read({"EMAIL_ALREADY_EXISTS"})
             phone == Read({"PHONE_ALREADY_EXISTS"})
             all == Read({})
             one == Write({})
             tokens == <<one>>
             known == <<Read({"INVALID_CREDENTIALS", "ACCOUNT_BLOCKED",
                              "ACCOUNT_INACTIVE"})>>
             valid == Check({"INVALID_REFRESH_TOKEN"})
             stored == Read({"INVALID_REFRESH_TOKEN"})
             me == <<Read({"USER_NOT_FOUND"})>>
             account == <<Write(Taken)>>
             revoke == Write(Gone)
  <1>1. /\ AuthService.register = {e \o account \o tokens : e \in
             {<<email>>, <<email, phone>>}}
        /\ AuthService.login = {known \o tokens}
        /\ AuthService.refresh = {<<valid, stored, stored, revoke>> \o tokens}
        /\ AuthService.logout = {tokens, <<all, one>>}
        /\ AuthService.me = {me}
    BY DEF AuthService
  <1>a. /\ {"EMAIL_ALREADY_EXISTS"} \in SUBSET Errors
        /\ {"PHONE_ALREADY_EXISTS"} \in SUBSET Errors
        /\ {"INVALID_CREDENTIALS", "ACCOUNT_BLOCKED", "ACCOUNT_INACTIVE"} \in SUBSET Errors
        /\ {"INVALID_REFRESH_TOKEN"} \in SUBSET Errors /\ {"USER_NOT_FOUND"} \in SUBSET Errors
        /\ {} \in SUBSET Errors /\ Taken \in SUBSET Errors /\ Gone \in SUBSET Errors
    BY DEF Taken, Gone, Errors, DomainStatus, PrismaErrors
  <1>2. /\ Quiet(<<email>>) /\ Quiet(<<phone>>) /\ Quiet(known) /\ Quiet(<<valid>>)
        /\ Quiet(<<stored>>) /\ Quiet(me) /\ Quiet(<<all>>)
        /\ Done(tokens) /\ Harmless(tokens) /\ Done(account) /\ Done(<<revoke>>)
    <2>1. Quiet(<<email>>) /\ Quiet(<<phone>>) /\ Quiet(known)
      BY <1>a, Statements
    <2>2. Quiet(<<valid>>) /\ Quiet(<<stored>>) /\ Quiet(me) /\ Quiet(<<all>>)
      BY <1>a, Statements
    <2>3. Done(tokens) /\ Done(account) /\ Done(<<revoke>>)
      BY <1>a, Statements
    <2> QED
      BY <2>1, <2>2, <2>3, Halves
  <1> HIDE DEF email, phone, all, one, known, valid, stored, me, account, revoke
  <1>3. Quiet(<<email, phone>>) /\ Done(<<all, one>>)
    BY <1>2, QuietFront
  <1> HIDE DEF tokens
  <1>4. Done(<<valid, stored, stored, revoke>>)
    <2>1. Done(<<stored, revoke>>)
      BY <1>2, QuietFront
    <2>2. Done(<<stored, stored, revoke>>)
      BY <1>2, <2>1, QuietFrontOfTwo
    <2> QED
      BY <1>2, <2>2, QuietFrontOfThree
  <1>5. \A e \in {<<email>>, <<email, phone>>} : Half(e \o account \o tokens)
    BY <1>2, <1>3, Joins, Halves
  <1>6. Done(known \o tokens)
    BY <1>2, Joins
  <1>7. Half(<<valid, stored, stored, revoke>> \o tokens)
    BY <1>2, <1>4, Halves
  <1> QED
    BY <1>1, <1>2, <1>3, <1>5, <1>6, <1>7

LEMMA UsersPlans ==
  /\ \A p \in UsersService.findAll : Quiet(p)
  /\ \A p \in UsersService.findOne : Quiet(p)
  /\ \A p \in UsersService.updateStatus : Done(p)
  <1> DEFINE found == <<Read({"USER_NOT_FOUND"})>>
             write == <<Write(Gone)>>
  <1>1. /\ UsersService.findAll = {Reads(2)} /\ UsersService.findOne = {found}
        /\ UsersService.updateStatus = {found \o write}
    BY DEF UsersService
  <1>2. {"USER_NOT_FOUND"} \in SUBSET Errors /\ Gone \in SUBSET Errors
    BY DEF Gone, Errors, DomainStatus, PrismaErrors
  <1>3. Quiet(Reads(2)) /\ Quiet(found) /\ Done(write)
    BY <1>2, Pieces, Statements
  <1> HIDE DEF found, write
  <1>4. Done(found \o write)
    BY <1>3, Joins
  <1> QED
    BY <1>1, <1>3, <1>4

LEMMA RoomTypesPlans ==
  /\ \A p \in RoomTypesService.findAll : Quiet(p)
  /\ \A p \in RoomTypesService.findOne : Quiet(p)
  /\ \A p \in RoomTypesService.create : Done(p)
  /\ \A p \in RoomTypesService.update : Done(p)
  /\ \A p \in RoomTypesService.remove : Done(p)
  <1> DEFINE found == <<Read({"ROOM_TYPE_NOT_FOUND"})>>
             insert == <<Write(Taken)>>
             write == <<Write(Gone \cup Taken)>>
             unused == Read({"ROOM_TYPE_IN_USE"})
             delete == Write(Gone \cup Dangling)
  <1>1. /\ RoomTypesService.findAll = {Reads(1)} /\ RoomTypesService.findOne = {found}
        /\ RoomTypesService.create = {insert}
        /\ RoomTypesService.update = {found \o write}
        /\ RoomTypesService.remove = {found \o <<unused, delete>>}
    BY DEF RoomTypesService
  <1>2. /\ {"ROOM_TYPE_NOT_FOUND"} \in SUBSET Errors /\ {"ROOM_TYPE_IN_USE"} \in SUBSET Errors
        /\ Taken \in SUBSET Errors /\ Gone \cup Taken \in SUBSET Errors
        /\ Gone \cup Dangling \in SUBSET Errors
    BY DEF Gone, Taken, Dangling, Errors, DomainStatus, PrismaErrors
  <1>3. /\ Quiet(Reads(1)) /\ Quiet(found) /\ Done(insert) /\ Done(write)
        /\ Quiet(<<unused>>) /\ Done(<<delete>>)
    <2>1. Quiet(Reads(1)) /\ Quiet(found) /\ Done(insert)
      BY <1>2, Pieces, Statements
    <2>2. Done(write) /\ Quiet(<<unused>>) /\ Done(<<delete>>)
      BY <1>2, Statements
    <2> QED
      BY <2>1, <2>2
  <1> HIDE DEF found, insert, write, unused, delete
  <1>4. Done(found \o write) /\ Done(<<unused, delete>>)
    BY <1>3, Joins, QuietFront
  <1>5. Done(found \o <<unused, delete>>)
    BY <1>3, <1>4, Joins
  <1> QED
    BY <1>1, <1>3, <1>4, <1>5

LEMMA FacilitiesPlans ==
  /\ \A p \in FacilitiesService.findAll : Quiet(p)
  /\ \A p \in FacilitiesService.findOne : Quiet(p)
  /\ \A p \in FacilitiesService.create : Done(p)
  /\ \A p \in FacilitiesService.update : Done(p)
  /\ \A p \in FacilitiesService.remove : Done(p)
  <1> DEFINE found == <<Read({"FACILITY_NOT_FOUND"})>>
             insert == <<Write(Taken)>>
             write == <<Write(Gone \cup Taken)>>
             delete == <<Write(Gone)>>
  <1>1. /\ FacilitiesService.findAll = {Reads(1)} /\ FacilitiesService.findOne = {found}
        /\ FacilitiesService.create = {insert}
        /\ FacilitiesService.update = {found \o write}
        /\ FacilitiesService.remove = {found \o delete}
    BY DEF FacilitiesService
  <1>2. /\ {"FACILITY_NOT_FOUND"} \in SUBSET Errors /\ Taken \in SUBSET Errors
        /\ Gone \in SUBSET Errors /\ Gone \cup Taken \in SUBSET Errors
    BY DEF Gone, Taken, Errors, DomainStatus, PrismaErrors
  <1>3. /\ Quiet(Reads(1)) /\ Quiet(found) /\ Done(insert) /\ Done(write) /\ Done(delete)
    <2>1. Quiet(Reads(1)) /\ Quiet(found) /\ Done(insert)
      BY <1>2, Pieces, Statements
    <2>2. Done(write) /\ Done(delete)
      BY <1>2, Statements
    <2> QED
      BY <2>1, <2>2
  <1> HIDE DEF found, insert, write, delete
  <1>4. Done(found \o write) /\ Done(found \o delete)
    BY <1>3, Joins
  <1> QED
    BY <1>1, <1>3, <1>4

LEMMA AvailabilityPlans ==
  /\ \A p \in AvailabilityService.searchAvailableRooms : Quiet(p)
  /\ \A p \in AvailabilityService.isRoomAvailable : Quiet(p)
  <1> DEFINE dates == Check({"INVALID_BOOKING_DATES"})
             found == Read({"ROOM_NOT_FOUND"})
  <1>1. /\ AvailabilityService.searchAvailableRooms = {<<dates>> \o Reads(n) : n \in 1 .. 2}
        /\ AvailabilityService.isRoomAvailable =
             {<<found, dates>> \o Reads(n) : n \in 0 .. 1}
    BY DEF AvailabilityService
  <1>2. {"INVALID_BOOKING_DATES"} \in SUBSET Errors /\ {"ROOM_NOT_FOUND"} \in SUBSET Errors
    BY DEF Errors, DomainStatus
  <1>3. Quiet(<<dates>>) /\ Quiet(<<found>>) /\ \A n \in Nat : Quiet(Reads(n))
    BY <1>2, Pieces, Statements
  <1> HIDE DEF dates, found
  <1>4. Quiet(<<found, dates>>)
    BY <1>3, QuietFront
  <1>5. /\ \A n \in 1 .. 2 : Quiet(<<dates>> \o Reads(n))
        /\ \A n \in 0 .. 1 : Quiet(<<found, dates>> \o Reads(n))
    BY <1>3, <1>4, Joins
  <1>6. ASSUME NEW p \in AvailabilityService.searchAvailableRooms PROVE Quiet(p)
    BY <1>1, <1>5, Zenon
  <1>7. ASSUME NEW p \in AvailabilityService.isRoomAvailable PROVE Quiet(p)
    BY <1>1, <1>5, Zenon
  <1> QED
    BY <1>6, <1>7

LEMMA OffersPlans ==
  /\ \A p \in OffersService.findAllPublic : Quiet(p)
  /\ \A p \in OffersService.findAllAdmin : Quiet(p)
  /\ \A p \in OffersService.findOne : Quiet(p)
  /\ \A p \in OffersService.create : Done(p)
  /\ \A p \in OffersService.update : Done(p)
  /\ \A p \in OffersService.remove : Done(p)
  <1> DEFINE found == <<Read({"OFFER_NOT_FOUND"})>>
             rules == <<Check({"BAD_REQUEST"})>>
             insert == Write(Dangling)
             insertFor == WriteRow("room", "share", Dangling)
             write == Write(Gone \cup Dangling)
             writeFor == WriteRow("room", "share", Gone \cup Dangling)
             delete == <<Write(Gone)>>
  <1>1. /\ OffersService.findAllPublic = {Reads(2)} /\ OffersService.findAllAdmin = {Reads(2)}
        /\ OffersService.findOne = {found}
        /\ OffersService.create = {rules \o <<w>> : w \in {insert, insertFor}}
        /\ OffersService.update = {found \o rules \o <<w>> : w \in {write, writeFor}}
        /\ OffersService.remove = {found \o delete}
    BY DEF OffersService
  <1>2. /\ {"OFFER_NOT_FOUND"} \in SUBSET Errors /\ {"BAD_REQUEST"} \in SUBSET Errors
        /\ Dangling \in SUBSET Errors /\ Gone \cup Dangling \in SUBSET Errors
        /\ Gone \in SUBSET Errors /\ "room" \in Row /\ "share" \in Mode
    BY DEF Gone, Dangling, Errors, DomainStatus, HttpStatus, PrismaErrors, Row, Mode
  <1>3. /\ Quiet(Reads(2)) /\ Quiet(found) /\ Quiet(rules)
        /\ \A w \in {insert, insertFor} : Done(<<w>>)
        /\ \A w \in {write, writeFor} : Done(<<w>>)
        /\ Done(delete)
    <2>1. Quiet(Reads(2)) /\ Quiet(found) /\ Quiet(rules)
      BY <1>2, Pieces, Statements
    <2>2. Done(<<insert>>) /\ Done(<<write>>) /\ Done(delete)
      BY <1>2, Statements
    <2>3. Done(<<insertFor>>) /\ Done(<<writeFor>>)
      BY <1>2, RowStatements
    <2> QED
      BY <2>1, <2>2, <2>3
  <1> HIDE DEF found, rules, insert, insertFor, write, writeFor, delete
  <1>4. \A w \in {insert, insertFor} : Done(rules \o <<w>>)
    BY <1>3, Joins
  <1>5. \A w \in {write, writeFor} : Done(found \o rules \o <<w>>)
    BY <1>3, Joins
  <1>6. Done(found \o delete)
    BY <1>3, Joins
  <1> QED
    BY <1>1, <1>3, <1>4, <1>5, <1>6

LEMMA OtherPlans ==
  /\ \A p \in DashboardService.getStats : Quiet(p)
  /\ \A p \in UploadsService.readLocalFile : Quiet(p)
  <1>1. {"NOT_FOUND"} \in SUBSET Errors
    BY DEF Errors, HttpStatus
  <1>2. Quiet(Reads(9)) /\ Quiet(<<Check({"NOT_FOUND"})>>)
    BY <1>1, Pieces, Statements
  <1> QED
    BY <1>2 DEF DashboardService, UploadsService

\* The parts of the plans of rooms.
LEMMA RoomsPieces ==
  /\ Quiet(<<Read({"ROOM_NOT_FOUND"})>>) /\ Quiet(<<Read({"ROOM_TYPE_NOT_FOUND"})>>)
  /\ Quiet(<<Read({"ROOM_NUMBER_EXISTS"})>>) /\ Quiet(<<Read({"ROOM_IMAGE_NOT_FOUND"})>>)
  /\ Done(<<Write(Taken \cup Dangling)>>) /\ Quiet(<<Check({"UPLOAD_FAILED"})>>)
  /\ Done(<<WriteRow("room", "nokey", Gone)>>) /\ Done(<<WriteRow("room", "share", {})>>)
  /\ Done(<<WriteRow("image1", "update", Gone)>>)
  /\ Done(<<WriteRow("image2", "nokey", Gone)>>)
  /\ Inside(<<InTx({})>>) /\ Inside(<<Lock("room", "share", Taken \cup Dangling)>>)
  /\ \A mode \in {"nokey", "update"} :
       Closing(<<Lock("room", mode, Taken \cup Dangling), Commit>>)
  /\ Closing(<<Lock("image1", "nokey", Gone), Commit>>)
  /\ \A links \in {<<"link1">>, <<"link2">>, <<"link1", "link2">>, <<"link2", "link1">>} :
       Inside(LockEach(links))
  /\ \A images \in {LockEach(<<"image1", "image2">>), LockEach(<<"image2", "image1">>)} :
       Inside(images)
  <1>1. /\ {"ROOM_NOT_FOUND"} \in SUBSET Errors /\ {"ROOM_TYPE_NOT_FOUND"} \in SUBSET Errors
        /\ {"ROOM_NUMBER_EXISTS"} \in SUBSET Errors
        /\ {"ROOM_IMAGE_NOT_FOUND"} \in SUBSET Errors
        /\ {"UPLOAD_FAILED"} \in SUBSET Errors /\ {} \in SUBSET Errors
        /\ Taken \cup Dangling \in SUBSET Errors /\ Gone \in SUBSET Errors
    BY DEF Taken, Gone, Dangling, Errors, DomainStatus, PrismaErrors
  <1>2. /\ "room" \in Row /\ "image1" \in Row /\ "image2" \in Row
        /\ "link1" \in Row /\ "link2" \in Row
        /\ "share" \in Mode /\ "nokey" \in Mode /\ "update" \in Mode
    BY DEF Row, Mode
  <1>3. /\ Quiet(<<Read({"ROOM_NOT_FOUND"})>>) /\ Quiet(<<Read({"ROOM_TYPE_NOT_FOUND"})>>)
        /\ Quiet(<<Read({"ROOM_NUMBER_EXISTS"})>>)
        /\ Quiet(<<Read({"ROOM_IMAGE_NOT_FOUND"})>>)
    BY <1>1, Statements
  <1>4. /\ Done(<<Write(Taken \cup Dangling)>>) /\ Quiet(<<Check({"UPLOAD_FAILED"})>>)
        /\ Inside(<<InTx({})>>)
    BY <1>1, Statements
  <1>5. /\ Done(<<WriteRow("room", "nokey", Gone)>>)
        /\ Done(<<WriteRow("room", "share", {})>>)
        /\ Done(<<WriteRow("image1", "update", Gone)>>)
        /\ Done(<<WriteRow("image2", "nokey", Gone)>>)
    BY <1>1, <1>2, RowStatements
  <1>6. Inside(<<Lock("room", "share", Taken \cup Dangling)>>)
    BY <1>1, <1>2, RowStatements
  <1>7. ASSUME NEW mode \in {"nokey", "update"}
        PROVE  Closing(<<Lock("room", mode, Taken \cup Dangling), Commit>>)
    <2>1. Inside(<<Lock("room", mode, Taken \cup Dangling)>>)
      BY <1>1, <1>2, RowStatements
    <2> QED
      BY <2>1, Pieces, InsideFront
  <1>8. Closing(<<Lock("image1", "nokey", Gone), Commit>>)
    <2>1. Inside(<<Lock("image1", "nokey", Gone)>>)
      BY <1>1, <1>2, RowStatements
    <2> QED
      BY <2>1, Pieces, InsideFront
  <1>9. ASSUME NEW links \in {<<"link1">>, <<"link2">>, <<"link1", "link2">>,
                              <<"link2", "link1">>}
        PROVE  Inside(LockEach(links))
    <2>1. /\ <<"link1">> \in Seq(Row) /\ <<"link2">> \in Seq(Row)
          /\ <<"link1", "link2">> \in Seq(Row) /\ <<"link2", "link1">> \in Seq(Row)
      BY <1>2
    <2>2. links \in Seq(Row)
      BY <2>1, Zenon
    <2> QED
      BY <2>2, Pieces
  <1>10. Inside(LockEach(<<"image1", "image2">>)) /\ Inside(LockEach(<<"image2", "image1">>))
    <2>1. <<"image1", "image2">> \in Seq(Row) /\ <<"image2", "image1">> \in Seq(Row)
      BY <1>2
    <2> QED
      BY <2>1, Pieces
  <1> QED
    BY <1>3, <1>4, <1>5, <1>6, <1>7, <1>8, <1>9, <1>10

LEMMA RoomsUpdatePlans ==
  \A p \in RoomsService.update : Done(p)
  <1> DEFINE found == <<Read({"ROOM_NOT_FOUND"})>>
             roomType == <<Read({"ROOM_TYPE_NOT_FOUND"})>>
             number == <<Read({"ROOM_NUMBER_EXISTS"})>>
             delete == <<InTx({})>>
             refer == <<Lock("room", "share", Taken \cup Dangling)>>
             Links == {<<"link1">>, <<"link2">>, <<"link1", "link2">>, <<"link2", "link1">>}
             facilities == {<<>>, delete} \cup
               {delete \o LockEach(links) \o refer : links \in Links}
             row(mode) == <<Lock("room", mode, Taken \cup Dangling), Commit>>
             begin == <<Begin>>
             Modes == {"nokey", "update"}
             sameNumber == {begin \o fs \o row("nokey") : fs \in facilities}
             newNumber == {number \o begin \o fs \o row(mode) :
                             fs \in facilities, mode \in Modes}
             rests == sameNumber \cup newNumber
             types == {<<>>, roomType}
             updates == {found \o type \o rest : type \in types, rest \in rests}
  <1>1. RoomsService.update = updates
    BY DEF RoomsService
  <1>2. /\ Quiet(found) /\ Quiet(roomType) /\ Quiet(number) /\ Quiet(<<>>)
        /\ Inside(delete) /\ Inside(refer) /\ Inside(<<>>) /\ Opening(begin)
    BY RoomsPieces, Pieces
  <1>3. \A mode \in Modes : Closing(row(mode))
    BY RoomsPieces
  <1>4. \A links \in Links : Inside(LockEach(links))
    BY RoomsPieces
  <1> HIDE DEF found, roomType, number, delete, refer, begin, Links, row
  <1>5. \A fs \in facilities : Inside(fs)
    <2>1. ASSUME NEW links \in Links PROVE Inside(delete \o LockEach(links) \o refer)
      BY <1>2, <1>4, Joins
    <2> QED
      BY <1>2, <2>1
  <1> HIDE DEF facilities
  <1>6. ASSUME NEW fs \in facilities, NEW mode \in Modes
        PROVE  Done(begin \o fs \o row(mode)) /\ Done(number \o begin \o fs \o row(mode))
    <2>1. Inside(fs) /\ Closing(row(mode))
      BY <1>3, <1>5
    <2> HIDE DEF Modes
    <2>2. Opening(begin \o fs) /\ Opening(number \o begin)
      BY <1>2, <2>1, Joins
    <2>3. Opening(number \o begin \o fs)
      BY <2>1, <2>2, Joins
    <2> QED
      BY <2>1, <2>2, <2>3, Joins
  <1>7. \A rest \in rests : Done(rest)
    <2>1. "nokey" \in Modes
      OBVIOUS
    <2> HIDE DEF Modes
    <2>2. \A rest \in sameNumber : Done(rest)
      BY <1>6, <2>1, Zenon
    <2>3. ASSUME NEW rest \in newNumber PROVE Done(rest)
      <3>1. PICK fs \in facilities, mode \in Modes : rest = number \o begin \o fs \o row(mode)
        OBVIOUS
      <3> QED
        BY <1>6, <3>1
    <2> HIDE DEF sameNumber, newNumber
    <2> QED
      BY <2>2, <2>3
  <1> HIDE DEF rests
  <1>8. \A type \in types : Quiet(found \o type)
    BY <1>2, Joins
  <1> HIDE DEF types
  <1>9. ASSUME NEW type \in types, NEW rest \in rests PROVE Done(found \o type \o rest)
    BY <1>7, <1>8, Joins
  <1>10. ASSUME NEW p \in updates PROVE Done(p)
    <2>1. PICK type \in types, rest \in rests : p = found \o type \o rest
      OBVIOUS
    <2> QED
      BY <1>9, <2>1
  <1> HIDE DEF updates
  <1> QED
    BY <1>1, <1>10

LEMMA RoomsPlans ==
  /\ \A p \in RoomsService.findAll : Quiet(p)
  /\ \A p \in RoomsService.findOne : Quiet(p)
  /\ \A p \in RoomsService.create : Done(p)
  /\ \A p \in RoomsService.remove : Done(p)
  /\ \A p \in RoomsService.addImages : Half(p)
  /\ \A p \in RoomsService.setPrimaryImage : Half(p)
  /\ \A p \in RoomsService.reorderImages : Half(p)
  <1> DEFINE found == <<Read({"ROOM_NOT_FOUND"})>>
             roomType == <<Read({"ROOM_TYPE_NOT_FOUND"})>>
             number == <<Read({"ROOM_NUMBER_EXISTS"})>>
             image == <<Read({"ROOM_IMAGE_NOT_FOUND"})>>
             insert == <<Write(Taken \cup Dangling)>>
             disable == <<WriteRow("room", "nokey", Gone)>>
             uploaded == <<Check({"UPLOAD_FAILED"})>>
             insertImages == <<WriteRow("room", "share", {})>>
             begin == <<Begin>>
             commit == <<Commit>>
             mark == <<Lock("image1", "nokey", Gone), Commit>>
             eachImage == {LockEach(<<"image1", "image2">>), LockEach(<<"image2", "image1">>)}
             again == Reads(1)
             two == Reads(2)
  <1>1. /\ RoomsService.findAll = {two} /\ RoomsService.findOne = {found}
        /\ RoomsService.create = {roomType \o number \o insert}
        /\ RoomsService.remove = {found \o disable}
        /\ RoomsService.addImages = {found \o uploaded \o two \o insertImages \o again}
    BY DEF RoomsService
  <1>2. /\ RoomsService.setPrimaryImage =
             {found \o image \o begin \o images \o mark \o again : images \in eachImage}
        /\ RoomsService.reorderImages =
             {found \o begin \o images \o commit \o again : images \in eachImage}
    BY DEF RoomsService
  <1>3. /\ Quiet(found) /\ Quiet(roomType) /\ Quiet(number) /\ Quiet(image) /\ Quiet(two)
        /\ Done(insert) /\ Done(disable) /\ Quiet(uploaded) /\ Done(insertImages)
        /\ Opening(begin) /\ Closing(commit) /\ Closing(mark)
        /\ \A images \in eachImage : Inside(images)
    BY RoomsPieces, Pieces
  <1>4. Harmless(again)
    BY Halves
  <1> HIDE DEF found, roomType, number, image, insert, disable, uploaded, insertImages, begin,
               commit, mark, eachImage, again, two
  <1>5. Done(roomType \o number \o insert) /\ Done(found \o disable)
    <2>1. Quiet(roomType \o number)
      BY <1>3, Joins
    <2> QED
      BY <1>3, <2>1, Joins
  <1>6. Half(found \o uploaded \o two \o insertImages \o again)
    <2>1. Quiet(found \o uploaded)
      BY <1>3, Joins
    <2>2. Quiet(found \o uploaded \o two)
      BY <1>3, <2>1, Joins
    <2>3. Done(found \o uploaded \o two \o insertImages)
      BY <1>3, <2>2, Joins
    <2> QED
      BY <1>4, <2>3, Halves
  <1>7. ASSUME NEW images \in eachImage
        PROVE  /\ Half(found \o image \o begin \o images \o mark \o again)
               /\ Half(found \o begin \o images \o commit \o again)
    <2>1. Quiet(found \o image)
      BY <1>3, Joins
    <2>2. Opening(found \o image \o begin) /\ Opening(found \o begin)
      BY <1>3, <2>1, Joins
    <2>3. Opening(found \o image \o begin \o images) /\ Opening(found \o begin \o images)
      BY <1>3, <2>2, Joins
    <2>4. /\ Done(found \o image \o begin \o images \o mark)
          /\ Done(found \o begin \o images \o commit)
      BY <1>3, <2>3, Joins
    <2> QED
      BY <1>4, <2>4, Halves
  <1>8. \A p \in RoomsService.setPrimaryImage : Half(p)
    BY <1>2, <1>7
  <1>9. \A p \in RoomsService.reorderImages : Half(p)
    BY <1>2, <1>7
  <1> QED
    BY <1>1, <1>3, <1>5, <1>6, <1>8, <1>9

\* The removal of an image writes twice, and may fail with an error of its own
\* in between.
LEMMA RemoveImagePlans ==
  \A p \in RoomsService.removeImage : Frames(p, FALSE, FALSE)
  <1> DEFINE found == <<Read({"ROOM_NOT_FOUND"})>>
             image == <<Read({"ROOM_IMAGE_NOT_FOUND"})>>
             delete == <<WriteRow("image1", "update", Gone)>>
             mark == <<WriteRow("image2", "nokey", Gone)>>
             again == Reads(1)
             Nexts == {<<>>, again, again \o mark}
             Free(p) == Frames(p, FALSE, FALSE)
  <1>1. RoomsService.removeImage =
          {found \o image \o delete \o next \o again : next \in Nexts}
    BY DEF RoomsService
  <1>2. Free(found) /\ Free(image) /\ Free(delete) /\ Free(mark) /\ Free(again) /\ Free(<<>>)
    BY RoomsPieces, Pieces DEF Quiet, Done, Part
  <1> HIDE DEF found, image, delete, mark, again
  <1>3. ASSUME NEW p, NEW q, Free(p), Free(q) PROVE Free(p \o q)
    BY <1>3, FramesJoin
  <1> HIDE DEF Free
  <1>4. \A next \in Nexts : Free(next)
    BY <1>2, <1>3
  <1>5. Free(found \o image \o delete)
    BY <1>2, <1>3
  <1> HIDE DEF Nexts
  <1>6. ASSUME NEW next \in Nexts PROVE Free(found \o image \o delete \o next \o again)
    <2>1. Free(found \o image \o delete \o next)
      BY <1>3, <1>4, <1>5
    <2> QED
      BY <1>2, <1>3, <2>1
  <1>7. \A p \in RoomsService.removeImage : Free(p)
    BY <1>1, <1>6
  <1> QED
    BY <1>7 DEF Free

LEMMA BookingsPlans ==
  /\ \A p \in BookingsService.create : Done(p)
  /\ \A p \in BookingsService.findMyBookings : Quiet(p)
  /\ \A p \in BookingsService.findOne : Quiet(p)
  /\ \A p \in BookingsService.cancelOwn : Done(p)
  /\ \A p \in BookingsService.cancelAsAdmin : Done(p)
  /\ \A p \in BookingsService.findAllAdmin : Quiet(p)
  /\ \A p \in BookingsService.findOneAdmin : Quiet(p)
  /\ \A p \in BookingsService.approve : Done(p)
  /\ \A p \in BookingsService.reject : Done(p)
  <1> DEFINE dates == Check({"INVALID_BOOKING_DATES"})
             begin == Begin
             room == InTx({"ROOM_NOT_FOUND", "ROOM_INACTIVE", "ROOM_UNDER_MAINTENANCE",
                           "ROOM_CAPACITY_EXCEEDED"})
             lock == <<Lock("room", "update", {})>>
             available == <<InTx({"ROOM_NOT_AVAILABLE"})>>
             offer == Reads(1)
             step == InTx({})
             insert == InTx(Taken \cup Dangling)
             commit == Commit
             pending == InTx({"BOOKING_NOT_FOUND", "BOOKING_ALREADY_PROCESSED"})
             booking == Read({"BOOKING_NOT_FOUND"})
             own == Check({"FORBIDDEN"})
             inTime == Check({"BOOKING_NOT_CANCELLABLE"})
             unprocessed == Read({"BOOKING_NOT_FOUND", "BOOKING_ALREADY_PROCESSED"})
             two == Reads(2)
             writing == <<step, step, commit>>
  <1>1. /\ BookingsService.create =
             {<<dates, begin, room>> \o (lock \o available) \o offer
                \o <<step, insert, step, commit>>}
        /\ BookingsService.findMyBookings = {two}
        /\ BookingsService.findOne = {<<booking, own>>}
        /\ BookingsService.cancelOwn = {<<booking, own, inTime, begin>> \o writing}
        /\ BookingsService.cancelAsAdmin = {<<unprocessed, begin>> \o writing}
    BY DEF BookingsService, LockRoomForUpdate
  <1>2. /\ BookingsService.findAllAdmin = {two} /\ BookingsService.findOneAdmin = {<<booking>>}
        /\ BookingsService.approve = {<<begin, pending>> \o (lock \o available) \o writing}
        /\ BookingsService.reject = {<<begin, pending>> \o writing}
    BY DEF BookingsService, LockRoomForUpdate
  <1>3. /\ {"INVALID_BOOKING_DATES"} \in SUBSET Errors
        /\ {"ROOM_NOT_FOUND", "ROOM_INACTIVE", "ROOM_UNDER_MAINTENANCE",
            "ROOM_CAPACITY_EXCEEDED"} \in SUBSET Errors
        /\ {"ROOM_NOT_AVAILABLE"} \in SUBSET Errors /\ {} \in SUBSET Errors
        /\ Taken \cup Dangling \in SUBSET Errors
    BY DEF Taken, Dangling, Errors, DomainStatus, PrismaErrors
  <1>4. /\ {"BOOKING_NOT_FOUND", "BOOKING_ALREADY_PROCESSED"} \in SUBSET Errors
        /\ {"BOOKING_NOT_FOUND"} \in SUBSET Errors /\ {"FORBIDDEN"} \in SUBSET Errors
        /\ {"BOOKING_NOT_CANCELLABLE"} \in SUBSET Errors
    BY DEF Errors, DomainStatus
  <1>5. "room" \in Row /\ "update" \in Mode
    BY DEF Row, Mode
  <1>6. /\ Quiet(<<dates>>) /\ Quiet(<<booking>>) /\ Quiet(<<own>>)
        /\ Quiet(<<inTime>>) /\ Quiet(<<unprocessed>>)
    BY <1>3, <1>4, Statements
  <1>7. /\ Inside(<<room>>) /\ Inside(available) /\ Inside(<<step>>)
        /\ Inside(<<insert>>) /\ Inside(<<pending>>)
    BY <1>3, <1>4, Statements
  <1>8. Inside(lock)
    BY <1>3, <1>5, RowStatements
  <1>9. Opening(<<begin>>) /\ Closing(<<commit>>) /\ Inside(offer) /\ Quiet(two)
    BY Pieces
  <1> HIDE DEF dates, begin, room, lock, available, offer, step, insert, commit, pending, booking,
               own, inTime, unprocessed, two
  <1>10. Closing(writing) /\ Closing(<<step, insert, step, commit>>)
    <2>1. Closing(<<step, commit>>)
      BY <1>7, <1>9, InsideFront
    <2>2. Closing(writing) /\ Closing(<<insert, step, commit>>)
      BY <1>7, <2>1, InsideFront
    <2> QED
      BY <1>7, <2>2, InsideFront
  <1>11. Inside(lock \o available)
    BY <1>7, <1>8, Joins
  <1>12. Opening(<<begin, room>>) /\ Opening(<<begin, pending>>)
    BY <1>7, <1>9, OpeningFront
  <1>13. Opening(<<dates, begin, room>>)
    BY <1>6, <1>12, QuietFrontOfTwo
  <1>14. Opening(<<unprocessed, begin>>) /\ Opening(<<inTime, begin>>)
    BY <1>6, <1>9, QuietFront
  <1>15. Opening(<<booking, own, inTime, begin>>)
    <2>1. Opening(<<own, inTime, begin>>)
      BY <1>6, <1>14, QuietFrontOfTwo
    <2> QED
      BY <1>6, <2>1, QuietFrontOfThree
  <1>16. Quiet(<<booking, own>>)
    BY <1>6, QuietFront
  <1> DEFINE locked == lock \o available
             stay == <<step, insert, step, commit>>
             arriving == <<dates, begin, room>>
             reading == <<begin, pending>>
             cancelling == <<booking, own, inTime, begin>>
             cancellingAny == <<unprocessed, begin>>
  <1>17. /\ Inside(locked) /\ Closing(stay) /\ Opening(arriving) /\ Opening(reading)
         /\ Opening(cancelling) /\ Opening(cancellingAny) /\ Closing(writing)
    BY <1>10, <1>11, <1>12, <1>13, <1>14, <1>15
  <1> HIDE DEF locked, stay, arriving, reading, cancelling, cancellingAny, writing
  <1>18. Done(arriving \o locked \o offer \o stay)
    <2>1. Opening(arriving \o locked)
      BY <1>17, Joins
    <2>2. Opening(arriving \o locked \o offer)
      BY <1>9, <2>1, Joins
    <2> QED
      BY <1>17, <2>2, Joins
  <1>19. /\ Done(cancelling \o writing) /\ Done(cancellingAny \o writing)
         /\ Done(reading \o writing)
    BY <1>17, Joins
  <1>20. Done(reading \o locked \o writing)
    <2>1. Opening(reading \o locked)
      BY <1>17, Joins
    <2> QED
      BY <1>17, <2>1, Joins
  <1>21. /\ BookingsService.create = {arriving \o locked \o offer \o stay}
         /\ BookingsService.cancelOwn = {cancelling \o writing}
         /\ BookingsService.cancelAsAdmin = {cancellingAny \o writing}
         /\ BookingsService.approve = {reading \o locked \o writing}
         /\ BookingsService.reject = {reading \o writing}
    BY <1>1, <1>2 DEF locked, stay, arriving, reading, cancelling, cancellingAny, writing
  <1> QED
    BY <1>1, <1>2, <1>6, <1>9, <1>16, <1>18, <1>19, <1>20, <1>21

-----------------------------------------------------------------------------
\* The routes.  Who may have a plan run that writes, and how far an error may
\* leave it.
Planned(name, route) ==
  \A p \in route.plans :
    /\ Frames(p, FALSE, FALSE)
    /\ name \notin MayBeHalfDone => Done(p)
    /\ name \in MayBeHalfDone \ {<<"rooms", "removeImage">>} => Half(p)
Entitled(name, route) ==
  \/ \A p \in route.plans : Quiet(p)
  \/ ~route.public /\ route.roles = {"ADMIN"}
  \/ name \in {<<"auth", "register">>, <<"auth", "login">>,
               <<"auth", "refresh">>, <<"bookings", "create">>}
  \/ ~route.public /\ name \in {<<"auth", "logout">>, <<"bookings", "cancel">>}
Good(name, route) == Planned(name, route) /\ Entitled(name, route)

LEMMA RouteFields ==
  ASSUME NEW plans
  PROVE  /\ Public(plans).plans = plans /\ SignedIn(plans).plans = plans
         /\ Customer(plans).plans = plans /\ Admin(plans).plans = plans
         /\ Public(plans).public /\ ~SignedIn(plans).public
         /\ ~Customer(plans).public /\ ~Admin(plans).public
         /\ Customer(plans).roles = {"CUSTOMER"} /\ Admin(plans).roles = {"ADMIN"}
  BY Zenon DEF Public, SignedIn, Customer, Admin, Route

LEMMA QuietIsDone ==
  ASSUME NEW p, Quiet(p)
  PROVE  Done(p)
  BY DEF Quiet, Done, Part

LEMMA QuietRoute ==
  ASSUME NEW name, name \notin MayBeHalfDone, NEW plans, \A p \in plans : Quiet(p),
         NEW route \in {Public(plans), SignedIn(plans), Customer(plans), Admin(plans)}
  PROVE  Good(name, route)
  <1>1. route.plans = plans
    BY RouteFields
  <1>2. \A p \in plans : Done(p) /\ Frames(p, FALSE, FALSE)
    BY QuietIsDone DEF Done, Part
  <1> QED
    BY <1>1, <1>2 DEF Good, Planned, Entitled

LEMMA AdminRoute ==
  ASSUME NEW name, name \notin MayBeHalfDone, NEW plans, \A p \in plans : Done(p)
  PROVE  Good(name, Admin(plans))
  <1>1. \A p \in plans : Frames(p, FALSE, FALSE)
    BY DEF Done, Part
  <1>2. PICK route : route = Admin(plans)
    OBVIOUS
  <1>3. route.plans = plans /\ ~route.public /\ route.roles = {"ADMIN"}
    BY <1>2, RouteFields
  <1>4. Planned(name, route)
    BY <1>1, <1>3 DEF Planned
  <1>5. Entitled(name, route)
    BY <1>3, Zenon DEF Entitled
  <1> QED
    BY <1>2, <1>4, <1>5 DEF Good

LEMMA HalfRoute ==
  ASSUME NEW name, name \in MayBeHalfDone, NEW plans, \A p \in plans : Half(p)
  PROVE  Good(name, Admin(plans))
  <1>1. \A p \in plans : Frames(p, FALSE, FALSE)
    BY DEF Half
  <1>2. PICK route : route = Admin(plans)
    OBVIOUS
  <1>3. route.plans = plans /\ ~route.public /\ route.roles = {"ADMIN"}
    BY <1>2, RouteFields
  <1>4. Planned(name, route)
    BY <1>1, <1>3 DEF Planned
  <1>5. Entitled(name, route)
    BY <1>3, Zenon DEF Entitled
  <1> QED
    BY <1>2, <1>4, <1>5 DEF Good

LEMMA AuthRoutes ==
  \A h \in DOMAIN AuthController : Good(<<"auth", h>>, AuthController[h])
  <1> DEFINE K == AuthController
  <1>1. /\ K["register"] = Public(AuthService.register)
        /\ K["login"] = Public(AuthService.login)
        /\ K["refresh"] = Public(AuthService.refresh)
        /\ K["logout"] = SignedIn(AuthService.logout)
        /\ K["me"] = SignedIn(AuthService.me)
        /\ DOMAIN K = {"register", "login", "refresh", "logout", "me"}
    BY DEF AuthController
  <1> HIDE DEF K
  <1>2. /\ <<"auth", "register">> \in MayBeHalfDone /\ <<"auth", "refresh">> \in MayBeHalfDone
        /\ <<"auth", "login">> \notin MayBeHalfDone /\ <<"auth", "logout">> \notin MayBeHalfDone
        /\ <<"auth", "me">> \notin MayBeHalfDone
    BY DEF MayBeHalfDone
  <1>3. Good(<<"auth", "register">>, K["register"])
    <2>1. \A p \in AuthService.register : Half(p) /\ Frames(p, FALSE, FALSE)
      BY AuthPlans DEF Half
    <2> QED
      BY <1>1, <1>2, <2>1, RouteFields DEF Good, Planned, Entitled
  <1>4. Good(<<"auth", "refresh">>, K["refresh"])
    <2>1. \A p \in AuthService.refresh : Half(p) /\ Frames(p, FALSE, FALSE)
      BY AuthPlans DEF Half
    <2> QED
      BY <1>1, <1>2, <2>1, RouteFields DEF Good, Planned, Entitled
  <1>5. Good(<<"auth", "login">>, K["login"])
    <2>1. \A p \in AuthService.login : Done(p) /\ Frames(p, FALSE, FALSE)
      BY AuthPlans DEF Done, Part
    <2> QED
      BY <1>1, <1>2, <2>1, RouteFields DEF Good, Planned, Entitled
  <1>6. Good(<<"auth", "logout">>, K["logout"])
    <2>1. \A p \in AuthService.logout : Done(p) /\ Frames(p, FALSE, FALSE)
      BY AuthPlans DEF Done, Part
    <2>2. PICK route : route = K["logout"]
      OBVIOUS
    <2>3. route.plans = AuthService.logout /\ ~route.public
      BY <1>1, <2>2, RouteFields
    <2>4. Planned(<<"auth", "logout">>, route)
      BY <1>2, <2>1, <2>3 DEF Planned
    <2>5. Entitled(<<"auth", "logout">>, route)
      BY <2>3 DEF Entitled
    <2> QED
      BY <2>2, <2>4, <2>5 DEF Good
  <1>7. Good(<<"auth", "me">>, K["me"])
    BY <1>1, <1>2, AuthPlans, QuietRoute
  <1> QED
    BY <1>1, <1>3, <1>4, <1>5, <1>6, <1>7 DEF K

LEMMA UsersRoutes ==
  \A h \in DOMAIN UsersController : Good(<<"users", h>>, UsersController[h])
  <1> DEFINE K == UsersController
  <1>1. /\ K["findAll"] = Admin(UsersService.findAll)
        /\ K["findOne"] = Admin(UsersService.findOne)
        /\ K["updateStatus"] = Admin(UsersService.updateStatus)
        /\ DOMAIN K = {"findAll", "findOne", "updateStatus"}
    BY DEF UsersController
  <1> HIDE DEF K
  <1>2. \A h : <<"users", h>> \notin MayBeHalfDone
    BY DEF MayBeHalfDone
  <1>3. Good(<<"users", "findAll">>, K["findAll"])
    BY <1>1, <1>2, UsersPlans, QuietRoute
  <1>4. Good(<<"users", "findOne">>, K["findOne"])
    BY <1>1, <1>2, UsersPlans, QuietRoute
  <1>5. Good(<<"users", "updateStatus">>, K["updateStatus"])
    BY <1>1, <1>2, UsersPlans, AdminRoute
  <1> QED
    BY <1>1, <1>3, <1>4, <1>5 DEF K

LEMMA RoomTypesRoutes ==
  \A h \in DOMAIN RoomTypesController : Good(<<"roomTypes", h>>, RoomTypesController[h])
  <1> DEFINE K == RoomTypesController
  <1>1. /\ K["findAll"] = Public(RoomTypesService.findAll)
        /\ K["findOne"] = Public(RoomTypesService.findOne)
        /\ K["create"] = Admin(RoomTypesService.create)
        /\ K["update"] = Admin(RoomTypesService.update)
        /\ K["remove"] = Admin(RoomTypesService.remove)
        /\ DOMAIN K = {"findAll", "findOne", "create", "update", "remove"}
    BY DEF RoomTypesController
  <1> HIDE DEF K
  <1>2. \A h : <<"roomTypes", h>> \notin MayBeHalfDone
    BY DEF MayBeHalfDone
  <1>3. Good(<<"roomTypes", "findAll">>, K["findAll"])
    BY <1>1, <1>2, RoomTypesPlans, QuietRoute
  <1>4. Good(<<"roomTypes", "findOne">>, K["findOne"])
    BY <1>1, <1>2, RoomTypesPlans, QuietRoute
  <1>5. Good(<<"roomTypes", "create">>, K["create"])
    BY <1>1, <1>2, RoomTypesPlans, AdminRoute
  <1>6. Good(<<"roomTypes", "update">>, K["update"])
    BY <1>1, <1>2, RoomTypesPlans, AdminRoute
  <1>7. Good(<<"roomTypes", "remove">>, K["remove"])
    BY <1>1, <1>2, RoomTypesPlans, AdminRoute
  <1> QED
    BY <1>1, <1>3, <1>4, <1>5, <1>6, <1>7 DEF K

LEMMA FacilitiesRoutes ==
  \A h \in DOMAIN FacilitiesController : Good(<<"facilities", h>>, FacilitiesController[h])
  <1> DEFINE K == FacilitiesController
  <1>1. /\ K["findAll"] = Public(FacilitiesService.findAll)
        /\ K["findOne"] = Public(FacilitiesService.findOne)
        /\ K["create"] = Admin(FacilitiesService.create)
        /\ K["update"] = Admin(FacilitiesService.update)
        /\ K["remove"] = Admin(FacilitiesService.remove)
        /\ DOMAIN K = {"findAll", "findOne", "create", "update", "remove"}
    BY DEF FacilitiesController
  <1> HIDE DEF K
  <1>2. \A h : <<"facilities", h>> \notin MayBeHalfDone
    BY DEF MayBeHalfDone
  <1>3. Good(<<"facilities", "findAll">>, K["findAll"])
    BY <1>1, <1>2, FacilitiesPlans, QuietRoute
  <1>4. Good(<<"facilities", "findOne">>, K["findOne"])
    BY <1>1, <1>2, FacilitiesPlans, QuietRoute
  <1>5. Good(<<"facilities", "create">>, K["create"])
    BY <1>1, <1>2, FacilitiesPlans, AdminRoute
  <1>6. Good(<<"facilities", "update">>, K["update"])
    BY <1>1, <1>2, FacilitiesPlans, AdminRoute
  <1>7. Good(<<"facilities", "remove">>, K["remove"])
    BY <1>1, <1>2, FacilitiesPlans, AdminRoute
  <1> QED
    BY <1>1, <1>3, <1>4, <1>5, <1>6, <1>7 DEF K

LEMMA AvailabilityRoutes ==
  \A h \in DOMAIN AvailabilityController : Good(<<"availability", h>>, AvailabilityController[h])
  <1> DEFINE K == AvailabilityController
  <1>1. /\ K["search"] = Public(AvailabilityService.searchAvailableRooms)
        /\ DOMAIN K = {"search"}
    BY DEF AvailabilityController
  <1> HIDE DEF K
  <1>2. \A h : <<"availability", h>> \notin MayBeHalfDone
    BY DEF MayBeHalfDone
  <1>3. Good(<<"availability", "search">>, K["search"])
    BY <1>1, <1>2, AvailabilityPlans, QuietRoute
  <1> QED
    BY <1>1, <1>3 DEF K

LEMMA OffersRoutes ==
  \A h \in DOMAIN OffersController : Good(<<"offers", h>>, OffersController[h])
  <1> DEFINE K == OffersController
  <1>1. /\ K["findAll"] = Public(OffersService.findAllPublic)
        /\ K["findOne"] = Public(OffersService.findOne)
        /\ DOMAIN K = {"findAll", "findOne"}
    BY DEF OffersController
  <1> HIDE DEF K
  <1>2. \A h : <<"offers", h>> \notin MayBeHalfDone
    BY DEF MayBeHalfDone
  <1>3. Good(<<"offers", "findAll">>, K["findAll"])
    BY <1>1, <1>2, OffersPlans, QuietRoute
  <1>4. Good(<<"offers", "findOne">>, K["findOne"])
    BY <1>1, <1>2, OffersPlans, QuietRoute
  <1> QED
    BY <1>1, <1>3, <1>4 DEF K

LEMMA AdminOffersRoutes ==
  \A h \in DOMAIN AdminOffersController : Good(<<"adminOffers", h>>, AdminOffersController[h])
  <1> DEFINE K == AdminOffersController
  <1>1. /\ K["findAll"] = Admin(OffersService.findAllAdmin)
        /\ K["create"] = Admin(OffersService.create)
        /\ K["update"] = Admin(OffersService.update)
        /\ K["remove"] = Admin(OffersService.remove)
        /\ DOMAIN K = {"findAll", "create", "update", "remove"}
    BY DEF AdminOffersController
  <1> HIDE DEF K
  <1>2. \A h : <<"adminOffers", h>> \notin MayBeHalfDone
    BY DEF MayBeHalfDone
  <1>3. Good(<<"adminOffers", "findAll">>, K["findAll"])
    BY <1>1, <1>2, OffersPlans, QuietRoute
  <1>4. Good(<<"adminOffers", "create">>, K["create"])
    BY <1>1, <1>2, OffersPlans, AdminRoute
  <1>5. Good(<<"adminOffers", "update">>, K["update"])
    BY <1>1, <1>2, OffersPlans, AdminRoute
  <1>6. Good(<<"adminOffers", "remove">>, K["remove"])
    BY <1>1, <1>2, OffersPlans, AdminRoute
  <1> QED
    BY <1>1, <1>3, <1>4, <1>5, <1>6 DEF K

LEMMA AdminBookingsRoutes ==
  \A h \in DOMAIN AdminBookingsController : Good(<<"adminBookings", h>>, AdminBookingsController[h])
  <1> DEFINE K == AdminBookingsController
  <1>1. /\ K["findAll"] = Admin(BookingsService.findAllAdmin)
        /\ K["findOne"] = Admin(BookingsService.findOneAdmin)
        /\ K["approve"] = Admin(BookingsService.approve)
        /\ K["reject"] = Admin(BookingsService.reject)
        /\ K["cancel"] = Admin(BookingsService.cancelAsAdmin)
        /\ DOMAIN K = {"findAll", "findOne", "approve", "reject", "cancel"}
    BY DEF AdminBookingsController
  <1> HIDE DEF K
  <1>2. \A h : <<"adminBookings", h>> \notin MayBeHalfDone
    BY DEF MayBeHalfDone
  <1>3. Good(<<"adminBookings", "findAll">>, K["findAll"])
    BY <1>1, <1>2, BookingsPlans, QuietRoute
  <1>4. Good(<<"adminBookings", "findOne">>, K["findOne"])
    BY <1>1, <1>2, BookingsPlans, QuietRoute
  <1>5. Good(<<"adminBookings", "approve">>, K["approve"])
    BY <1>1, <1>2, BookingsPlans, AdminRoute
  <1>6. Good(<<"adminBookings", "reject">>, K["reject"])
    BY <1>1, <1>2, BookingsPlans, AdminRoute
  <1>7. Good(<<"adminBookings", "cancel">>, K["cancel"])
    BY <1>1, <1>2, BookingsPlans, AdminRoute
  <1> QED
    BY <1>1, <1>3, <1>4, <1>5, <1>6, <1>7 DEF K

LEMMA DashboardRoutes ==
  \A h \in DOMAIN DashboardController : Good(<<"dashboard", h>>, DashboardController[h])
  <1> DEFINE K == DashboardController
  <1>1. /\ K["getStats"] = Admin(DashboardService.getStats)
        /\ DOMAIN K = {"getStats"}
    BY DEF DashboardController
  <1> HIDE DEF K
  <1>2. \A h : <<"dashboard", h>> \notin MayBeHalfDone
    BY DEF MayBeHalfDone
  <1>3. Good(<<"dashboard", "getStats">>, K["getStats"])
    BY <1>1, <1>2, OtherPlans, QuietRoute
  <1> QED
    BY <1>1, <1>3 DEF K

LEMMA UploadsRoutes ==
  \A h \in DOMAIN UploadsController : Good(<<"uploads", h>>, UploadsController[h])
  <1> DEFINE K == UploadsController
  <1>1. /\ K["serveImage"] = SignedIn(UploadsService.readLocalFile)
        /\ DOMAIN K = {"serveImage"}
    BY DEF UploadsController
  <1> HIDE DEF K
  <1>2. \A h : <<"uploads", h>> \notin MayBeHalfDone
    BY DEF MayBeHalfDone
  <1>3. Good(<<"uploads", "serveImage">>, K["serveImage"])
    BY <1>1, <1>2, OtherPlans, QuietRoute
  <1> QED
    BY <1>1, <1>3 DEF K

LEMMA RoomsRoutes ==
  \A h \in DOMAIN RoomsController : Good(<<"rooms", h>>, RoomsController[h])
  <1> DEFINE K == RoomsController
  <1>1. /\ K["findAll"] = Public(RoomsService.findAll)
        /\ K["findOne"] = Public(RoomsService.findOne)
        /\ K["checkAvailability"] = Public(AvailabilityService.isRoomAvailable)
        /\ K["create"] = Admin(RoomsService.create)
        /\ K["update"] = Admin(RoomsService.update)
        /\ K["remove"] = Admin(RoomsService.remove)
        /\ K["addImages"] = Admin(RoomsService.addImages)
        /\ K["reorderImages"] = Admin(RoomsService.reorderImages)
        /\ K["setPrimaryImage"] = Admin(RoomsService.setPrimaryImage)
        /\ K["removeImage"] = Admin(RoomsService.removeImage)
        /\ DOMAIN K = {"findAll", "findOne", "checkAvailability", "create", "update", "remove",
                       "addImages", "reorderImages", "setPrimaryImage", "removeImage"}
    BY DEF RoomsController
  <1> HIDE DEF K
  <1>2. /\ \A h \in {"findAll", "findOne", "checkAvailability", "create", "update", "remove"} :
             <<"rooms", h>> \notin MayBeHalfDone
        /\ \A h \in {"addImages", "reorderImages", "setPrimaryImage", "removeImage"} :
             <<"rooms", h>> \in MayBeHalfDone
    BY DEF MayBeHalfDone
  <1>3. Good(<<"rooms", "findAll">>, K["findAll"])
    BY <1>1, <1>2, RoomsPlans, QuietRoute
  <1>4. Good(<<"rooms", "findOne">>, K["findOne"])
    BY <1>1, <1>2, RoomsPlans, QuietRoute
  <1>5. Good(<<"rooms", "checkAvailability">>, K["checkAvailability"])
    BY <1>1, <1>2, AvailabilityPlans, QuietRoute
  <1>6. Good(<<"rooms", "create">>, K["create"])
    BY <1>1, <1>2, RoomsPlans, AdminRoute
  <1>7. Good(<<"rooms", "update">>, K["update"])
    BY <1>1, <1>2, RoomsUpdatePlans, AdminRoute
  <1>8. Good(<<"rooms", "remove">>, K["remove"])
    BY <1>1, <1>2, RoomsPlans, AdminRoute
  <1>9. Good(<<"rooms", "addImages">>, K["addImages"])
    BY <1>1, <1>2, RoomsPlans, HalfRoute
  <1>10. Good(<<"rooms", "reorderImages">>, K["reorderImages"])
    BY <1>1, <1>2, RoomsPlans, HalfRoute
  <1>11. Good(<<"rooms", "setPrimaryImage">>, K["setPrimaryImage"])
    BY <1>1, <1>2, RoomsPlans, HalfRoute
  <1>12. Good(<<"rooms", "removeImage">>, K["removeImage"])
    <2>1. PICK route : route = K["removeImage"]
      OBVIOUS
    <2>2. route.plans = RoomsService.removeImage /\ ~route.public /\ route.roles = {"ADMIN"}
      BY <1>1, <2>1, RouteFields
    <2>3. Planned(<<"rooms", "removeImage">>, route)
      BY <1>2, <2>2, RemoveImagePlans DEF Planned
    <2>4. Entitled(<<"rooms", "removeImage">>, route)
      BY <2>2, Zenon DEF Entitled
    <2> QED
      BY <2>1, <2>3, <2>4 DEF Good
  <1> QED
    BY <1>1, <1>3, <1>4, <1>5, <1>6, <1>7, <1>8, <1>9, <1>10, <1>11, <1>12 DEF K

LEMMA BookingsRoutes ==
  \A h \in DOMAIN BookingsController : Good(<<"bookings", h>>, BookingsController[h])
  <1> DEFINE K == BookingsController
  <1>1. /\ K["create"] = Public(BookingsService.create)
        /\ K["findMine"] = Customer(BookingsService.findMyBookings)
        /\ K["findOne"] = SignedIn(BookingsService.findOne)
        /\ K["cancel"] = Customer(BookingsService.cancelOwn)
        /\ DOMAIN K = {"create", "findMine", "findOne", "cancel"}
    BY DEF BookingsController
  <1> HIDE DEF K
  <1>2. \A h : <<"bookings", h>> \notin MayBeHalfDone
    BY DEF MayBeHalfDone
  <1>3. Good(<<"bookings", "create">>, K["create"])
    <2>1. \A p \in BookingsService.create : Done(p) /\ Frames(p, FALSE, FALSE)
      BY BookingsPlans DEF Done, Part
    <2> QED
      BY <1>1, <1>2, <2>1, RouteFields DEF Good, Planned, Entitled
  <1>4. Good(<<"bookings", "findMine">>, K["findMine"])
    BY <1>1, <1>2, BookingsPlans, QuietRoute
  <1>5. Good(<<"bookings", "findOne">>, K["findOne"])
    BY <1>1, <1>2, BookingsPlans, QuietRoute
  <1>6. Good(<<"bookings", "cancel">>, K["cancel"])
    <2>1. \A p \in BookingsService.cancelOwn : Done(p) /\ Frames(p, FALSE, FALSE)
      BY BookingsPlans DEF Done, Part
    <2>2. PICK route : route = K["cancel"]
      OBVIOUS
    <2>3. route.plans = BookingsService.cancelOwn /\ ~route.public
      BY <1>1, <2>2, RouteFields
    <2>4. Planned(<<"bookings", "cancel">>, route)
      BY <1>2, <2>1, <2>3 DEF Planned
    <2>5. Entitled(<<"bookings", "cancel">>, route)
      BY <2>3 DEF Entitled
    <2> QED
      BY <2>2, <2>4, <2>5 DEF Good
  <1> QED
    BY <1>1, <1>3, <1>4, <1>5, <1>6 DEF K

LEMMA EveryRoute ==
  \A name \in RouteNames : Good(name, RouteOf(name))
  <1> SUFFICES ASSUME NEW name \in RouteNames PROVE Good(name, RouteOf(name))
    OBVIOUS
  <1> DEFINE Cs == {"auth", "users", "roomTypes", "facilities", "availability", "offers",
                    "adminOffers", "rooms", "bookings", "adminBookings", "dashboard", "uploads"}
             K == Controllers
  <1>1. /\ DOMAIN K = Cs
        /\ K["auth"] = AuthController /\ K["users"] = UsersController
        /\ K["roomTypes"] = RoomTypesController /\ K["facilities"] = FacilitiesController
        /\ K["availability"] = AvailabilityController /\ K["offers"] = OffersController
        /\ K["adminOffers"] = AdminOffersController /\ K["rooms"] = RoomsController
        /\ K["bookings"] = BookingsController /\ K["adminBookings"] = AdminBookingsController
        /\ K["dashboard"] = DashboardController /\ K["uploads"] = UploadsController
    BY DEF Controllers
  <1>2. PICK c \in DOMAIN K : name \in {<<c, h>> : h \in DOMAIN K[c]}
    BY DEF RouteNames
  <1> HIDE DEF K
  <1>h. PICK h \in DOMAIN K[c] : name = <<c, h>>
    BY <1>2
  <1>3. ASSUME NEW k \in Cs, NEW g \in DOMAIN K[k] PROVE Good(<<k, g>>, K[k][g])
    BY <1>1, AuthRoutes, UsersRoutes, RoomTypesRoutes, FacilitiesRoutes, AvailabilityRoutes,
       OffersRoutes, AdminOffersRoutes, RoomsRoutes, BookingsRoutes, AdminBookingsRoutes,
       DashboardRoutes, UploadsRoutes
  <1>4. RouteOf(name) = K[c][h]
    BY <1>h DEF RouteOf, K
  <1> QED
    BY <1>1, <1>h, <1>3, <1>4

\* The invariant of one request, by its fields: where its plan has got, what an
\* error tells.
FitsPlan(rest, running, inTx, held, status) ==
  /\ Frames(rest, inTx, FALSE)
  /\ status # 0 => rest = <<>>
  /\ running => status = 0 /\ rest # <<>> /\ Head(rest).on = "own"
  /\ inTx => \E i \in DOMAIN rest : rest[i].on = "commit"
  /\ held # {} => inTx
FitsAnswer(name, rest, wrote, status) ==
  /\ wrote /\ status >= 400 =>
       /\ name \in MayBeHalfDone
       /\ status < 500 => name = <<"rooms", "removeImage">>
  /\ name \notin MayBeHalfDone =>
       WritesLast(rest) /\ (wrote => rest = <<>> /\ status \in {0, 200})
  /\ name \in MayBeHalfDone \ {<<"rooms", "removeImage">>} =>
       /\ NoErrorAfterWrite(rest)
       /\ wrote => /\ \A i \in 1 .. Len(rest) : rest[i].throws = {}
                   /\ status \in {0, 200, 500}
Fits(name, rest, running, inTx, held, wrote, status) ==
  /\ FitsPlan(rest, running, inTx, held, status)
  /\ FitsAnswer(name, rest, wrote, status)

\* A request that arrives.
LEMMA ArriveFits ==
  ASSUME NEW name \in RouteNames, NEW plan \in RouteOf(name).plans,
         NEW user \in Accounts \cup {Nobody}, Admits(RouteOf(name), user),
         NEW no \in BOOLEAN, ~no
  PROVE  /\ Fits(name, plan, no, no, {}, no, 0)
         /\ plan \in Seq(Statement) /\ Attached(RouteOf(name), user) \in Accounts \cup {Nobody}
  <1>1. /\ Frames(plan, FALSE, FALSE)
        /\ name \notin MayBeHalfDone => Done(plan)
        /\ name \in MayBeHalfDone \ {<<"rooms", "removeImage">>} => Half(plan)
    BY EveryRoute DEF Good, Planned
  <1>2. /\ name \notin MayBeHalfDone => WritesLast(plan)
        /\ name \in MayBeHalfDone \ {<<"rooms", "removeImage">>} => NoErrorAfterWrite(plan)
    BY <1>1 DEF Done, Half, Part, WritesLast
  <1>3. Attached(RouteOf(name), user) \in Accounts \cup {Nobody}
    BY DEF Attached
  <1>4. Frames(plan, no, FALSE)
    BY <1>1
  <1> QED
    <2>1. FitsPlan(plan, no, no, {}, 0)
      BY <1>4 DEF FitsPlan
    <2>2. FitsAnswer(name, plan, no, 0)
      BY <1>2 DEF FitsAnswer
    <2>3. plan \in Seq(Statement)
      BY <1>1 DEF Frames
    <2> QED
      BY <1>3, <2>1, <2>2, <2>3 DEF Fits

-----------------------------------------------------------------------------
\* How the steps change the record of a request.
LEMMA CallFields ==
  ASSUME NEW q \in Call
  PROVE  /\ q.name \in RouteNames /\ q.user \in Accounts \cup {Nobody} /\ q.room \in Rooms
         /\ q.rest \in Seq(Statement) /\ q.held \in SUBSET (Row \X Mode)
         /\ q.running \in BOOLEAN /\ q.inTx \in BOOLEAN /\ q.wrote \in BOOLEAN
         /\ q.status \in {0, 200} \cup 400 .. 500
  BY DEF Call

Same(q, r) == q.name = r.name /\ q.user = r.user /\ q.room = r.room
Becomes(q, r, rest, running, inTx, held, wrote, status) ==
  /\ r \in Call /\ Same(r, q) /\ r.rest = rest /\ r.running = running
  /\ r.inTx = inTx /\ r.held = held /\ r.wrote = wrote /\ r.status = status

LEMMA PassedFields ==
  ASSUME NEW q \in Call, NEW rest \in Seq(Statement), NEW running \in BOOLEAN,
         NEW wrote \in BOOLEAN, NEW r,
         r = [q EXCEPT !.rest = rest, !.running = running, !.wrote = wrote]
  PROVE  Becomes(q, r, rest, running, q.inTx, q.held, wrote, q.status)
  <1> DEFINE B == BOOLEAN
             H == SUBSET (Row \X Mode)
             S == Seq(Statement)
             T == {0, 200} \cup 400 .. 500
             U == Accounts \cup {Nobody}
             C == [name: RouteNames, user: U, room: Rooms, rest: S, running: B, inTx: B,
                   held: H, wrote: B, status: T]
  <1>1. Call = C /\ rest \in S /\ running \in B /\ wrote \in B
    BY DEF Call
  <1> HIDE DEF B, H, S, T, U
  <1> QED
    BY <1>1 DEF Same, Becomes

LEMMA BegunFields ==
  ASSUME NEW q \in Call, NEW inTx \in BOOLEAN, NEW r,
         r = [q EXCEPT !.inTx = inTx]
  PROVE  Becomes(q, r, q.rest, q.running, inTx, q.held, q.wrote, q.status)
  <1> DEFINE B == BOOLEAN
             H == SUBSET (Row \X Mode)
             S == Seq(Statement)
             T == {0, 200} \cup 400 .. 500
             U == Accounts \cup {Nobody}
             C == [name: RouteNames, user: U, room: Rooms, rest: S, running: B, inTx: B,
                   held: H, wrote: B, status: T]
  <1>1. Call = C /\ inTx \in B
    BY DEF Call
  <1> HIDE DEF B, H, S, T, U
  <1> QED
    BY <1>1 DEF Same, Becomes

LEMMA LockedFields ==
  ASSUME NEW q \in Call, NEW held \in SUBSET (Row \X Mode), NEW r,
         r = [q EXCEPT !.held = held]
  PROVE  Becomes(q, r, q.rest, q.running, q.inTx, held, q.wrote, q.status)
  <1> DEFINE B == BOOLEAN
             H == SUBSET (Row \X Mode)
             S == Seq(Statement)
             T == {0, 200} \cup 400 .. 500
             U == Accounts \cup {Nobody}
             C == [name: RouteNames, user: U, room: Rooms, rest: S, running: B, inTx: B,
                   held: H, wrote: B, status: T]
  <1>1. Call = C /\ held \in H
    BY DEF Call
  <1> HIDE DEF B, H, S, T, U
  <1> QED
    BY <1>1 DEF Same, Becomes

LEMMA CommittedFields ==
  ASSUME NEW q \in Call, NEW inTx \in BOOLEAN, NEW held \in SUBSET (Row \X Mode), NEW r,
         r = [q EXCEPT !.inTx = inTx, !.held = held]
  PROVE  Becomes(q, r, q.rest, q.running, inTx, held, q.wrote, q.status)
  <1> DEFINE B == BOOLEAN
             H == SUBSET (Row \X Mode)
             S == Seq(Statement)
             T == {0, 200} \cup 400 .. 500
             U == Accounts \cup {Nobody}
             C == [name: RouteNames, user: U, room: Rooms, rest: S, running: B, inTx: B,
                   held: H, wrote: B, status: T]
  <1>1. Call = C /\ inTx \in B /\ held \in H
    BY DEF Call
  <1> HIDE DEF B, H, S, T, U
  <1> QED
    BY <1>1 DEF Same, Becomes

LEMMA ConnectedFields ==
  ASSUME NEW q \in Call, NEW running \in BOOLEAN, NEW r,
         r = [q EXCEPT !.running = running]
  PROVE  Becomes(q, r, q.rest, running, q.inTx, q.held, q.wrote, q.status)
  <1> DEFINE B == BOOLEAN
             H == SUBSET (Row \X Mode)
             S == Seq(Statement)
             T == {0, 200} \cup 400 .. 500
             U == Accounts \cup {Nobody}
             C == [name: RouteNames, user: U, room: Rooms, rest: S, running: B, inTx: B,
                   held: H, wrote: B, status: T]
  <1>1. Call = C /\ running \in B
    BY DEF Call
  <1> HIDE DEF B, H, S, T, U
  <1> QED
    BY <1>1 DEF Same, Becomes

LEMMA FinishedFields ==
  ASSUME NEW q \in Call, NEW r, r = [q EXCEPT !.status = 200]
  PROVE  Becomes(q, r, q.rest, q.running, q.inTx, q.held, q.wrote, 200)
  <1> DEFINE B == BOOLEAN
             H == SUBSET (Row \X Mode)
             S == Seq(Statement)
             T == {0, 200} \cup 400 .. 500
             U == Accounts \cup {Nobody}
             C == [name: RouteNames, user: U, room: Rooms, rest: S, running: B, inTx: B,
                   held: H, wrote: B, status: T]
  <1>a. Call = C
    BY DEF Call
  <1>b. 200 \in T
    OBVIOUS
  <1>1. Call = C /\ 200 \in T
    BY <1>a, <1>b
  <1> HIDE DEF B, H, S, T, U
  <1> QED
    BY <1>1 DEF Same, Becomes

LEMMA AnswerFields ==
  ASSUME NEW q \in Call, NEW status \in 400 .. 500, NEW rest \in Seq(Statement),
         NEW no \in BOOLEAN, NEW held \in SUBSET (Row \X Mode), NEW r,
         r = [q EXCEPT !.status = status, !.rest = rest, !.running = no, !.inTx = no,
                       !.held = held]
  PROVE  Becomes(q, r, rest, no, no, held, q.wrote, status)
  <1> DEFINE B == BOOLEAN
             H == SUBSET (Row \X Mode)
             S == Seq(Statement)
             T == {0, 200} \cup 400 .. 500
             U == Accounts \cup {Nobody}
             C == [name: RouteNames, user: U, room: Rooms, rest: S, running: B, inTx: B,
                   held: H, wrote: B, status: T]
  <1>a. Call = C
    BY DEF Call
  <1>b. no \in B /\ held \in H /\ rest \in S
    OBVIOUS
  <1>c. status \in T
    OBVIOUS
  <1> HIDE DEF B, H, S, T, U
  <1> QED
    BY <1>a, <1>b, <1>c DEF Same, Becomes

LEMMA NewFields ==
  ASSUME NEW name \in RouteNames, NEW user \in Accounts \cup {Nobody}, NEW room \in Rooms,
         NEW rest \in Seq(Statement), NEW no \in BOOLEAN, NEW r,
         r = [name |-> name, user |-> user, room |-> room, rest |-> rest, running |-> no,
              inTx |-> no, held |-> {}, wrote |-> no, status |-> 0]
  PROVE  /\ r \in Call /\ r.name = name /\ r.user = user /\ r.rest = rest
         /\ r.running = no /\ r.inTx = no /\ r.held = {} /\ r.wrote = no /\ r.status = 0
  <1>1. /\ r \in Call /\ r.name = name /\ r.user = user /\ r.rest = rest
        /\ r.held = {} /\ r.status = 0
    BY DEF Call
  <1>2. r.running = no /\ r.inTx = no /\ r.wrote = no
    BY Zenon
  <1> QED
    BY <1>1, <1>2

-----------------------------------------------------------------------------
\* Those who hold a connection, by the requests f of the clients.
InTxOf(f) == {d \in Clients : f[d] # NoCall /\ f[d].inTx}
RunningOf(f) == {d \in Clients : f[d] # NoCall /\ f[d].running}

\* When one client's request changes, one more at most holds a connection.
LEMMA Count ==
  ASSUME NEW f, NEW g, NEW c \in Clients, \A d \in Clients \ {c} : g[d] = f[d]
  PROVE  /\ Cardinality(InTxOf(f)) \in Nat /\ Cardinality(RunningOf(f)) \in Nat
         /\ Cardinality(InTxOf(g)) \in Nat /\ Cardinality(RunningOf(g)) \in Nat
         /\ Cardinality(InTxOf(g)) <= Cardinality(InTxOf(f)) + 1
         /\ Cardinality(RunningOf(g)) <= Cardinality(RunningOf(f)) + 1
         /\ (c \in InTxOf(g) => c \in InTxOf(f))
              => Cardinality(InTxOf(g)) <= Cardinality(InTxOf(f))
         /\ (c \in RunningOf(g) => c \in RunningOf(f))
              => Cardinality(RunningOf(g)) <= Cardinality(RunningOf(f))
  <1>1. ASSUME NEW S, NEW T, S \subseteq Clients, T \subseteq Clients, T \ {c} \subseteq S
        PROVE  /\ Cardinality(S) \in Nat /\ Cardinality(T) \in Nat
               /\ Cardinality(T) <= Cardinality(S) + 1
               /\ (c \in T => c \in S) => Cardinality(T) <= Cardinality(S)
    <2>1. IsFiniteSet(S) /\ IsFiniteSet(T)
      BY <1>1, ClientsAssumption, FS_Subset
    <2>2. Cardinality(S) \in Nat /\ Cardinality(T) \in Nat
      BY <2>1, FS_CardinalityType
    <2>3. PICK U : U = S \cup {c}
      OBVIOUS
    <2>4. IsFiniteSet(U) /\ Cardinality(U) <= Cardinality(S) + 1
      BY <2>1, <2>2, <2>3, FS_AddElement
    <2>5. T \subseteq U
      BY <1>1, <2>3
    <2>6. Cardinality(T) <= Cardinality(U) /\ Cardinality(U) \in Nat
      BY <2>4, <2>5, FS_Subset, FS_CardinalityType
    <2>7. ASSUME c \in T => c \in S PROVE Cardinality(T) <= Cardinality(S)
      <3>1. T \subseteq S
        BY <1>1, <2>7
      <3> QED
        BY <2>1, <3>1, FS_Subset
    <2> QED
      BY <2>2, <2>4, <2>6, <2>7
  <1>2. /\ InTxOf(f) \subseteq Clients /\ InTxOf(g) \subseteq Clients
        /\ RunningOf(f) \subseteq Clients /\ RunningOf(g) \subseteq Clients
        /\ InTxOf(g) \ {c} \subseteq InTxOf(f) /\ RunningOf(g) \ {c} \subseteq RunningOf(f)
    BY DEF InTxOf, RunningOf
  <1>3. PICK S : S = InTxOf(f)
    OBVIOUS
  <1>4. PICK T : T = InTxOf(g)
    OBVIOUS
  <1>5. PICK U : U = RunningOf(f)
    OBVIOUS
  <1>6. PICK V : V = RunningOf(g)
    OBVIOUS
  <1>7. /\ Cardinality(S) \in Nat /\ Cardinality(T) \in Nat
        /\ Cardinality(T) <= Cardinality(S) + 1
        /\ (c \in T => c \in S) => Cardinality(T) <= Cardinality(S)
    BY <1>1, <1>2, <1>3, <1>4
  <1>8. /\ Cardinality(U) \in Nat /\ Cardinality(V) \in Nat
        /\ Cardinality(V) <= Cardinality(U) + 1
        /\ (c \in V => c \in U) => Cardinality(V) <= Cardinality(U)
    BY <1>1, <1>2, <1>5, <1>6
  <1> QED
    BY <1>3, <1>4, <1>5, <1>6, <1>7, <1>8

-----------------------------------------------------------------------------
\* The invariant, by the requests f of the clients and the owners o of bookings.
FitsCall(q) ==
  Fits(q.name, q.rest, q.running, q.inTx, q.held, q.wrote, q.status)
StateFits(f, o) ==
  /\ f \in [Clients -> Call \cup {NoCall}]
  /\ \A c \in Clients : f[c] # NoCall => FitsCall(f[c])
  /\ Cardinality(InTxOf(f)) + Cardinality(RunningOf(f)) <= Connections
  /\ o \subseteq Accounts \cup {Nobody}

LEMMA InvariantByFields ==
  ServerInvariant <=> StateFits(call, owners)
  <1>1. InUse = Cardinality(InTxOf(call)) + Cardinality(RunningOf(call))
    BY DEF InUse, InTxOf, RunningOf, Busy
  <1>2. ASSUME ServerInvariant, NEW c \in Clients, call[c] # NoCall
        PROVE  FitsCall(call[c])
    <2>1. PICK q : q = call[c]
      OBVIOUS
    <2>a. Busy(c) /\ GoesAsPlanned(c)
      BY <1>2 DEF ServerInvariant, Busy
    <2>b. PlanIsWhole(q) /\ ErrorsComeFirst(q)
      BY <2>1, <2>a DEF GoesAsPlanned
    <2>2. FitsPlan(q.rest, q.running, q.inTx, q.held, q.status)
      <3>1. /\ q.running => q.status = 0 /\ q.rest # <<>> /\ Head(q.rest).on = "own"
            /\ q.inTx => \E i \in DOMAIN q.rest : q.rest[i].on = "commit"
            /\ q.held # {} => q.inTx
        BY <1>2, <2>1, <2>a DEF ServerInvariant, TypeOK, Working, Runs
      <3> QED
        BY <2>b, <3>1 DEF FitsPlan, PlanIsWhole
    <2>3. FitsAnswer(q.name, q.rest, q.wrote, q.status)
      <3>1. q.wrote /\ q.status >= 400 =>
              /\ q.name \in MayBeHalfDone
              /\ q.status < 500 => q.name = <<"rooms", "removeImage">>
        BY <1>2, <2>1, <2>a DEF ServerInvariant, ErrorsAreClean
      <3> QED
        BY <2>b, <3>1 DEF FitsAnswer, ErrorsComeFirst
    <2> QED
      BY <2>1, <2>2, <2>3 DEF FitsCall, Fits
  <1>3. ASSUME ServerInvariant PROVE StateFits(call, owners)
    <2>1. /\ call \in [Clients -> Call \cup {NoCall}] /\ InUse <= Connections
          /\ owners \subseteq Accounts \cup {Nobody}
      BY <1>3 DEF ServerInvariant, TypeOK
    <2> QED
      BY <1>1, <1>2, <1>3, <2>1 DEF StateFits
  <1>4. ASSUME StateFits(call, owners) PROVE ServerInvariant
    <2>1. ASSUME NEW c \in Clients, Busy(c)
          PROVE  LET q == call[c]
                 IN  /\ FitsPlan(q.rest, q.running, q.inTx, q.held, q.status)
                     /\ FitsAnswer(q.name, q.rest, q.wrote, q.status)
      BY <1>4, <2>1 DEF StateFits, FitsCall, Fits, Busy
    <2>2. TypeOK
      BY <1>1, <1>4, <2>1 DEF StateFits, TypeOK, Runs, Working, FitsPlan
    <2>3. ErrorsAreClean
      BY <2>1 DEF ErrorsAreClean, FitsAnswer
    <2>4. ASSUME NEW c \in Clients PROVE GoesAsPlanned(c)
      <3> SUFFICES ASSUME Busy(c) PROVE GoesAsPlanned(c)
        BY DEF GoesAsPlanned
      <3>1. PICK q : q = call[c]
        OBVIOUS
      <3>2. /\ FitsPlan(q.rest, q.running, q.inTx, q.held, q.status)
            /\ FitsAnswer(q.name, q.rest, q.wrote, q.status)
        BY <2>1, <3>1
      <3>3. PlanIsWhole(q)
        BY <3>2 DEF FitsPlan, PlanIsWhole
      <3>4. ErrorsComeFirst(q)
        BY <3>2 DEF FitsAnswer, ErrorsComeFirst
      <3> QED
        BY <3>1, <3>3, <3>4 DEF GoesAsPlanned
    <2> QED
      BY <2>2, <2>3, <2>4 DEF ServerInvariant
  <1> QED
    BY <1>3, <1>4

\* A step that changes one request, which takes one connection at most, and only
\* a spare one.
LEMMA OneChanges ==
  ASSUME StateFits(call, owners), NEW c \in Clients, NEW r \in Call, FitsCall(r),
         call' = [call EXCEPT ![c] = r], owners' \subseteq Accounts \cup {Nobody},
         \/ /\ r.inTx => c \in InTxOf(call)
            /\ r.running => c \in RunningOf(call)
         \/ /\ Spare
            /\ (r.inTx => c \in InTxOf(call)) \/ (r.running => c \in RunningOf(call))
  PROVE  StateFits(call', owners')
  <1>1. PICK f : f = call
    OBVIOUS
  <1>2. PICK g : g = call'
    OBVIOUS
  <1>3. /\ f \in [Clients -> Call \cup {NoCall}]
        /\ \A d \in Clients : f[d] # NoCall => FitsCall(f[d])
        /\ Cardinality(InTxOf(f)) + Cardinality(RunningOf(f)) <= Connections
    BY <1>1 DEF StateFits
  <1>4. /\ g \in [Clients -> Call \cup {NoCall}] /\ g[c] = r
        /\ \A d \in Clients \ {c} : g[d] = f[d]
    BY <1>1, <1>2, <1>3
  <1>5. \A d \in Clients : g[d] # NoCall => FitsCall(g[d])
    BY <1>3, <1>4
  <1>6. (c \in InTxOf(g) => r.inTx) /\ (c \in RunningOf(g) => r.running)
    BY <1>4 DEF InTxOf, RunningOf
  <1>7. Spare => Cardinality(InTxOf(f)) + Cardinality(RunningOf(f)) < Connections
    BY <1>1 DEF Spare, InUse, InTxOf, RunningOf, Busy
  <1>8. Cardinality(InTxOf(g)) + Cardinality(RunningOf(g)) <= Connections
    <2>1. /\ Cardinality(InTxOf(f)) \in Nat /\ Cardinality(RunningOf(f)) \in Nat
          /\ Cardinality(InTxOf(g)) \in Nat /\ Cardinality(RunningOf(g)) \in Nat
          /\ Cardinality(InTxOf(g)) <= Cardinality(InTxOf(f)) + 1
          /\ Cardinality(RunningOf(g)) <= Cardinality(RunningOf(f)) + 1
          /\ (c \in InTxOf(g) => c \in InTxOf(f))
               => Cardinality(InTxOf(g)) <= Cardinality(InTxOf(f))
          /\ (c \in RunningOf(g) => c \in RunningOf(f))
               => Cardinality(RunningOf(g)) <= Cardinality(RunningOf(f))
      BY <1>4, Count
    <2>2. CASE (c \in InTxOf(g) => c \in InTxOf(f)) /\ (c \in RunningOf(g) => c \in RunningOf(f))
      BY <1>3, <2>1, <2>2, PoolAssumption
    <2>3. CASE Spare /\ (c \in InTxOf(g) => c \in InTxOf(f))
      BY <1>7, <2>1, <2>3, PoolAssumption
    <2>4. CASE Spare /\ (c \in RunningOf(g) => c \in RunningOf(f))
      BY <1>7, <2>1, <2>4, PoolAssumption
    <2> QED
      BY <1>1, <1>6, <2>2, <2>3, <2>4
  <1> QED
    BY <1>2, <1>4, <1>5, <1>8 DEF StateFits

\* Requests that end.
LEMMA SomeEnd ==
  ASSUME StateFits(call, owners), NEW D \in SUBSET Clients,
         call' = [d \in Clients |-> IF d \in D THEN NoCall ELSE call[d]], owners' = owners
  PROVE  StateFits(call', owners')
  <1>1. PICK f : f = call
    OBVIOUS
  <1>2. PICK g : g = call'
    OBVIOUS
  <1>3. /\ f \in [Clients -> Call \cup {NoCall}]
        /\ \A d \in Clients : f[d] # NoCall => FitsCall(f[d])
        /\ Cardinality(InTxOf(f)) + Cardinality(RunningOf(f)) <= Connections
        /\ owners' \subseteq Accounts \cup {Nobody}
    BY <1>1 DEF StateFits
  <1>4. /\ g \in [Clients -> Call \cup {NoCall}]
        /\ \A d \in Clients : g[d] # NoCall => g[d] = f[d]
    BY <1>1, <1>2, <1>3
  <1>5. \A d \in Clients : g[d] # NoCall => FitsCall(g[d])
    BY <1>3, <1>4
  <1>6. ASSUME NEW S, NEW T, S \subseteq Clients, T \subseteq S
        PROVE  /\ Cardinality(S) \in Nat /\ Cardinality(T) \in Nat
               /\ Cardinality(T) <= Cardinality(S)
    BY <1>6, ClientsAssumption, FS_Subset, FS_CardinalityType
  <1>7. /\ InTxOf(f) \subseteq Clients /\ InTxOf(g) \subseteq InTxOf(f)
        /\ RunningOf(f) \subseteq Clients /\ RunningOf(g) \subseteq RunningOf(f)
    BY <1>4 DEF InTxOf, RunningOf
  <1>8. Cardinality(InTxOf(g)) + Cardinality(RunningOf(g)) <= Connections
    <2>1. /\ Cardinality(InTxOf(f)) \in Nat /\ Cardinality(InTxOf(g)) \in Nat
          /\ Cardinality(InTxOf(g)) <= Cardinality(InTxOf(f))
      BY <1>6, <1>7
    <2>2. /\ Cardinality(RunningOf(f)) \in Nat /\ Cardinality(RunningOf(g)) \in Nat
          /\ Cardinality(RunningOf(g)) <= Cardinality(RunningOf(f))
      BY <1>6, <1>7
    <2> QED
      BY <1>3, <2>1, <2>2, PoolAssumption
  <1> QED
    BY <1>2, <1>3, <1>4, <1>5, <1>8 DEF StateFits

-----------------------------------------------------------------------------
\* The steps.
LEMMA StatusRange ==
  ASSUME NEW e
  PROVE  StatusOf(e) \in 400 .. 500
  <1>1. \A k \in DOMAIN DomainStatus : DomainStatus[k] \in 400 .. 500
    BY DEF DomainStatus
  <1>2. \A k \in DOMAIN HttpStatus : HttpStatus[k] \in 400 .. 500
    BY DEF HttpStatus
  <1>3. PrismaStatus(e) \in 400 .. 500
    BY DEF PrismaStatus
  <1> QED
    BY <1>1, <1>2, <1>3 DEF StatusOf

LEMMA ServersOwn ==
  ASSUME NEW e \in {"Error", "P2024", "P2028"}
  PROVE  StatusOf(e) = 500
  <1>1. e \notin DOMAIN DomainStatus /\ e \notin DOMAIN HttpStatus /\ PrismaStatus(e) = 500
    BY DEF DomainStatus, HttpStatus, PrismaStatus
  <1> QED
    BY <1>1 DEF StatusOf

LEMMA AtWork ==
  ASSUME StateFits(call, owners), NEW c \in Clients, NEW q, q = call[c]
  PROVE  /\ Busy(c) => q \in Call /\ FitsCall(q)
         /\ Working(c) => Busy(c) /\ q.status = 0
         /\ Busy(c) => (c \in InTxOf(call) <=> q.inTx) /\ (c \in RunningOf(call) <=> q.running)
  BY DEF StateFits, Busy, Working, InTxOf, RunningOf

\* What the next statement is, and what it leaves.
LEMMA NextStatement ==
  ASSUME NEW q \in Call, FitsCall(q), q.rest # <<>>
  PROVE  /\ Head(q.rest) \in Statement /\ Tail(q.rest) \in Seq(Statement)
         /\ Head(q.rest).on = "tx" => q.inTx
         /\ q.held # {} => q.inTx
  <1>1. /\ Frames(q.rest, q.inTx, FALSE) /\ q.inTx \in BOOLEAN
        /\ q.held # {} => q.inTx
    BY CallFields DEF FitsCall, Fits, FitsPlan
  <1>2. FALSE \in BOOLEAN
    OBVIOUS
  <1>3. Head(q.rest) \in Statement
    BY <1>1, <1>2, FramesTail, Zenon
  <1>4. Head(q.rest).on = "tx" => q.inTx
    BY <1>1, <1>2, FramesTail, Zenon
  <1>5. Tail(q.rest) \in Seq(Statement)
    BY <1>1, HeadTailProperties DEF Frames
  <1> QED
    BY <1>1, <1>3, <1>4, <1>5

LEMMA Behind ==
  ASSUME NEW q \in Call, FitsCall(q), q.status = 0, q.rest # <<>>,
         NEW r \in Call, Same(r, q), r.rest = Tail(q.rest), ~r.running, r.status = 0,
         r.inTx = After(Head(q.rest), q.inTx), r.held # {} => r.inTx,
         r.wrote = (q.wrote \/ Head(q.rest).writes)
  PROVE  FitsCall(r)
  <1>1. /\ q.running \in BOOLEAN /\ q.inTx \in BOOLEAN /\ q.wrote \in BOOLEAN
        /\ r.running \in BOOLEAN /\ r.inTx \in BOOLEAN /\ r.wrote \in BOOLEAN
    BY CallFields
  <1>2. Fits(q.name, q.rest, q.running, q.inTx, q.held, q.wrote, 0)
    BY DEF FitsCall
  <1>3. PICK name, rest, held, locks :
          /\ name = q.name /\ rest = q.rest /\ held = q.held /\ locks = r.held
    OBVIOUS
  <1>4. PICK running \in BOOLEAN, inTx \in BOOLEAN, wrote \in BOOLEAN :
          running = q.running /\ inTx = q.inTx /\ wrote = q.wrote
    BY <1>1
  <1>5. PICK no \in BOOLEAN, on \in BOOLEAN, w \in BOOLEAN :
          no = r.running /\ on = r.inTx /\ w = r.wrote
    BY <1>1
  <1>6. Fits(name, rest, running, inTx, held, wrote, 0)
    BY <1>2, <1>3, <1>4, Zenon
  <1>7. /\ rest # <<>> /\ ~no /\ on = After(Head(rest), inTx) /\ (locks # {} => on)
         /\ w = (wrote \/ Head(rest).writes)
    BY <1>3, <1>4, <1>5, Zenon
  <1>a. PICK t : t = Tail(rest)
    OBVIOUS
  <1>b. PICK m \in Nat : m = Len(rest)
    BY <1>6, LenProperties DEF Fits, FitsPlan, Frames
  <1>9. Frames(rest, inTx, FALSE)
    BY <1>6 DEF Fits, FitsPlan
  <1>10. /\ Head(rest) \in Statement /\ m >= 1 /\ Head(rest) = rest[1]
        /\ Frames(t, on, FALSE) /\ Len(t) = m - 1
        /\ \A i \in 1 .. m - 1 : t[i] = rest[i + 1]
    <2>0. FALSE \in BOOLEAN
      OBVIOUS
    <2>1. Frames(Tail(rest), After(Head(rest), inTx), FALSE)
      BY <1>9, <1>7, <2>0, FramesTail, Zenon
    <2>2. Frames(t, on, FALSE)
      BY <1>7, <1>a, <2>1, Zenon
    <2>3. rest \in Seq(Statement)
      BY <1>9 DEF Frames
    <2>4. Head(rest) \in Statement /\ Len(rest) >= 1 /\ Head(rest) = rest[1]
      BY <1>7, <2>3, HeadTailProperties
    <2>5. /\ Len(t) = Len(rest) - 1
          /\ \A i \in 1 .. Len(rest) - 1 : t[i] = rest[i + 1]
      BY <1>7, <1>a, <2>3, HeadTailProperties
    <2> QED
      BY <1>b, <2>2, <2>4, <2>5
  <1>11. t \in Seq(Statement) /\ DOMAIN t = 1 .. Len(t)
    BY <1>10 DEF Frames
  <1>12. on => \E i \in DOMAIN t : t[i].on = "commit"
    BY <1>10, <1>11 DEF Frames, Within
  <1>13. ASSUME name \notin MayBeHalfDone PROVE WritesLast(t) /\ (w => t = <<>>)
    <2>1. /\ \A i \in 1 .. m : rest[i].writes => i = m
          /\ ~wrote
      BY <1>13, <1>6, <1>7, <1>b DEF Fits, FitsAnswer, WritesLast
    <2>2. WritesLast(t)
      BY <1>10, <2>1 DEF WritesLast
    <2>3. w => m = 1
      BY <1>10, <1>7, <2>1
    <2> QED
      BY <1>10, <1>11, <2>2, <2>3, EmptySeq
  <1>14. ASSUME name \in MayBeHalfDone \ {<<"rooms", "removeImage">>}
        PROVE  NoErrorAfterWrite(t) /\ (w => \A i \in 1 .. Len(t) : t[i].throws = {})
    <2>1. /\ \A i, j \in 1 .. m : i < j /\ rest[i].writes => rest[j].throws = {}
          /\ wrote => \A i \in 1 .. m : rest[i].throws = {}
      BY <1>14, <1>6, <1>b DEF Fits, FitsAnswer, NoErrorAfterWrite
    <2>2. NoErrorAfterWrite(t)
      <3>1. ASSUME NEW i \in 1 .. Len(t), NEW j \in 1 .. Len(t), i < j, t[i].writes
            PROVE  t[j].throws = {}
        <4>1. i + 1 \in 1 .. m /\ j + 1 \in 1 .. m /\ i + 1 < j + 1 /\ rest[i + 1].writes
          BY <1>10, <3>1
        <4> QED
          BY <1>10, <2>1, <4>1
      <3> QED
        BY <3>1 DEF NoErrorAfterWrite
    <2>3. ASSUME wrote PROVE \A i \in 1 .. Len(t) : t[i].throws = {}
      BY <1>10, <2>1, <2>3
    <2>4. ASSUME Head(rest).writes, NEW i \in 1 .. Len(t) PROVE t[i].throws = {}
      <3>1. 1 \in 1 .. m /\ i + 1 \in 1 .. m /\ 1 < i + 1 /\ rest[1].writes
        BY <1>10, <2>4
      <3> QED
        BY <1>10, <2>1, <3>1
    <2> QED
      BY <1>7, <2>2, <2>3, <2>4
  <1>15. Fits(name, t, no, on, locks, w, 0)
    <2>1. FitsPlan(t, no, on, locks, 0)
      BY <1>10, <1>12, <1>7 DEF FitsPlan
    <2>2. FitsAnswer(name, t, w, 0)
      BY <1>13, <1>14 DEF FitsAnswer
    <2> QED
      BY <2>1, <2>2 DEF Fits
  <1> QED
    BY <1>a, <1>15, <1>3, <1>5, Zenon DEF FitsCall, Same

\* A statement is run, and the request goes on behind it.
LEMMA PassedStep ==
  ASSUME NEW q \in Call, FitsCall(q), q.status = 0, q.rest # <<>>,
         NEW p, p = [q EXCEPT !.rest = Tail(@), !.running = FALSE,
                              !.wrote = @ \/ Head(q.rest).writes]
  PROVE  Becomes(q, p, Tail(q.rest), FALSE, q.inTx, q.held,
                 (q.wrote \/ Head(q.rest).writes), 0)
  <1>1. PICK rest \in Seq(Statement), no \in BOOLEAN, w \in BOOLEAN :
          rest = Tail(q.rest) /\ no = FALSE /\ w = (q.wrote \/ Head(q.rest).writes)
    BY NextStatement
  <1>2. p = [q EXCEPT !.rest = rest, !.running = no, !.wrote = w]
    BY <1>1, Zenon
  <1>3. Becomes(q, p, rest, no, q.inTx, q.held, w, q.status)
    BY <1>2, PassedFields, ZenonT(60)
  <1> QED
    BY <1>1, <1>3, Zenon

LEMMA CheckStep ==
  ASSUME StateFits(call, owners), NEW c \in Clients, RunCheck(c) \/ RunOwn(c)
  PROVE  StateFits(call', owners')
  <1>1. PICK q : q = call[c]
    OBVIOUS
  <1>2. /\ Working(c) /\ q.rest # <<>> /\ owners' = owners
        /\ Head(q.rest).on \in {"nothing", "own"}
    BY <1>1 DEF RunCheck, RunOwn, Runs
  <1>3. PICK p : p = Passed(c)
    OBVIOUS
  <1>4. call' = [call EXCEPT ![c] = p]
    BY <1>3 DEF RunCheck, RunOwn
  <1>5. q \in Call /\ FitsCall(q) /\ q.status = 0
    BY <1>1, <1>2, AtWork
  <1>7. /\ p \in Call /\ Same(p, q) /\ p.rest = Tail(q.rest) /\ ~p.running /\ p.inTx = q.inTx
        /\ p.held = q.held /\ p.wrote = (q.wrote \/ Head(q.rest).writes) /\ p.status = 0
    <2>1. p = [q EXCEPT !.rest = Tail(@), !.running = FALSE,
                        !.wrote = @ \/ Head(q.rest).writes]
      BY <1>1, <1>3, Zenon DEF Passed
    <2>2. Becomes(q, p, Tail(q.rest), FALSE, q.inTx, q.held,
                  (q.wrote \/ Head(q.rest).writes), 0)
      BY <1>1, <1>2, <1>3, <1>5, <2>1, PassedStep, Zenon
    <2> QED
      BY <2>2, Zenon DEF Becomes
  <1>8. After(Head(q.rest), q.inTx) = q.inTx /\ (q.held # {} => q.inTx)
    BY <1>2, <1>5, NextStatement DEF After
  <1>9. FitsCall(p)
    BY <1>2, <1>5, <1>7, <1>8, Behind
  <1>10. (p.inTx => c \in InTxOf(call)) /\ ~p.running
    BY <1>1, <1>2, <1>7, AtWork
  <1> QED
    BY <1>2, <1>4, <1>7, <1>9, <1>10, OneChanges DEF StateFits

LEMMA BeginStep ==
  ASSUME StateFits(call, owners), NEW c \in Clients, RunBegin(c)
  PROVE  StateFits(call', owners')
  <1>1. PICK q : q = call[c]
    OBVIOUS
  <1>2. /\ Working(c) /\ q.rest # <<>> /\ owners' = owners /\ Spare
        /\ Head(q.rest).on = "begin"
    BY <1>1 DEF RunBegin, Runs
  <1>3. PICK p : p = Passed(c)
    OBVIOUS
  <1>4. PICK yes \in BOOLEAN : yes = TRUE
    OBVIOUS
  <1>5. PICK r : r = [p EXCEPT !.inTx = yes]
    OBVIOUS
  <1>6. call' = [call EXCEPT ![c] = r]
    BY <1>3, <1>4, <1>5, Zenon DEF RunBegin
  <1>7. q \in Call /\ FitsCall(q) /\ q.status = 0
    BY <1>1, <1>2, AtWork
  <1>9. /\ p \in Call /\ Same(p, q) /\ p.rest = Tail(q.rest) /\ ~p.running
        /\ p.wrote = (q.wrote \/ Head(q.rest).writes) /\ p.status = 0
    <2>1. p = [q EXCEPT !.rest = Tail(@), !.running = FALSE,
                        !.wrote = @ \/ Head(q.rest).writes]
      BY <1>1, <1>3, Zenon DEF Passed
    <2>2. Becomes(q, p, Tail(q.rest), FALSE, q.inTx, q.held,
                  (q.wrote \/ Head(q.rest).writes), 0)
      BY <1>1, <1>2, <1>3, <1>7, <2>1, PassedStep, Zenon
    <2> QED
      BY <2>2, Zenon DEF Becomes
  <1>10. /\ r \in Call /\ Same(r, p) /\ r.rest = p.rest /\ r.running = p.running
         /\ r.inTx = yes /\ r.wrote = p.wrote /\ r.status = p.status
    BY <1>5, <1>9, BegunFields DEF Becomes
  <1>11. r.inTx = After(Head(q.rest), q.inTx)
    BY <1>2, <1>4, <1>10, Zenon DEF After
  <1>12. /\ Same(r, q) /\ r.rest = Tail(q.rest) /\ ~r.running /\ r.status = 0 /\ r.inTx
         /\ r.wrote = (q.wrote \/ Head(q.rest).writes)
    BY <1>4, <1>9, <1>10, Zenon DEF Same
  <1>13. FitsCall(r)
    BY <1>2, <1>7, <1>10, <1>11, <1>12, Behind
  <1> QED
    BY <1>2, <1>6, <1>10, <1>12, <1>13, OneChanges DEF StateFits

LEMMA InTxStep ==
  ASSUME StateFits(call, owners), NEW c \in Clients, RunInTx(c)
  PROVE  StateFits(call', owners')
  <1>1. PICK q : q = call[c]
    OBVIOUS
  <1>2. Working(c) /\ q.rest # <<>> /\ owners' = owners /\ Head(q.rest).on = "tx"
    BY <1>1 DEF RunInTx, Runs
  <1>3. PICK p : p = Passed(c)
    OBVIOUS
  <1>4. q \in Call /\ FitsCall(q) /\ q.status = 0
    BY <1>1, <1>2, AtWork
  <1>5. /\ p \in Call /\ Same(p, q) /\ p.rest = Tail(q.rest) /\ ~p.running /\ p.inTx = q.inTx
        /\ p.held = q.held /\ p.wrote = (q.wrote \/ Head(q.rest).writes) /\ p.status = 0
    <2>1. p = [q EXCEPT !.rest = Tail(@), !.running = FALSE,
                        !.wrote = @ \/ Head(q.rest).writes]
      BY <1>1, <1>3, Zenon DEF Passed
    <2>2. Becomes(q, p, Tail(q.rest), FALSE, q.inTx, q.held,
                  (q.wrote \/ Head(q.rest).writes), 0)
      BY <1>1, <1>2, <1>3, <1>4, <2>1, PassedStep, Zenon
    <2> QED
      BY <2>2, Zenon DEF Becomes
  <1>6. PICK held \in SUBSET (Row \X Mode) : held = p.held \cup Head(q.rest).locks
    <2>1. p.held \in SUBSET (Row \X Mode)
      BY <1>5, CallFields
    <2>2. Head(q.rest).locks \in SUBSET (Row \X Mode)
      BY <1>2, <1>4, NextStatement DEF Statement
    <2> QED
      BY <2>1, <2>2
  <1>7. PICK r : r = [p EXCEPT !.held = held]
    OBVIOUS
  <1>8. call' = [call EXCEPT ![c] = r]
    BY <1>1, <1>3, <1>6, <1>7, Zenon DEF RunInTx
  <1>10. /\ r \in Call /\ Same(r, p) /\ r.rest = p.rest /\ r.running = p.running
         /\ r.inTx = p.inTx /\ r.wrote = p.wrote /\ r.status = p.status
    <2>1. Becomes(p, r, p.rest, p.running, p.inTx, held, p.wrote, p.status)
      BY <1>5, <1>7, LockedFields, Zenon
    <2> QED
      BY <2>1 DEF Becomes
  <1>11. q.inTx
    BY <1>2, <1>4, NextStatement
  <1>12. After(Head(q.rest), q.inTx) = q.inTx
    BY <1>2 DEF After
  <1>13. /\ Same(r, q) /\ r.rest = Tail(q.rest) /\ ~r.running /\ r.status = 0 /\ r.inTx = q.inTx
         /\ r.wrote = (q.wrote \/ Head(q.rest).writes)
    BY <1>5, <1>10, Zenon DEF Same
  <1>14. FitsCall(r)
    BY <1>2, <1>4, <1>10, <1>11, <1>12, <1>13, Behind
  <1>15. c \in InTxOf(call)
    BY <1>1, <1>2, <1>11, AtWork
  <1> QED
    BY <1>2, <1>8, <1>10, <1>13, <1>14, <1>15, OneChanges DEF StateFits

LEMMA CommitStep ==
  ASSUME StateFits(call, owners), NEW c \in Clients, RunCommit(c)
  PROVE  StateFits(call', owners')
  <1>1. PICK q : q = call[c]
    OBVIOUS
  <1>2. Working(c) /\ q.rest # <<>> /\ Head(q.rest).on = "commit"
    BY <1>1 DEF RunCommit, Runs
  <1>3. PICK p : p = Passed(c)
    OBVIOUS
  <1>4. q \in Call /\ FitsCall(q) /\ q.status = 0
    BY <1>1, <1>2, AtWork
  <1>5. /\ p \in Call /\ Same(p, q) /\ p.rest = Tail(q.rest) /\ ~p.running
        /\ p.wrote = (q.wrote \/ Head(q.rest).writes) /\ p.status = 0
    <2>1. p = [q EXCEPT !.rest = Tail(@), !.running = FALSE,
                        !.wrote = @ \/ Head(q.rest).writes]
      BY <1>1, <1>3, Zenon DEF Passed
    <2>2. Becomes(q, p, Tail(q.rest), FALSE, q.inTx, q.held,
                  (q.wrote \/ Head(q.rest).writes), 0)
      BY <1>1, <1>2, <1>3, <1>4, <2>1, PassedStep, Zenon
    <2> QED
      BY <2>2, Zenon DEF Becomes
  <1>6. PICK held \in SUBSET (Row \X Mode), no \in BOOLEAN : held = {} /\ no = FALSE
    OBVIOUS
  <1>7. PICK r : r = [p EXCEPT !.inTx = no, !.held = held]
    OBVIOUS
  <1>8. call' = [call EXCEPT ![c] = r]
    BY <1>3, <1>6, <1>7, Zenon DEF RunCommit
  <1>10. /\ r \in Call /\ Same(r, p) /\ r.rest = p.rest /\ r.running = p.running
         /\ r.inTx = no /\ r.held = held /\ r.wrote = p.wrote /\ r.status = p.status
    <2>1. Becomes(p, r, p.rest, p.running, no, held, p.wrote, p.status)
      BY <1>5, <1>7, CommittedFields, Zenon
    <2> QED
      BY <2>1 DEF Becomes
  <1>11. r.inTx = After(Head(q.rest), q.inTx)
    BY <1>2, <1>6, <1>10, Zenon DEF After
  <1>12. /\ Same(r, q) /\ r.rest = Tail(q.rest) /\ ~r.running /\ r.status = 0
         /\ ~r.inTx /\ r.held = {} /\ r.wrote = (q.wrote \/ Head(q.rest).writes)
    BY <1>5, <1>6, <1>10, Zenon DEF Same
  <1>13. FitsCall(r)
    BY <1>2, <1>4, <1>10, <1>11, <1>12, Behind
  <1>14. owners' \subseteq Accounts \cup {Nobody}
    <2>1. q.user \in Accounts \cup {Nobody}
      BY <1>4, CallFields
    <2> QED
      BY <1>1, <2>1 DEF RunCommit, StateFits
  <1> QED
    BY <1>8, <1>10, <1>12, <1>13, <1>14, OneChanges

LEMMA ArriveStep ==
  ASSUME StateFits(call, owners), NEW c \in Clients, NEW name \in RouteNames,
         NEW user \in Accounts \cup {Nobody}, NEW plan \in RouteOf(name).plans,
         NEW room \in Rooms, Arrive(c, name, user, plan, room)
  PROVE  StateFits(call', owners')
  <1>1. PICK no \in BOOLEAN : no = FALSE
    OBVIOUS
  <1>2. PICK u : u = Attached(RouteOf(name), user)
    OBVIOUS
  <1>3. Admits(RouteOf(name), user) /\ owners' = owners
    BY DEF Arrive, MaySend
  <1>4. /\ Fits(name, plan, no, no, {}, no, 0)
        /\ plan \in Seq(Statement) /\ u \in Accounts \cup {Nobody}
    BY <1>1, <1>2, <1>3, ArriveFits
  <1>5. PICK r : r = [name |-> name, user |-> u, room |-> room, rest |-> plan, running |-> no,
                      inTx |-> no, held |-> {}, wrote |-> no, status |-> 0]
    OBVIOUS
  <1>6. call' = [call EXCEPT ![c] = r]
    BY <1>1, <1>2, <1>5, Zenon DEF Arrive
  <1>7. /\ r \in Call /\ r.name = name /\ r.user = u /\ r.rest = plan
        /\ r.running = no /\ r.inTx = no /\ r.held = {} /\ r.wrote = no /\ r.status = 0
    BY <1>4, <1>5, NewFields
  <1>8. FitsCall(r)
    BY <1>4, <1>7, Zenon DEF FitsCall
  <1>9. ~r.inTx /\ ~r.running
    BY <1>1, <1>7, Zenon
  <1> QED
    BY <1>3, <1>6, <1>7, <1>8, <1>9, OneChanges DEF StateFits

LEMMA ConnectStep ==
  ASSUME StateFits(call, owners), NEW c \in Clients, Connect(c)
  PROVE  StateFits(call', owners')
  <1>1. PICK q : q = call[c]
    OBVIOUS
  <1>2. /\ Working(c) /\ q.rest # <<>> /\ owners' = owners /\ Spare
        /\ Head(q.rest).on = "own"
    BY <1>1 DEF Connect, Runs
  <1>3. PICK yes \in BOOLEAN : yes = TRUE
    OBVIOUS
  <1>4. PICK r : r = [q EXCEPT !.running = yes]
    OBVIOUS
  <1>5. q \in Call /\ FitsCall(q) /\ q.status = 0
    BY <1>1, <1>2, AtWork
  <1>6. call' = [call EXCEPT ![c] = r]
    BY <1>1, <1>3, <1>4, Zenon DEF Connect
  <1>7. Becomes(q, r, q.rest, yes, q.inTx, q.held, q.wrote, q.status)
    BY <1>4, <1>5, ConnectedFields, Zenon
  <1>8. FitsPlan(q.rest, yes, q.inTx, q.held, 0)
    BY <1>2, <1>5 DEF FitsCall, Fits, FitsPlan
  <1>9. Fits(q.name, q.rest, yes, q.inTx, q.held, q.wrote, 0)
    BY <1>5, <1>8, Zenon DEF FitsCall, Fits
  <1>10. FitsCall(r) /\ r \in Call /\ r.inTx = q.inTx
    BY <1>5, <1>7, <1>9, Zenon DEF FitsCall, Becomes, Same
  <1>11. r.inTx => c \in InTxOf(call)
    BY <1>1, <1>2, <1>10, AtWork
  <1> QED
    BY <1>2, <1>6, <1>10, <1>11, OneChanges DEF StateFits

\* An error answers only what has written nothing, or is the server's own.
MayEnd(plan, e) ==
  (\A i \in 1 .. Len(plan) : plan[i].throws = {}) => StatusOf(e) = 500

LEMMA AnswerStep ==
  ASSUME StateFits(call, owners), NEW c \in Clients, Working(c), call[c].rest # <<>>,
         NEW e, AnswerError(c, e), MayEnd(call[c].rest, e)
  PROVE  StateFits(call', owners')
  <1>1. PICK q : q = call[c]
    OBVIOUS
  <1>2. q \in Call /\ FitsCall(q) /\ q.status = 0 /\ q.rest # <<>> /\ owners' = owners
    BY <1>1, AtWork DEF AnswerError
  <1>3. PICK status : status = StatusOf(e)
    OBVIOUS
  <1>4. StatusOf(e) \in 400 .. 500
    BY StatusRange
  <1>5. status \in 400 .. 500
    BY <1>3, <1>4
  <1>6. PICK no \in BOOLEAN : no = FALSE
    OBVIOUS
  <1>a. {} \in SUBSET (Row \X Mode) /\ <<>> \in Seq(Statement)
    OBVIOUS
  <1>7. PICK none \in SUBSET (Row \X Mode) : none = {}
    BY <1>a, Zenon
  <1>8. PICK rest \in Seq(Statement) : rest = <<>>
    BY <1>a, Zenon
  <1>9. PICK r : r = [q EXCEPT !.status = status, !.rest = rest, !.running = no,
                              !.inTx = no, !.held = none]
    OBVIOUS
  <1>10. call' = [call EXCEPT ![c] = r]
    BY <1>1, <1>3, <1>6, <1>7, <1>8, <1>9, Zenon DEF AnswerError
  <1>11. Becomes(q, r, rest, no, no, none, q.wrote, status)
    <2>1. /\ q \in Call /\ status \in 400 .. 500 /\ rest \in Seq(Statement)
          /\ no \in BOOLEAN /\ none \in SUBSET (Row \X Mode)
      BY <1>2, <1>5, <1>6, <1>7, <1>8, Zenon
    <2> QED
      BY <2>1, <1>9, AnswerFields, ZenonT(60)
  <1>12. Fits(q.name, rest, no, no, none, q.wrote, status)
    <2>1. Len(rest) = 0
      BY <1>8
    <2>2. FitsPlan(rest, no, no, none, status)
      BY <1>6, <1>7, <1>8, <2>1 DEF FitsPlan, Frames
    <2>3. FitsAnswer(q.name, rest, q.wrote, status)
      <3>1. WritesLast(rest) /\ NoErrorAfterWrite(rest)
        BY <2>1 DEF WritesLast, NoErrorAfterWrite
      <3>2. FitsAnswer(q.name, q.rest, q.wrote, 0)
        BY <1>2 DEF FitsCall, Fits
      <3>3. q.name \notin MayBeHalfDone => ~q.wrote
        BY <1>2, <3>2 DEF FitsAnswer
      <3>4. q.name \in MayBeHalfDone \ {<<"rooms", "removeImage">>} => (q.wrote => status = 500)
        BY <1>1, <1>3, <3>2 DEF FitsAnswer, MayEnd
      <3> QED
        BY <1>5, <1>8, <2>1, <3>1, <3>3, <3>4 DEF FitsAnswer
    <2> QED
      BY <2>2, <2>3, Zenon DEF Fits
  <1>13. r \in Call /\ FitsCall(r) /\ r.inTx = no /\ r.running = no
    BY <1>11, <1>12, Zenon DEF FitsCall, Becomes, Same
  <1>14. owners' \subseteq Accounts \cup {Nobody}
    BY <1>2 DEF StateFits
  <1>15. (r.inTx => c \in InTxOf(call)) /\ (r.running => c \in RunningOf(call))
    BY <1>6, <1>13
  <1> QED
    BY <1>10, <1>13, <1>14, <1>15, OneChanges, ZenonT(60)

LEMMA FinishStep ==
  ASSUME StateFits(call, owners), NEW c \in Clients, Finish(c)
  PROVE  StateFits(call', owners')
  <1>1. PICK q : q = call[c]
    OBVIOUS
  <1>2. Working(c) /\ q.rest = <<>> /\ owners' = owners
    BY <1>1 DEF Finish
  <1>3. PICK r : r = [q EXCEPT !.status = 200]
    OBVIOUS
  <1>4. q \in Call /\ FitsCall(q) /\ q.status = 0
    BY <1>1, <1>2, AtWork
  <1>5. call' = [call EXCEPT ![c] = r]
    BY <1>1, <1>3, Zenon DEF Finish
  <1>6. Becomes(q, r, q.rest, q.running, q.inTx, q.held, q.wrote, 200)
    BY <1>3, <1>4, FinishedFields, Zenon
  <1>7. FitsPlan(q.rest, q.running, q.inTx, q.held, 200)
    BY <1>2, <1>4 DEF FitsCall, Fits, FitsPlan
  <1>8. FitsAnswer(q.name, q.rest, q.wrote, 200)
    BY <1>2, <1>4 DEF FitsCall, Fits, FitsAnswer
  <1>10. FitsCall(r) /\ r \in Call /\ r.inTx = q.inTx /\ r.running = q.running
    BY <1>6, <1>7, <1>8, Zenon DEF FitsCall, Fits, Becomes, Same
  <1>11. (r.inTx => c \in InTxOf(call)) /\ (r.running => c \in RunningOf(call))
    BY <1>1, <1>2, <1>10, AtWork
  <1> QED
    BY <1>2, <1>5, <1>10, <1>11, OneChanges DEF StateFits

LEMMA EndStep ==
  ASSUME StateFits(call, owners), (\E c \in Clients : Reply(c)) \/ Crash
  PROVE  StateFits(call', owners')
  <1>1. CASE Crash
    <2>1. call' = [d \in Clients |-> IF d \in Clients THEN NoCall ELSE call[d]]
      BY <1>1 DEF Crash
    <2> QED
      BY <1>1, <2>1, SomeEnd DEF Crash
  <1>2. ASSUME NEW c \in Clients, Reply(c) PROVE StateFits(call', owners')
    <2>1. PICK D \in SUBSET Clients : D = {c}
      OBVIOUS
    <2>2. call' = [d \in Clients |-> IF d \in D THEN NoCall ELSE call[d]] /\ owners' = owners
      BY <1>2, <2>1 DEF Reply, StateFits
    <2> QED
      BY <2>2, SomeEnd
  <1> QED
    BY <1>1, <1>2

LEMMA RefuseStep ==
  ASSUME StateFits(call, owners), NEW c \in Clients, Refuse(c)
  PROVE  StateFits(call', owners')
  <1>1. PICK q : q = call[c]
    OBVIOUS
  <1>2. Working(c) /\ q.rest # <<>> /\ \E e \in Head(q.rest).throws : AnswerError(c, e)
    BY <1>1 DEF Refuse
  <1>3. PICK e \in Head(q.rest).throws : AnswerError(c, e)
    BY <1>2
  <1>4. q \in Call /\ q.rest \in Seq(Statement)
    BY <1>1, <1>2, AtWork, CallFields
  <1>5. 1 \in 1 .. Len(q.rest) /\ Head(q.rest) = q.rest[1]
    BY <1>2, <1>4, HeadTailProperties, EmptySeq
  <1>6. ~ \A i \in 1 .. Len(q.rest) : q.rest[i].throws = {}
    BY <1>3, <1>5
  <1> QED
    BY <1>1, <1>2, <1>3, <1>6, AnswerStep DEF MayEnd

LEMMA TimeOutStep ==
  ASSUME StateFits(call, owners), NEW c \in Clients, TimeOut(c)
  PROVE  StateFits(call', owners')
  <1>1. Working(c) /\ call[c].rest # <<>>
    BY DEF TimeOut, Waits, Runs
  <1>2. PICK e \in {"P2024", "P2028"} : AnswerError(c, e)
    BY DEF TimeOut
  <1>3. StatusOf(e) = 500
    BY ServersOwn
  <1> QED
    BY <1>1, <1>2, <1>3, AnswerStep DEF MayEnd

LEMMA FaultStep ==
  ASSUME StateFits(call, owners), NEW c \in Clients, Fault(c)
  PROVE  StateFits(call', owners')
  <1>1. PICK e \in {"Error"} : AnswerError(c, e)
    BY DEF Fault
  <1>2. StatusOf(e) = 500
    BY ServersOwn
  <1> QED
    BY <1>1, <1>2, AnswerStep DEF Fault, MayEnd

-----------------------------------------------------------------------------
LEMMA NextStep ==
  ASSUME StateFits(call, owners), [Next]_vars
  PROVE  StateFits(call', owners')
  <1>1. ASSUME NEW c \in Clients, Request(c) PROVE StateFits(call', owners')
    <2>1. PICK q \in Requested, user \in Accounts \cup {Nobody}, room \in Rooms :
            Arrive(c, q[1], user, q[2], room)
      BY <1>1 DEF Request
    <2>2. PICK name, plan : name = q[1] /\ plan = q[2]
      OBVIOUS
    <2>3. name \in RouteNames /\ plan \in RouteOf(name).plans
      BY <2>2, RequestedAssumption
    <2> QED
      BY <2>1, <2>2, <2>3, ArriveStep, Zenon
  <1>2. ASSUME NEW c \in Clients, Proceed(c) PROVE StateFits(call', owners')
    <2>1. CASE RunCheck(c) \/ RunOwn(c)
      BY <2>1, CheckStep
    <2>2. CASE Connect(c)
      BY <2>2, ConnectStep
    <2>3. CASE RunBegin(c)
      BY <2>3, BeginStep
    <2>4. CASE RunInTx(c)
      BY <2>4, InTxStep
    <2>5. CASE RunCommit(c)
      BY <2>5, CommitStep
    <2>6. CASE Refuse(c)
      BY <2>6, RefuseStep
    <2>7. CASE Finish(c)
      BY <2>7, FinishStep
    <2>8. CASE Reply(c)
      BY <2>8, EndStep
    <2> QED
      BY <1>2, <2>1, <2>2, <2>3, <2>4, <2>5, <2>6, <2>7, <2>8 DEF Proceed
  <1>3. ASSUME NEW c \in Clients, TimeOut(c) PROVE StateFits(call', owners')
    BY <1>3, TimeOutStep
  <1>4. ASSUME NEW c \in Clients, Fault(c) PROVE StateFits(call', owners')
    BY <1>4, FaultStep
  <1>5. CASE Crash
    BY <1>5, EndStep
  <1>6. CASE UNCHANGED vars
    BY <1>6 DEF vars
  <1> QED
    BY <1>1, <1>2, <1>3, <1>4, <1>5, <1>6 DEF Next

LEMMA FirstState ==
  ASSUME Init
  PROVE  StateFits(call, owners)
  <1>1. /\ call \in [Clients -> Call \cup {NoCall}]
        /\ \A d \in Clients : call[d] = NoCall
        /\ owners \subseteq Accounts \cup {Nobody}
    BY OwnersAssumption DEF Init
  <1>2. InTxOf(call) = {} /\ RunningOf(call) = {}
    BY <1>1 DEF InTxOf, RunningOf
  <1>3. Cardinality(InTxOf(call)) + Cardinality(RunningOf(call)) <= Connections
    BY <1>2, FS_EmptySet, PoolAssumption
  <1> QED
    BY <1>1, <1>3 DEF StateFits

\* What every request keeps to, from its arrival to its answer, whatever else
\* happens at the same time and whichever statement fails (Api's plans, run by
\* Server's steps).
THEOREM ServerInvariance == Spec => []ServerInvariant
  <1> DEFINE Inv == StateFits(call, owners)
  <1>1. Init => Inv
    BY FirstState
  <1>2. Inv /\ [Next]_vars => Inv'
    BY NextStep
  <1>3. Inv => ServerInvariant
    BY InvariantByFields
  <1> QED
    BY <1>1, <1>2, <1>3, PTL DEF Spec

\* A request has a connection as long as its plan has it, a lock only in its
\* transaction, and the pool never gives out more connections than it has.
THEOREM ServerTypes == Spec => []TypeOK
  <1>1. ServerInvariant => TypeOK
    BY DEF ServerInvariant
  <1> QED
    BY <1>1, ServerInvariance, PTL

\* AllExceptionsFilter's error answers: behind one nothing has been written, but
\* by the six routes that write in several steps, and of those a 4xx says so too.
THEOREM ErrorsTellTheTruth == Spec => []ErrorsAreClean
  <1>1. ServerInvariant => ErrorsAreClean
    BY DEF ServerInvariant
  <1> QED
    BY <1>1, ServerInvariance, PTL

LEMMA QuietWritesNot ==
  ASSUME NEW name, \A p \in RouteOf(name).plans : Quiet(p)
  PROVE  ~Writes(name)
  <1> SUFFICES ASSUME NEW p \in RouteOf(name).plans
               PROVE  \A i \in DOMAIN p : ~p[i].writes
    BY DEF Writes
  <1>1. Part(p, FALSE, FALSE, FALSE)
    BY DEF Quiet
  <1>2. p \in Seq(Statement) /\ \A i \in 1 .. Len(p) : ~p[i].writes
    BY <1>1, Zenon DEF Part, Frames
  <1> QED
    BY <1>2

LEMMA OnlyTheEntitledWrite == WritesAreEntitled
  <1> SUFFICES ASSUME NEW c \in Clients, NEW user \in Accounts \cup {Nobody},
                      NEW name \in RouteNames \ {<<"bookings", "create">>},
                      Writes(name), MaySend(c, name, user)
               PROVE  \/ name \in {<<"auth", "register">>, <<"auth", "login">>,
                                   <<"auth", "refresh">>}
                      \/ /\ user \in Accounts
                         /\ \/ RoleOf[user] = "ADMIN"
                            \/ name \in {<<"auth", "logout">>, <<"bookings", "cancel">>}
    BY DEF WritesAreEntitled
  <1>1. PICK route : route = RouteOf(name)
    OBVIOUS
  <1>2. Entitled(name, route) /\ Admits(route, user)
    BY <1>1, EveryRoute DEF Good, MaySend
  <1>3. ~ \A p \in route.plans : Quiet(p)
    BY <1>1, QuietWritesNot
  <1>4. ASSUME ~route.public PROVE user \in Accounts /\ Attached(route, user) = user
    BY <1>2, <1>4, Zenon DEF Admits, Attached
  <1>5. ASSUME ~route.public, route.roles = {"ADMIN"}
        PROVE  user \in Accounts /\ RoleOf[user] = "ADMIN"
    <2>1. user \in Accounts /\ Attached(route, user) = user
      BY <1>4, <1>5
    <2>2. RoleOf[Attached(route, user)] \in {"ADMIN"}
      BY <1>2, <1>5 DEF Admits
    <2> QED
      BY <2>1, <2>2
  <1> QED
    BY <1>2, <1>3, <1>4, <1>5, Zenon DEF Entitled

\* Every controller's route that writes has the guard it needs (JwtAuthGuard,
\* RolesGuard and the decorators Public and Roles): what a visitor or a customer
\* can send never runs a statement that writes, but for the five routes named and
\* bookings.create, which the property leaves out.
THEOREM EntitledWrites == Spec => []WritesAreEntitled
  <1>1. WritesAreEntitled
    BY OnlyTheEntitledWrite
  <1> QED
    BY <1>1, PTL
=============================================================================

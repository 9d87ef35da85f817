------------------------- MODULE ContextSwitchProofs -------------------------
(***************************************************************************)
(* Theorems about ContextSwitch: programs keep their registers, for any    *)
(* number of programs, whatever words they compute with and however long.  *)
(* Most of it is counting: what lies where on the stack, in the frame and  *)
(* in the context.                                                         *)
(***************************************************************************)
EXTENDS ContextSwitch, SequenceTheorems, TLAPS

-----------------------------------------------------------------------------
(* Words of stacks and structs *)

\* A struct or a stack of n words.
OfLength(s, n) == n \in Nat /\ s = [k \in 1 .. n |-> s[k]]

LEMMA Listed ==
  ASSUME NEW n, NEW s, OfLength(s, n)
  PROVE  s \in Seq({s[k] : k \in 1 .. n}) /\ Len(s) = n /\ DOMAIN s = 1 .. n
<1> DEFINE S == {s[k] : k \in 1 .. n}
<1>1. n \in Nat /\ s \in [1 .. n -> S] /\ DOMAIN s = 1 .. n
  BY DEF OfLength
<1>2. s \in Seq(S) /\ Len(s) = n
  <2> HIDE DEF S
  <2> QED
    BY <1>1
<1> QED
  BY <1>1, <1>2

\* One stack on another; the same from the bottom up; what is left when words
\* are taken off the top.
Joins(s, a, m, b, n) ==
  /\ OfLength(s, m + n)
  /\ \A k \in 1 .. m : s[k] = a[k]
  /\ \A k \in 1 .. n : s[m + k] = b[k]

TurnsRound(s, a, n) == OfLength(s, n) /\ \A k \in 1 .. n : s[k] = a[n - k + 1]

LeavesFrom(s, d, a, n) == OfLength(s, n) /\ \A k \in 1 .. n : s[k] = a[d + k]

LEMMA Joined ==
  ASSUME NEW a, NEW m, OfLength(a, m), NEW b, NEW n, OfLength(b, n)
  PROVE  Joins(a \o b, a, m, b, n)
<1> DEFINE S == {a[k] : k \in 1 .. m} \cup {b[k] : k \in 1 .. n}
<1>1. m \in Nat /\ n \in Nat
  BY DEF OfLength
<1>2. a \in [1 .. m -> S] /\ b \in [1 .. n -> S]
  BY DEF OfLength
<1>3. a \in Seq(S) /\ b \in Seq(S) /\ Len(a) = m /\ Len(b) = n
  <2> HIDE DEF S
  <2> QED
    BY <1>1, <1>2
<1> DEFINE s == a \o b
<1>4. /\ s \in Seq(S) /\ Len(s) = m + n
      /\ \A k \in 1 .. m + n : s[k] = IF k <= m THEN a[k] ELSE b[k - m]
  <2> HIDE DEF S
  <2> QED
    BY <1>1, <1>3, ConcatProperties
<1> HIDE DEF s, S
<1>5. s = [k \in 1 .. m + n |-> s[k]]
  BY <1>1, <1>4
<1>6. OfLength(s, m + n) /\ \A k \in 1 .. m : s[k] = a[k]
  BY <1>1, <1>4, <1>5 DEF OfLength
<1>7. ASSUME NEW k \in 1 .. n PROVE s[m + k] = b[k]
  <2>1. m + k \in 1 .. m + n /\ ~ (m + k <= m) /\ (m + k) - m = k
    BY <1>1
  <2> QED
    BY <1>4, <2>1
<1>8. Joins(s, a, m, b, n)
  BY <1>6, <1>7 DEF Joins
<1> QED
  BY <1>8 DEF s

LEMMA Reversed ==
  ASSUME NEW a, NEW n, OfLength(a, n)
  PROVE  TurnsRound(Reverse(a), a, n)
<1>1. n \in Nat /\ Len(a) = n
  BY Listed DEF OfLength
<1>2. Reverse(a) = [k \in 1 .. n |-> a[n - k + 1]]
  BY <1>1 DEF Reverse
<1> QED
  BY <1>1, <1>2 DEF OfLength, TurnsRound

LEMMA Dropped ==
  ASSUME NEW a, NEW m, OfLength(a, m), NEW d \in Nat, NEW i, i = d + 1, NEW n \in Nat, m = d + n
  PROVE  LeavesFrom(SubSeq(a, i, m), d, a, n)
<1> DEFINE S == {a[k] : k \in 1 .. m}
           s == SubSeq(a, i, m)
<1>1. m \in Nat /\ a \in Seq(S) /\ Len(a) = m
  BY Listed DEF OfLength
<1>2. \A k \in i .. m : a[k] \in S
  BY <1>1
<1> HIDE DEF S
<1>3. s \in Seq(S) /\ Len(s) = m - i + 1 /\ \A k \in 1 .. m - i + 1 : s[k] = a[i + k - 1]
  BY <1>1, <1>2, SubSeqProperties
<1>4. m - i + 1 = n /\ \A k \in 1 .. n : i + k - 1 = d + k
  BY <1>1
<1> HIDE DEF s
<1>5. \A k \in 1 .. n : s[k] = a[d + k]
  BY <1>3, <1>4
<1>6. s = [k \in 1 .. n |-> s[k]]
  BY <1>3, <1>4
<1>7. LeavesFrom(s, d, a, n)
  BY <1>5, <1>6 DEF OfLength, LeavesFrom
<1> QED
  BY <1>7 DEF s

\* A field of a struct is the word that stands where its name does.
LEMMA FieldIs ==
  ASSUME NEW struct, NEW n, OfLength(struct, n), NEW k \in 1 .. n, NEW name, struct[k] = name,
         \A j \in 1 .. n : struct[j] = name => j = k, NEW words
  PROVE  Field(struct, words, name) = words[k]
<1>1. DOMAIN struct = 1 .. n
  BY Listed
<1> QED
  BY <1>1 DEF Field

LEMMA CPURegisterFields ==
  ASSUME NEW w
  PROVE  /\ Field(CPURegister, w, "edi") = w[1]
         /\ Field(CPURegister, w, "esi") = w[2]
         /\ Field(CPURegister, w, "ebp") = w[3]
         /\ Field(CPURegister, w, "ebx") = w[5]
         /\ Field(CPURegister, w, "edx") = w[6]
         /\ Field(CPURegister, w, "ecx") = w[7]
         /\ Field(CPURegister, w, "eax") = w[8]
         /\ Field(CPURegister, w, "gs") = w[9]
         /\ Field(CPURegister, w, "fs") = w[10]
         /\ Field(CPURegister, w, "es") = w[11]
         /\ Field(CPURegister, w, "ds") = w[12]
BY DEF Field, CPURegister

\* The names, word by word.
LEMMA CPURegisterNames ==
  /\ CPURegister[1] = "edi" /\ CPURegister[2] = "esi" /\ CPURegister[3] = "ebp"
  /\ CPURegister[4] = "esp" /\ CPURegister[5] = "ebx" /\ CPURegister[6] = "edx"
  /\ CPURegister[7] = "ecx" /\ CPURegister[8] = "eax" /\ CPURegister[9] = "gs"
  /\ CPURegister[10] = "fs" /\ CPURegister[11] = "es" /\ CPURegister[12] = "ds"
BY DEF CPURegister

LEMMA CPURegisterLength == OfLength(CPURegister, 12)
BY DEF CPURegister, OfLength

LEMMA ContextNames ==
  /\ OfLength(Context, 15)
  /\ \A k \in 1 .. 12 : Context[k] = CPURegister[k]
  /\ Context[13] = "eip" /\ Context[14] = "eflags" /\ Context[15] = "cr3"
<1> DEFINE c == <<"eip", "eflags", "cr3">>
<1>1. OfLength(c, 3) /\ c[1] = "eip" /\ c[2] = "eflags" /\ c[3] = "cr3"
  BY DEF OfLength
<1>2. Context = CPURegister \o c
  BY DEF Context
<1> HIDE DEF c
<1>3. Joins(Context, CPURegister, 12, c, 3)
  BY ONLY <1>1, <1>2, CPURegisterLength, Joined
<1>4. Context[13] = c[1] /\ Context[14] = c[2] /\ Context[15] = c[3]
  BY <1>3 DEF Joins
<1>5. OfLength(Context, 15) /\ \A k \in 1 .. 12 : Context[k] = CPURegister[k]
  BY <1>3 DEF Joins
<1> QED
  BY <1>1, <1>4, <1>5

LEMMA InterruptFrameNames ==
  /\ OfLength(InterruptFrame, 17)
  /\ \A k \in 1 .. 12 : InterruptFrame[k] = CPURegister[k]
  /\ InterruptFrame[13] = "int_number" /\ InterruptFrame[14] = "error_code"
  /\ InterruptFrame[15] = "eip" /\ InterruptFrame[16] = "cs" /\ InterruptFrame[17] = "eflags"
<1> DEFINE c == <<"int_number", "error_code", "eip", "cs", "eflags">>
<1>1. /\ OfLength(c, 5) /\ c[1] = "int_number" /\ c[2] = "error_code"
      /\ c[3] = "eip" /\ c[4] = "cs" /\ c[5] = "eflags"
  BY DEF OfLength
<1>2. InterruptFrame = CPURegister \o c
  BY DEF InterruptFrame
<1> HIDE DEF c
<1>3. Joins(InterruptFrame, CPURegister, 12, c, 5)
  BY ONLY <1>1, <1>2, CPURegisterLength, Joined
<1>4. /\ InterruptFrame[13] = c[1] /\ InterruptFrame[14] = c[2] /\ InterruptFrame[15] = c[3]
      /\ InterruptFrame[16] = c[4] /\ InterruptFrame[17] = c[5]
  BY <1>3 DEF Joins
<1>5. OfLength(InterruptFrame, 17) /\ \A k \in 1 .. 12 : InterruptFrame[k] = CPURegister[k]
  BY <1>3 DEF Joins
<1> QED
  BY <1>1, <1>4, <1>5

\* Where a struct Context keeps a register.
Place(r) ==
  CASE r = "edi" -> 1 [] r = "esi" -> 2 [] r = "ebp" -> 3 [] r = "esp" -> 4
    [] r = "ebx" -> 5 [] r = "edx" -> 6 [] r = "ecx" -> 7 [] r = "eax" -> 8
    [] r = "gs" -> 9 [] r = "fs" -> 10 [] r = "es" -> 11 [] r = "ds" -> 12
    [] r = "eip" -> 13 [] r = "eflags" -> 14 [] r = "cr3" -> 15

SavedRegisters == Segments \cup Programmable \cup {"cr3"}

LEMMA ContextWords ==
  /\ Context[1] = "edi" /\ Context[2] = "esi" /\ Context[3] = "ebp" /\ Context[4] = "esp"
  /\ Context[5] = "ebx" /\ Context[6] = "edx" /\ Context[7] = "ecx" /\ Context[8] = "eax"
  /\ Context[9] = "gs" /\ Context[10] = "fs" /\ Context[11] = "es" /\ Context[12] = "ds"
  /\ Context[13] = "eip" /\ Context[14] = "eflags" /\ Context[15] = "cr3"
BY ContextNames, CPURegisterNames

LEMMA Places ==
  ASSUME NEW r \in SavedRegisters
  PROVE  /\ Place(r) \in 1 .. 15 /\ Context[Place(r)] = r
         /\ \A j \in 1 .. 15 : Context[j] = r => j = Place(r)
<1>1. Place(r) \in 1 .. 15 /\ Context[Place(r)] = r
  BY ContextWords DEF Place, SavedRegisters, Segments, Programmable
<1>2. \A j \in 1 .. 15 : Context[j] = r => j = Place(r)
  BY ContextWords DEF Place, SavedRegisters, Segments, Programmable
<1> QED
  BY <1>1, <1>2

LEMMA ContextFields ==
  ASSUME NEW w, NEW r \in SavedRegisters
  PROVE  Field(Context, w, r) = w[Place(r)]
<1> DEFINE k == Place(r)
<1>1. /\ k \in 1 .. 15 /\ Context[k] = r
      /\ \A j \in 1 .. 15 : Context[j] = r => j = k
  BY Places
<1> HIDE DEF k
<1>2. Field(Context, w, r) = w[k]
  BY <1>1, ContextNames, FieldIs
<1> QED
  BY <1>2 DEF k

\* The same of a struct InterruptFrame.
FramePlace(r) == CASE r = "eip" -> 15 [] r = "cs" -> 16 [] r = "eflags" -> 17 [] OTHER -> Place(r)

LEMMA FrameFields ==
  ASSUME NEW w, NEW r \in (SavedRegisters \ {"cr3"}) \cup {"cs"}
  PROVE  Field(InterruptFrame, w, r) = w[FramePlace(r)]
<1> DEFINE k == FramePlace(r)
<1>1. /\ InterruptFrame[1] = "edi" /\ InterruptFrame[2] = "esi" /\ InterruptFrame[3] = "ebp"
      /\ InterruptFrame[4] = "esp" /\ InterruptFrame[5] = "ebx" /\ InterruptFrame[6] = "edx"
      /\ InterruptFrame[7] = "ecx" /\ InterruptFrame[8] = "eax" /\ InterruptFrame[9] = "gs"
      /\ InterruptFrame[10] = "fs" /\ InterruptFrame[11] = "es" /\ InterruptFrame[12] = "ds"
      /\ InterruptFrame[13] = "int_number" /\ InterruptFrame[14] = "error_code"
      /\ InterruptFrame[15] = "eip" /\ InterruptFrame[16] = "cs" /\ InterruptFrame[17] = "eflags"
  BY InterruptFrameNames, CPURegisterNames
<1>2. k \in 1 .. 17 /\ InterruptFrame[k] = r
  BY <1>1 DEF FramePlace, Place, SavedRegisters, Segments, Programmable
<1>3. \A j \in 1 .. 17 : InterruptFrame[j] = r => j = k
  BY <1>1 DEF FramePlace, Place, SavedRegisters, Segments, Programmable
<1> HIDE DEF k
<1>4. Field(InterruptFrame, w, r) = w[k]
  BY <1>2, <1>3, InterruptFrameNames, FieldIs
<1> QED
  BY <1>4 DEF k

-----------------------------------------------------------------------------
(* The frame *)

\* The invariant's part about the processor: cs and ds tell the kernel, which
\* waits, from a program.
ProcessorAt(kernel) ==
  /\ cpu = [r \in Registers |-> cpu[r]]
  /\ kernel => cpu["cs"] = KernelCode /\ cpu["ds"] = KernelData
  /\ ~kernel => cpu["cs"] = UserCode /\ cpu["ds"] # KernelData

\* How many words the processor pushes.
Pushes(kernel) == IF kernel THEN 3 ELSE 5

LEMMA OnTheStack ==
  ASSUME NEW kernel \in BOOLEAN, ProcessorAt(kernel)
  PROVE  /\ OfLength(InterruptStack, Pushes(kernel))
         /\ InterruptStack[1] = cpu["eip"] /\ InterruptStack[2] = cpu["cs"]
         /\ InterruptStack[3] = cpu["eflags"]
         /\ ~kernel => InterruptStack[4] = cpu["esp"] /\ InterruptStack[5] = cpu["ss"]
<1> DEFINE left == <<cpu["eflags"], cpu["cs"], cpu["eip"]>>
           above == <<cpu["ss"], cpu["esp"]>>
           nothing == <<>>
<1>1. /\ OfLength(left, 3) /\ left[1] = cpu["eflags"] /\ left[2] = cpu["cs"]
      /\ left[3] = cpu["eip"]
      /\ OfLength(above, 2) /\ above[1] = cpu["ss"] /\ above[2] = cpu["esp"]
  BY DEF OfLength
<1>2. OfLength(nothing, 0)
  BY DEF OfLength
<1>3. InterruptStack = Reverse(IF kernel THEN left ELSE above \o left) \o nothing
  BY DEF InterruptStack, Pushed, ProcessorAt, KernelCode, UserCode
<1> HIDE DEF left, above, nothing
<1>4. CASE kernel
  <2>1. InterruptStack = Reverse(left) \o nothing
    BY <1>3, <1>4
  <2>2. TurnsRound(Reverse(left), left, 3)
    BY <1>1, Reversed
  <2>3. OfLength(Reverse(left), 3)
    BY <2>2 DEF TurnsRound
  <2>4. Joins(InterruptStack, Reverse(left), 3, nothing, 0)
    BY ONLY <2>1, <2>3, <1>2, Joined
  <2> DEFINE r == Reverse(left)
  <2>5. r[1] = left[3] /\ r[2] = left[2] /\ r[3] = left[1]
    <3>1. TurnsRound(r, left, 3)
      BY <2>2
    <3> HIDE DEF r
    <3> QED
      BY <3>1 DEF TurnsRound
  <2>6. Joins(InterruptStack, r, 3, nothing, 0)
    BY <2>4
  <2> HIDE DEF r
  <2>7. /\ OfLength(InterruptStack, 3)
        /\ InterruptStack[1] = r[1] /\ InterruptStack[2] = r[2] /\ InterruptStack[3] = r[3]
    BY <2>6 DEF Joins
  <2> QED
    BY <1>1, <1>4, <2>5, <2>7 DEF Pushes
<1>5. CASE ~kernel
  <2> DEFINE w == above \o left
             r == Reverse(w)
  <2>1. InterruptStack = r \o nothing
    BY <1>3, <1>5
  <2>2. Joins(w, above, 2, left, 3)
    BY ONLY <1>1, Joined
  <2> HIDE DEF w
  <2>3. OfLength(w, 5) /\ w[1] = above[1] /\ w[2] = above[2]
    BY <2>2 DEF Joins
  <2>4. w[3] = left[1] /\ w[4] = left[2] /\ w[5] = left[3]
    BY <2>2 DEF Joins
  <2>5. TurnsRound(r, w, 5)
    BY <2>3, Reversed
  <2> HIDE DEF r
  <2>6. /\ OfLength(r, 5)
        /\ r[1] = w[5] /\ r[2] = w[4] /\ r[3] = w[3] /\ r[4] = w[2] /\ r[5] = w[1]
    BY <2>5 DEF TurnsRound
  <2>7. Joins(InterruptStack, r, 5, nothing, 0)
    BY ONLY <2>1, <2>6, <1>2, Joined
  <2>8. /\ OfLength(InterruptStack, 5)
        /\ InterruptStack[1] = r[1] /\ InterruptStack[2] = r[2] /\ InterruptStack[3] = r[3]
        /\ InterruptStack[4] = r[4] /\ InterruptStack[5] = r[5]
    BY <2>7 DEF Joins
  <2> QED
    BY <1>1, <1>5, <2>3, <2>4, <2>6, <2>8 DEF Pushes
<1> QED
  BY <1>4, <1>5

\* What is pushed upon it.
AllPushed(number) ==
  LET segments == <<cpu["ds"], cpu["es"], cpu["fs"], cpu["gs"]>>
      pushad == <<cpu["eax"], cpu["ecx"], cpu["edx"], cpu["ebx"], KernelStack,
                  cpu["ebp"], cpu["esi"], cpu["edi"]>>
  IN  <<NoError, number>> \o segments \o pushad

LEMMA PushedWords ==
  ASSUME NEW number
  PROVE  /\ OfLength(AllPushed(number), 14)
         /\ AllPushed(number)[3] = cpu["ds"] /\ AllPushed(number)[4] = cpu["es"]
         /\ AllPushed(number)[5] = cpu["fs"] /\ AllPushed(number)[6] = cpu["gs"]
         /\ AllPushed(number)[7] = cpu["eax"] /\ AllPushed(number)[8] = cpu["ecx"]
         /\ AllPushed(number)[9] = cpu["edx"] /\ AllPushed(number)[10] = cpu["ebx"]
         /\ AllPushed(number)[11] = KernelStack /\ AllPushed(number)[12] = cpu["ebp"]
         /\ AllPushed(number)[13] = cpu["esi"] /\ AllPushed(number)[14] = cpu["edi"]
<1> DEFINE a == <<NoError, number>>
           b == <<cpu["ds"], cpu["es"], cpu["fs"], cpu["gs"]>>
           c == <<cpu["eax"], cpu["ecx"], cpu["edx"], cpu["ebx"], KernelStack,
                  cpu["ebp"], cpu["esi"], cpu["edi"]>>
           ab == a \o b
           w == ab \o c
<1>1. OfLength(a, 2)
  BY DEF OfLength
<1>2. /\ OfLength(b, 4) /\ b[1] = cpu["ds"] /\ b[2] = cpu["es"] /\ b[3] = cpu["fs"]
      /\ b[4] = cpu["gs"]
  BY DEF OfLength
<1>3. OfLength(c, 8)
  BY DEF OfLength
<1>4. /\ c[1] = cpu["eax"] /\ c[2] = cpu["ecx"] /\ c[3] = cpu["edx"] /\ c[4] = cpu["ebx"]
      /\ c[5] = KernelStack /\ c[6] = cpu["ebp"] /\ c[7] = cpu["esi"] /\ c[8] = cpu["edi"]
  OBVIOUS
<1>5. AllPushed(number) = w
  BY DEF AllPushed
<1> HIDE DEF a, b, c
<1>6. Joins(ab, a, 2, b, 4)
  BY <1>1, <1>2, Joined
<1> HIDE DEF ab
<1>7. OfLength(ab, 6) /\ ab[3] = b[1] /\ ab[4] = b[2] /\ ab[5] = b[3] /\ ab[6] = b[4]
  BY <1>6 DEF Joins
<1>8. Joins(w, ab, 6, c, 8)
  BY <1>7, <1>3, Joined
<1> HIDE DEF w
<1>9. OfLength(w, 14) /\ w[3] = ab[3] /\ w[4] = ab[4] /\ w[5] = ab[5] /\ w[6] = ab[6]
  BY <1>8 DEF Joins
<1>10. /\ w[7] = c[1] /\ w[8] = c[2] /\ w[9] = c[3] /\ w[10] = c[4]
       /\ w[11] = c[5] /\ w[12] = c[6] /\ w[13] = c[7] /\ w[14] = c[8]
  BY <1>8 DEF Joins
<1> QED
  BY <1>2, <1>4, <1>5, <1>7, <1>9, <1>10

\* The stack when main_interrupt_handler is called: at each place the register
\* which the struct has there, esp of a program too, though pushad found another.
FrameWords(f, kernel) ==
  /\ OfLength(f, 14 + Pushes(kernel))
  /\ f[1] = cpu["edi"] /\ f[2] = cpu["esi"] /\ f[3] = cpu["ebp"]
  /\ f[5] = cpu["ebx"] /\ f[6] = cpu["edx"] /\ f[7] = cpu["ecx"] /\ f[8] = cpu["eax"]
  /\ f[9] = cpu["gs"] /\ f[10] = cpu["fs"] /\ f[11] = cpu["es"] /\ f[12] = cpu["ds"]
  /\ f[15] = cpu["eip"] /\ f[16] = cpu["cs"] /\ f[17] = cpu["eflags"]
  /\ ~kernel => f[4] = cpu["esp"] /\ f[18] = cpu["esp"] /\ f[19] = cpu["ss"]

LEMMA FrameLaidOut ==
  ASSUME NEW kernel \in BOOLEAN, ProcessorAt(kernel), NEW number
  PROVE  FrameWords(call_generic_handler(number), kernel)
<1> DEFINE n == Pushes(kernel)
           p == AllPushed(number)
           r == Reverse(p)
           stack == r \o InterruptStack
           two == <<cpu["eflags"], cpu["eax"]>>
           back == Reverse(two)
           borrowed == back \o stack
           corrected == IF Word32(borrowed, 52) = KernelData THEN borrowed
                        ELSE [borrowed EXCEPT ![(20 \div 4) + 1] = Word32(borrowed, 76)]
           f == SubSeq(corrected, 3, Len(corrected))
<1>1. call_generic_handler(number) = f
  BY DEF call_generic_handler, UserStackPointer, Pushed, AllPushed
<1>2. n \in {3, 5} /\ (kernel => n = 3) /\ (~kernel => n = 5)
  BY DEF Pushes
<1>3. OfLength(two, 2)
  BY DEF OfLength
<1> HIDE DEF p, two
<1>4. TurnsRound(r, p, 14)
  BY PushedWords, Reversed DEF p
<1> HIDE DEF r
<1>5. /\ OfLength(r, 14)
      /\ r[1] = p[14] /\ r[2] = p[13] /\ r[3] = p[12] /\ r[4] = p[11] /\ r[5] = p[10]
      /\ r[6] = p[9] /\ r[7] = p[8] /\ r[8] = p[7] /\ r[9] = p[6] /\ r[10] = p[5]
      /\ r[11] = p[4] /\ r[12] = p[3]
  BY <1>4 DEF TurnsRound
<1>6. Joins(stack, r, 14, InterruptStack, n)
  BY <1>5, OnTheStack, Joined
<1> HIDE DEF n, stack
<1>7. /\ OfLength(stack, 14 + n) /\ \A k \in 1 .. 14 : stack[k] = r[k]
      /\ \A k \in 1 .. n : stack[14 + k] = InterruptStack[k]
  BY <1>6 DEF Joins
<1>8. /\ stack[15] = cpu["eip"] /\ stack[16] = cpu["cs"] /\ stack[17] = cpu["eflags"]
      /\ ~kernel => stack[18] = cpu["esp"] /\ stack[19] = cpu["ss"]
  <2>1. \A k \in 1 .. 3 : stack[14 + k] = InterruptStack[k]
    BY <1>2, <1>7
  <2>2. ~kernel => \A k \in 1 .. 5 : stack[14 + k] = InterruptStack[k]
    BY <1>2, <1>7
  <2>3. /\ stack[15] = InterruptStack[1] /\ stack[16] = InterruptStack[2]
        /\ stack[17] = InterruptStack[3]
    BY <2>1
  <2>4. ~kernel => stack[18] = InterruptStack[4] /\ stack[19] = InterruptStack[5]
    BY <2>2
  <2> QED
    BY <2>3, <2>4, OnTheStack
<1>9. /\ stack[1] = cpu["edi"] /\ stack[2] = cpu["esi"] /\ stack[3] = cpu["ebp"]
      /\ stack[5] = cpu["ebx"] /\ stack[6] = cpu["edx"] /\ stack[7] = cpu["ecx"]
      /\ stack[8] = cpu["eax"] /\ stack[9] = cpu["gs"] /\ stack[10] = cpu["fs"]
      /\ stack[11] = cpu["es"] /\ stack[12] = cpu["ds"]
  BY <1>5, <1>7, PushedWords DEF p
<1>10. TurnsRound(back, two, 2)
  BY <1>3, Reversed
<1> HIDE DEF back
<1>11. OfLength(back, 2)
  BY <1>10 DEF TurnsRound
<1>12. Joins(borrowed, back, 2, stack, 14 + n)
  BY <1>7, <1>11, Joined
<1> HIDE DEF borrowed
<1>13. OfLength(borrowed, 16 + n)
  <2>1. 2 + (14 + n) = 16 + n
    BY <1>2
  <2> QED
    BY <1>12, <2>1 DEF Joins
<1>14. \A k \in 1 .. 14 + n : borrowed[2 + k] = stack[k]
  BY <1>12 DEF Joins
<1>15. borrowed[14] = cpu["ds"] /\ (~kernel => borrowed[20] = cpu["esp"])
  <2>1. 12 \in 1 .. 14 + n /\ (~kernel => 18 \in 1 .. 14 + n)
    BY <1>2
  <2>2. borrowed[2 + 12] = stack[12] /\ (~kernel => borrowed[2 + 18] = stack[18])
    BY <1>14, <2>1
  <2> QED
    BY <2>2, <1>8, <1>9
<1>16. Word32(borrowed, 52) = borrowed[14] /\ Word32(borrowed, 76) = borrowed[20]
  BY DEF Word32
<1>17. corrected = IF kernel THEN borrowed ELSE [borrowed EXCEPT ![6] = cpu["esp"]]
  <2>1. (20 \div 4) + 1 = 6
    OBVIOUS
  <2>2. kernel <=> Word32(borrowed, 52) = KernelData
    BY <1>15, <1>16 DEF ProcessorAt
  <2> QED
    BY <1>15, <1>16, <2>1, <2>2
<1> HIDE DEF corrected
<1>18. /\ OfLength(corrected, 16 + n)
       /\ \A k \in 1 .. 16 + n : k # 6 => corrected[k] = borrowed[k]
       /\ ~kernel => corrected[6] = cpu["esp"]
  BY <1>2, <1>13, <1>17 DEF OfLength
<1>19. Len(corrected) = 16 + n
  BY <1>18, Listed
<1>20. LeavesFrom(f, 2, corrected, 14 + n)
  <2>1. 14 + n \in Nat /\ 16 + n = 2 + (14 + n) /\ 3 = 2 + 1
    BY <1>2
  <2> QED
    BY <1>18, <1>19, <2>1, Dropped
<1> HIDE DEF f
<1>21. OfLength(f, 14 + n)
  BY <1>20 DEF LeavesFrom
<1>22. \A k \in 1 .. 14 + n : f[k] = corrected[2 + k]
  BY <1>20 DEF LeavesFrom
<1>23. ASSUME NEW k \in 1 .. 14 + n PROVE f[k] = corrected[2 + k]
  BY <1>22
<1>24. ASSUME NEW k \in 1 .. 14 + n, k # 4 PROVE f[k] = stack[k]
  <2>1. 2 + k \in 1 .. 16 + n /\ 2 + k # 6
    BY <1>2, <1>24
  <2>2. corrected[2 + k] = borrowed[2 + k]
    BY <1>18, <2>1
  <2> QED
    BY <1>14, <1>23, <2>2
<1>25. /\ f[1] = stack[1] /\ f[2] = stack[2] /\ f[3] = stack[3] /\ f[5] = stack[5]
       /\ f[6] = stack[6] /\ f[7] = stack[7] /\ f[8] = stack[8] /\ f[9] = stack[9]
       /\ f[10] = stack[10] /\ f[11] = stack[11] /\ f[12] = stack[12]
       /\ f[15] = stack[15] /\ f[16] = stack[16] /\ f[17] = stack[17]
       /\ ~kernel => f[18] = stack[18] /\ f[19] = stack[19]
  BY <1>2, <1>24
<1>26. ~kernel => f[4] = cpu["esp"]
  <2>1. 4 \in 1 .. 14 + n
    BY <1>2
  <2>2. f[4] = corrected[2 + 4]
    BY <2>1, <1>23
  <2> QED
    BY <2>2, <1>18
<1>27. FrameWords(f, kernel)
  BY <1>8, <1>9, <1>21, <1>25, <1>26 DEF FrameWords, n
<1> QED
  BY <1>1, <1>27

-----------------------------------------------------------------------------
(* Back to what was interrupted *)

LEMMA ReturnGivesBack ==
  ASSUME NEW kernel \in BOOLEAN, ProcessorAt(kernel), NEW number
  PROVE  Returned(call_generic_handler(number)) = cpu
<1> DEFINE f == call_generic_handler(number)
           iret == SubSeq(f, 15, Len(f))
<1>1. FrameWords(f, kernel)
  BY FrameLaidOut
<1> HIDE DEF f
<1>2. Pushes(kernel) \in {3, 5} /\ (~kernel => Pushes(kernel) = 5)
  BY DEF Pushes
<1>3. OfLength(f, 14 + Pushes(kernel))
  BY <1>1 DEF FrameWords
<1>4. Len(f) = 14 + Pushes(kernel)
  BY <1>3, Listed
<1>5. LeavesFrom(iret, 14, f, Pushes(kernel))
  <2>1. Pushes(kernel) \in Nat /\ 15 = 14 + 1
    BY <1>2
  <2> QED
    BY <1>3, <1>4, <2>1, Dropped
<1> HIDE DEF iret
<1>6. \A k \in 1 .. Pushes(kernel) : iret[k] = f[14 + k]
  BY <1>5 DEF LeavesFrom
<1>7. /\ iret[1] = f[15] /\ iret[2] = f[16] /\ iret[3] = f[17]
      /\ ~kernel => iret[4] = f[18] /\ iret[5] = f[19]
  BY <1>2, <1>6
<1>8. /\ iret[1] = cpu["eip"] /\ iret[2] = cpu["cs"] /\ iret[3] = cpu["eflags"]
      /\ iret[2] = UserCode => iret[4] = cpu["esp"] /\ iret[5] = cpu["ss"]
  BY <1>1, <1>7 DEF FrameWords, ProcessorAt, KernelCode, UserCode
<1>9. \A r \in Segments \cup {"edi", "esi", "ebp", "ebx", "edx", "ecx", "eax"} :
        Field(CPURegister, f, r) = cpu[r]
  BY <1>1, CPURegisterFields DEF FrameWords, Segments
<1>10. Returned(f) = [r \in Registers |->
         CASE r \in Segments \cup {"edi", "esi", "ebp", "ebx", "edx", "ecx", "eax"} ->
                Field(CPURegister, f, r)
           [] r = "eip" -> iret[1]
           [] r = "cs" -> iret[2]
           [] r = "eflags" -> iret[3]
           [] r = "esp" -> IF iret[2] = UserCode THEN iret[4] ELSE cpu[r]
           [] r = "ss" -> IF iret[2] = UserCode THEN iret[5] ELSE cpu[r]
           [] r = "cr3" -> cpu[r]]
  BY DEF Returned, iret
<1>11. \A r \in Registers : Returned(f)[r] = cpu[r]
  BY <1>8, <1>9, <1>10 DEF Registers, Segments, Programmable
<1>12. Returned(f) = [r \in Registers |-> Returned(f)[r]]
  BY <1>10
<1>13. Returned(f) = cpu
  BY <1>11, <1>12 DEF ProcessorAt
<1> QED
  BY <1>13 DEF f

-----------------------------------------------------------------------------
(* To a program and from it *)

\* A new process has selectors of its own and a directory of its own.
LEMMA FirstWords ==
  ASSUME NEW p
  PROVE  FirstContext(p)[12] = UserData /\ FirstContext(p)[15] = p
<1>1. 12 \in DOMAIN Context /\ 15 \in DOMAIN Context
  <2>1. DOMAIN Context = 1 .. 15
    BY ContextNames, Listed
  <2> QED
    BY <2>1
<1>2. Context[12] = "ds" /\ Context[15] = "cr3"
  BY ContextWords
<1> QED
  BY <1>1, <1>2 DEF FirstContext, Segments

\* What the timer saves.
LEMMA RegistersSaved ==
  ASSUME running # Boot, ProcessorAt(FALSE), NEW number,
         pcb[running][15] = cpu["cr3"], NEW r \in SavedRegisters
  PROVE  InterruptedContext(call_generic_handler(number))[Place(r)] = cpu[r]
<1> DEFINE f == call_generic_handler(number)
           ctx == InterruptedContext(f)
<1>1. FrameWords(f, FALSE)
  BY FrameLaidOut
<1> HIDE DEF f
<1>2. Place(r) \in DOMAIN Context /\ Context[Place(r)] = r
  BY Places, ContextNames, Listed
<1>3. ctx[Place(r)] = IF r = "cr3" THEN Field(Context, pcb[running], "cr3")
                      ELSE Field(InterruptFrame, f, r)
  BY <1>2 DEF InterruptedContext
<1>4. CASE r = "cr3"
  <2>1. Field(Context, pcb[running], "cr3") = pcb[running][15]
    BY ContextFields DEF SavedRegisters, Place
  <2> QED
    BY <1>3, <1>4, <2>1 DEF f
<1>5. CASE r # "cr3"
  <2>1. Field(InterruptFrame, f, r) = f[FramePlace(r)]
    BY <1>5, FrameFields
  <2>2. /\ FramePlace("edi") = 1 /\ FramePlace("esi") = 2 /\ FramePlace("ebp") = 3
        /\ FramePlace("esp") = 4 /\ FramePlace("ebx") = 5 /\ FramePlace("edx") = 6
        /\ FramePlace("ecx") = 7 /\ FramePlace("eax") = 8 /\ FramePlace("gs") = 9
        /\ FramePlace("fs") = 10 /\ FramePlace("es") = 11 /\ FramePlace("ds") = 12
        /\ FramePlace("eip") = 15 /\ FramePlace("eflags") = 17
    BY DEF FramePlace, Place
  <2>3. f[FramePlace(r)] = cpu[r]
    BY <1>1, <1>5, <2>2 DEF FrameWords, SavedRegisters, Segments, Programmable
  <2> QED
    BY <1>3, <1>5, <2>1, <2>3 DEF f
<1> QED
  BY <1>4, <1>5

\* What process_context_switch loads.
LEMMA RegistersLoaded ==
  ASSUME NEW w, NEW r \in SavedRegisters \ {"eax"}
  PROVE  process_context_switch(w)[r] = w[Place(r)]
<1>1. Field(Context, w, "cr3") = w[15]
  BY ContextFields DEF SavedRegisters, Place
<1>2. /\ Word32(w, 0) = w[1] /\ Word32(w, 4) = w[2] /\ Word32(w, 8) = w[3]
      /\ Word32(w, 12) = w[4] /\ Word32(w, 16) = w[5] /\ Word32(w, 20) = w[6]
      /\ Word32(w, 24) = w[7] /\ Word32(w, 32) = w[9] /\ Word32(w, 36) = w[10]
      /\ Word32(w, 40) = w[11] /\ Word32(w, 44) = w[12] /\ Word32(w, 48) = w[13]
      /\ Word32(w, 52) = w[14]
  BY DEF Word32
<1> QED
  BY <1>1, <1>2
  DEF process_context_switch, Place, SavedRegisters, Registers, Segments, Programmable

LEMMA AllLoaded ==
  ASSUME NEW w
  PROVE  /\ process_context_switch(w) = [r \in Registers |-> process_context_switch(w)[r]]
         /\ process_context_switch(w)["cs"] = UserCode
<1> DEFINE word(r) ==
             CASE r = "edi" -> Word32(w, 0)
               [] r = "esi" -> Word32(w, 4)
               [] r = "ebp" -> Word32(w, 8)
               [] r = "esp" -> Word32(w, 12)
               [] r = "ebx" -> Word32(w, 16)
               [] r \in {"edx", "eax"} -> Word32(w, 20)
               [] r = "ecx" -> Word32(w, 24)
               [] r = "gs" -> Word32(w, 32)
               [] r = "fs" -> Word32(w, 36)
               [] r = "es" -> Word32(w, 40)
               [] r = "ds" -> Word32(w, 44)
               [] r = "eip" -> Word32(w, 48)
               [] r = "eflags" -> Word32(w, 52)
               [] r = "cs" -> UserCode
               [] r = "ss" -> UserData
               [] r = "cr3" -> Field(Context, w, r)
           loaded == process_context_switch(w)
<1>1. loaded = [r \in Registers |-> loaded[r]]
  <2>1. loaded = [r \in Registers |-> word(r)]
    BY DEF process_context_switch
  <2> HIDE DEF word, loaded
  <2> QED
    BY <2>1
<1>2. process_context_switch(w)["cs"] = UserCode
  BY DEF process_context_switch, Registers
<1> QED
  BY <1>1, <1>2

\* The inductive invariant: who runs, that its selectors tell it from the
\* kernel, and that no program, running or not, has the kernel's or another's
\* directory.
IInv ==
  /\ running \in Processes \cup {Boot}
  /\ ProcessorAt(running = Boot)
  /\ running # Boot => cpu["cr3"] = running
  /\ pcb = [p \in Processes |-> pcb[p]]
  /\ \A p \in Processes : pcb[p][12] # KernelData /\ pcb[p][15] = p

LEMMA InitiallyIInv ==
  ASSUME Init
  PROVE  IInv
<1>1. pcb = [p \in Processes |-> FirstContext(p)]
  BY DEF Init
<1>2. \A p \in Processes : pcb[p][12] # KernelData /\ pcb[p][15] = p
  BY <1>1, FirstWords DEF UserData, KernelData
<1>3. /\ running = Boot /\ cpu = [r \in Registers |-> cpu[r]]
      /\ cpu["cs"] = KernelCode /\ cpu["ds"] = KernelData
  BY DEF Init, Registers, Segments
<1> QED
  BY <1>1, <1>2, <1>3 DEF IInv, ProcessorAt

\* An instruction writes no selector and no directory.
LEMMA InstructionStep ==
  ASSUME IInv, Instruction
  PROVE  IInv'
<1>1. PICK r \in Programmable, w \in Word : cpu' = [cpu EXCEPT ![r] = w]
  BY DEF Instruction
<1>2. running' = running /\ pcb' = pcb /\ running # Boot
  BY DEF Instruction
<1>3. r \notin {"cs", "ds", "cr3"}
  BY DEF Programmable
<1>4. \A q \in {"cs", "ds", "cr3"} : cpu'[q] = cpu[q]
  BY <1>1, <1>3 DEF IInv, ProcessorAt, Registers, Segments
<1>5. cpu' = [q \in Registers |-> cpu'[q]]
  BY <1>1 DEF IInv, ProcessorAt
<1> QED
  BY <1>2, <1>4, <1>5 DEF IInv, ProcessorAt

LEMMA InterruptKeeps ==
  ASSUME IInv, Interrupt
  PROVE  UNCHANGED vars
<1>1. PICK number : cpu' = Returned(call_generic_handler(number))
  BY DEF Interrupt
<1>2. ProcessorAt(running = Boot)
  BY DEF IInv
<1>3. cpu' = cpu
  BY <1>1, <1>2, ReturnGivesBack
<1> QED
  BY <1>3 DEF Interrupt, vars

\* The timer's two halves: what is saved, and what runs on.
LEMMA TimerStep ==
  ASSUME IInv, Timer
  PROVE  /\ IInv' /\ running' \in Processes
         /\ \A p \in Processes, r \in SavedRegisters :
              pcb'[p][Place(r)] = IF p = running THEN cpu[r] ELSE pcb[p][Place(r)]
         /\ \A r \in SavedRegisters \ {"eax"} : cpu'[r] = pcb'[running'][Place(r)]
<1> DEFINE ctx == InterruptedContext(call_generic_handler("timer"))
<1>1. PICK next \in Processes : running' = next /\ cpu' = process_context_switch(pcb'[next])
  BY DEF Timer
<1>2. next # Boot
  BY ContextSwitchAssumption
<1>3. ASSUME running # Boot, NEW r \in SavedRegisters PROVE ctx[Place(r)] = cpu[r]
  BY <1>3, RegistersSaved DEF IInv
<1>4. pcb' = IF running = Boot THEN pcb ELSE [pcb EXCEPT ![running] = ctx]
  BY DEF Timer
<1> HIDE DEF ctx
<1>5. pcb' = [p \in Processes |-> pcb'[p]]
  BY <1>4 DEF IInv
<1>6. \A p \in Processes :
        pcb'[p] = IF running # Boot /\ p = running THEN ctx ELSE pcb[p]
  BY <1>4 DEF IInv
<1>7. ASSUME NEW p \in Processes, NEW r \in SavedRegisters
      PROVE  pcb'[p][Place(r)] = IF p = running THEN cpu[r] ELSE pcb[p][Place(r)]
  BY <1>3, <1>6, ContextSwitchAssumption
<1>8. "ds" \in SavedRegisters /\ Place("ds") = 12 /\ "cr3" \in SavedRegisters /\ Place("cr3") = 15
  BY DEF SavedRegisters, Segments, Place
<1>9. ASSUME NEW p \in Processes PROVE pcb'[p][12] # KernelData /\ pcb'[p][15] = p
  <2>1. /\ pcb'[p][12] = IF p = running THEN cpu["ds"] ELSE pcb[p][12]
        /\ pcb'[p][15] = IF p = running THEN cpu["cr3"] ELSE pcb[p][15]
    BY <1>7, <1>8
  <2> QED
    BY <2>1, ContextSwitchAssumption DEF IInv, ProcessorAt
<1>10. ASSUME NEW r \in SavedRegisters \ {"eax"} PROVE cpu'[r] = pcb'[next][Place(r)]
  BY <1>1, RegistersLoaded
<1>11. /\ cpu' = [r \in Registers |-> cpu'[r]]
       /\ cpu'["cs"] = UserCode
  BY <1>1, AllLoaded
<1>12. cpu'["ds"] # KernelData /\ cpu'["cr3"] = next
  BY <1>8, <1>9, <1>10
<1>13. IInv'
  BY <1>1, <1>2, <1>5, <1>9, <1>11, <1>12 DEF IInv, ProcessorAt
<1> QED
  BY <1>1, <1>7, <1>10, <1>13

LEMMA NextStep ==
  ASSUME IInv, [Next]_vars
  PROVE  IInv'
<1>1. CASE UNCHANGED vars
  BY <1>1 DEF IInv, ProcessorAt, vars
<1>2. CASE Instruction
  BY <1>2, InstructionStep
<1>3. CASE Interrupt
  BY <1>1, <1>3, InterruptKeeps
<1>4. CASE Timer
  BY <1>4, TimerStep
<1> QED
  BY <1>1, <1>2, <1>3, <1>4 DEF Next

\* Whoever runs is told from the kernel by its code and data selectors, and a
\* program has its own page directory, in cr3 and in its context: whatever the
\* handler of src/src/intsetup.s and process_context_switch count.
THEOREM SwitchInvariance == Spec => []IInv
<1>1. Init => IInv
  BY InitiallyIInv
<1>2. IInv /\ [Next]_vars => IInv'
  BY NextStep
<1> QED
  BY <1>1, <1>2, PTL DEF Spec

\* An interrupt or a system call that switches nothing gives every register back
\* (call_generic_handler), to a program and to the kernel.
THEOREM InterruptsReturn == Spec => ReturnsUnchanged
<1>1. IInv /\ [Next]_vars => [Interrupt => UNCHANGED cpu]_vars
  BY InterruptKeeps DEF vars
<1> QED
  BY <1>1, SwitchInvariance, PTL DEF Spec, ReturnsUnchanged

-----------------------------------------------------------------------------
(* Processors of their own *)

LEMMA FileChanges ==
  ASSUME NEW p \in Processes,
         \A r \in SavedRegisters \ {"eax"} : RegistersOf(p)'[r] = RegistersOf(p)[r]
  PROVE  Without("eax", RegistersOf(p))' = Without("eax", RegistersOf(p))
BY DEF Without, RegistersOf, SavedRegisters

\* An instruction changes nobody else's registers.
LEMMA InstructionComputes ==
  ASSUME IInv, Instruction
  PROVE  Kept!Compute
<1>1. running \in Processes /\ running' = running /\ pcb' = pcb
  BY DEF IInv, Instruction
<1>2. ASSUME NEW q \in Processes \ {running}
      PROVE  Without("eax", RegistersOf(q))' = Without("eax", RegistersOf(q))
  BY <1>1, <1>2 DEF Without, RegistersOf
<1> QED
  BY <1>1, <1>2 DEF Kept!Compute

\* The timer changes nobody's, wherever they are kept.
LEMMA TimerSwitches ==
  ASSUME IInv, Timer
  PROVE  Kept!Switch
<1>1. running' \in Processes
  BY TimerStep
<1>2. ASSUME NEW p \in Processes, NEW r \in SavedRegisters \ {"eax"}
      PROVE  RegistersOf(p)'[r] = RegistersOf(p)[r]
  <2>1. RegistersOf(p)[r] = IF running = p THEN cpu[r] ELSE pcb[p][Place(r)]
    BY ContextFields DEF RegistersOf, SavedRegisters
  <2>2. RegistersOf(p)'[r] = IF running' = p THEN cpu'[r] ELSE pcb'[p][Place(r)]
    BY ContextFields DEF RegistersOf, SavedRegisters
  <2> QED
    BY <2>1, <2>2, TimerStep
<1>3. \A p \in Processes : Without("eax", RegistersOf(p))' = Without("eax", RegistersOf(p))
  BY <1>2, FileChanges
<1> QED
  BY <1>1, <1>3 DEF Kept!Switch

\* Every program has a processor to itself, in all registers but eax: it stands
\* still while the others run, for any programs, words and number of switches
\* (call_generic_handler, InterruptedContext, process_context_switch).
THEOREM ProgramsKeepRegisters == Spec => KeepsRegisters
<1>1. Init => Kept!Init
  BY DEF Init, Kept!Init
<1>2. ASSUME IInv, [Next]_vars
      PROVE  [Kept!Next]_Kept!procVars
  <2>1. CASE UNCHANGED vars
    BY <2>1 DEF vars, Kept!procVars, RegistersOf, Without
  <2>2. CASE Instruction
    BY <1>2, <2>2, InstructionComputes DEF Kept!Next
  <2>3. CASE Interrupt
    BY <1>2, <2>1, <2>3, InterruptKeeps
  <2>4. CASE Timer
    BY <1>2, <2>4, TimerSwitches DEF Kept!Next
  <2> QED
    BY <1>2, <2>1, <2>2, <2>3, <2>4 DEF Next
<1> QED
  BY <1>1, <1>2, SwitchInvariance, PTL DEF Spec, KeepsRegisters, Kept!Spec
=============================================================================

---------------------------- MODULE ConnIOProofs ----------------------------
(* What the connection handler does with bytes, for every script, every size of *)
(* the buffers and every way the bytes are cut into pieces.                     *)
EXTENDS ConnIO, RecursionFacts, SequenceTheorems

(* The invariant.                                                               *)

\* The bytes of the script, and the one that follows b.
Bytes == UNION {{Byte(i, k) : k \in 1 .. Size(i)} : i \in 1 .. Len(script)}

After(b) == IF b.at < Size(b.cmd) THEN Byte(b.cmd, b.at + 1) ELSE Byte(b.cmd + 1, 1)

\* A piece of the script without a gap.
Run(s) == s \in Seq(Bytes) /\ \A k \in 1 .. Len(s) - 1 : s[k + 1] = After(s[k])

\* What was not handled yet.
Ahead == cmd \o input

Aligned(n) == n % LineBufSize = 0

\* A line is read from byte k of i on: it is the first byte of a line, or the line
\* began a number of full buffers ago.
StartsLine(i, k) ==
  IF k <= LineSize(i)
  THEN Aligned((k - 1) + Before[i]) /\ (k > 1 => TooLong(i))
  ELSE ~ Proper(i) /\ Aligned((k - LineSize(i) - 1) + LeftOver(LineSize(i) + Before[i]))

LineStart(b) == StartsLine(b.cmd, b.at)

\* Byte k of command i was sent before b.
Passed(i, b) == i < b.cmd \/ (i = b.cmd /\ b.at > 1)

\* The commands of tk are those that are before b.
Handled(tk, b) ==
  /\ \A k \in DOMAIN tk : tk[k].at = 1 => Passed(tk[k].cmd, b)
  /\ \A i \in 1 .. Len(script) :
       Proper(i) /\ Passed(i, b) => \E k \in DOMAIN tk : tk[k] = Byte(i, 1)

\* Where the first of the bytes s, not handled yet, lies in the script.
HeadOK(s, st, job, count, tk) ==
  Len(s) > 0 =>
    /\ st \notin {"wantdata", "bitbucket"} => LineStart(s[1])
    /\ st = "wantdata" => Proper(job) /\ s[1] = Byte(job, LineSize(job) + count + 1)
    /\ st = "bitbucket" => /\ Proper(s[1].cmd) /\ s[1].at > LineSize(s[1].cmd)
                           /\ count = Size(s[1].cmd) - s[1].at + 1
    /\ Handled(tk, s[1])

InOrder(tk) ==
  \A k \in DOMAIN tk : tk[k].at = 1 =>
    /\ Proper(tk[k].cmd)
    /\ \A i \in 1 .. Len(script) :
         (i < tk[k].cmd /\ Proper(i)) <=> \E j \in 1 .. k - 1 : tk[j] = Byte(i, 1)

Strays(tk) == \A k \in DOMAIN tk : tk[k].at > 1 => ~ Proper(tk[k].cmd)

\* What was read of bodies: those in str are whole, bd has count bytes of that of job.
Bodies(job, count, bd, str) ==
  /\ \A k \in DOMAIN str : \E i \in 1 .. Len(script) : script[i].body # 0 /\ str[k] = Body(i)
  /\ job # NoJob => /\ job \in 1 .. Len(script) /\ script[job].body # 0
                    /\ Len(bd) = count /\ count <= script[job].body
                    /\ \A k \in 1 .. count : bd[k] = Byte(job, LineSize(job) + k)

\* What is read, and what of it was handled.
InTypes ==
  /\ script \in Scripts
  /\ input \in Seq(Bytes) /\ cmd \in Seq(Bytes) /\ body \in Seq(Bytes)
  /\ taken \in Seq(Bytes) /\ stored \in Seq(Seq(Bytes))
  /\ Len(cmd) <= LineBufSize
  /\ in_job \in 0 .. Len(script) /\ in_job_read \in Nat

Reading ==
  state # "closed" =>
    /\ in_job # NoJob <=> state = "wantdata"
    /\ Len(cmd) < LineBufSize
    /\ state \in {"wantdata", "bitbucket"} => cmd = <<>>
    /\ state \notin {"wantdata", "bitbucket"} => in_job_read = 0
    /\ state = "wantdata" => in_job_read < script[in_job].body
    /\ peer # "noticed" /\ state = "bitbucket" => in_job_read > 0

InScript ==
  /\ state # "closed" => Run(Ahead)
  /\ state # "closed" /\ peer # "noticed" => HeadOK(Ahead, state, in_job, in_job_read, taken)
  /\ InOrder(taken) /\ Strays(taken) /\ Bodies(in_job, in_job_read, body, stored)

InInv == InTypes /\ Reading /\ InScript

\* What is written.
OutTypes ==
  /\ peer \in {"here", "gone", "noticed"}
  /\ state \in {"wantcommand", "wantdata", "bitbucket", "sendword", "sendjob", "wait", "closed"}
  /\ reply \in {"line", "job"} /\ reply_sent \in -1 .. WordLen /\ out_job_sent \in 0 .. JobLen
  /\ refused \in Nat /\ answered \in Nat /\ sent \in Nat

Writing ==
  peer # "noticed" =>
    /\ reply_sent >= 0
    /\ state = "sendword" => reply = "line" /\ reply_sent < WordLen
    /\ state = "sendjob" => /\ reply = "job" /\ out_job_sent < JobLen
                            /\ out_job_sent > 0 => reply_sent = WordLen

OutInv == OutTypes /\ Writing /\ OneReplyPerLine /\ SentExactly

IOInv == InInv /\ OutInv

(* Numbers.                                                                     *)

\* The smaller of two numbers.
LEMMA MinOfTwo ==
  ASSUME NEW a \in Int, NEW b \in Int
  PROVE  Min({a, b}) = IF a <= b THEN a ELSE b
BY DEF Min

\* Division with remainder, and that there is only one.
LEMMA Quotient ==
  ASSUME NEW n \in Nat, NEW m \in Nat, m > 0
  PROVE  n % m \in 0 .. m - 1 /\ n \div m \in Nat /\ n = m * (n \div m) + (n % m)
OBVIOUS

LEMMA OneQuotient ==
  ASSUME NEW m \in Nat, m > 0, NEW q \in Int, NEW p \in Int,
         NEW r \in 0 .. m - 1, NEW s \in 0 .. m - 1, m * q + r = m * p + s
  PROVE  r = s
<1>1. CASE q > p
  <2>1. m * (q - p) = s - r /\ m * (q - p) >= m
    BY <1>1
  <2>. QED BY <2>1
<1>2. CASE q < p
  <2>1. m * (p - q) = r - s /\ m * (p - q) >= m
    BY <1>2
  <2>. QED BY <2>1
<1>3. CASE q = p
  BY <1>3
<1>. QED BY <1>1, <1>2, <1>3

\* A remainder is known by any quotient.
LEMMA Remainder ==
  ASSUME NEW n \in Nat, NEW m \in Nat, m > 0, NEW r \in 0 .. m - 1
  PROVE  n % m = r <=> \E q \in Int : n = m * q + r
<1>1. ASSUME NEW q \in Int, n = m * q + r PROVE n % m = r
  <2>1. PICK p \in Int, s \in 0 .. m - 1 : n = m * p + s /\ s = n % m
    <3>1. n % m \in 0 .. m - 1 /\ n \div m \in Nat /\ n = m * (n \div m) + (n % m)
      BY Quotient, Zenon
    <3>2. n \div m \in Int
      BY <3>1
    <3>. QED BY <3>1, <3>2, Zenon
  <2>2. m * q + r = m * p + s
    BY <1>1, <2>1
  <2>3. r = s
    BY <2>2, OneQuotient
  <2>. QED BY <2>1, <2>3
<1>2. PICK p \in Int : n = m * p + (n % m)
  BY Quotient
<1>. QED BY <1>1, <1>2

\* Full buffers, and what a line that does not fit leaves over.
LEMMA Buffers ==
  /\ LineBufSize \in Nat /\ LineBufSize > 2
  /\ Aligned(0)
  /\ \A n \in Nat : Aligned(n) => Aligned(n + LineBufSize)
  /\ \A n \in Nat : Aligned(n) /\ n > 0 => n >= LineBufSize
  /\ \A n \in Nat, r \in 1 .. LineBufSize - 1 : Aligned(n) => ~ Aligned(n + r)
  /\ \A n \in Nat : LeftOver(n) = IF n > LineBufSize /\ Aligned(n - 1) THEN 1 ELSE 0
<1>. DEFINE L == LineBufSize
<1>. L \in Nat /\ L > 2
  BY SizesAssumption
<1>. HIDE DEF L
<1>1. \A n \in Nat : \A r \in 0 .. L - 1 : n % L = r <=> \E q \in Int : n = L * q + r
  <2>1. L \in Nat /\ L > 0
    OBVIOUS
  <2>. QED BY <2>1, Remainder, Zenon
<1>2. \A n \in Nat : n % L = 0 <=> \E q \in Int : n = L * q
  <2>1. \A q \in Int : L * q + 0 = L * q
    OBVIOUS
  <2>2. 0 \in 0 .. L - 1
    OBVIOUS
  <2>. QED BY <1>1, <2>1, <2>2, ZenonT(30)
<1>3. 0 % L = 0
  <2>1. 0 = L * 0
    OBVIOUS
  <2>. QED BY <1>2, <2>1
<1>4. ASSUME NEW n \in Nat, n % L = 0  PROVE (n + L) % L = 0 /\ (n > 0 => n >= L)
  <2>1. PICK q \in Int : n = L * q
    BY <1>2, <1>4
  <2>2. n + L = L * (q + 1) /\ n + L \in Nat /\ q + 1 \in Int
    BY <2>1
  <2>3. n > 0 => q >= 1
    BY <2>1
  <2>4. q >= 1 => L * q >= L
    OBVIOUS
  <2>5. n > 0 => n >= L
    BY <2>1, <2>3, <2>4
  <2>. QED BY <1>2, <2>2, <2>5
<1>5. ASSUME NEW n \in Nat, n % L = 0, NEW r \in 1 .. L - 1  PROVE (n + r) % L = r
  <2>1. PICK q \in Int : n = L * q
    BY <1>2, <1>5
  <2>2. n + r = L * q + r /\ n + r \in Nat /\ r \in 0 .. L - 1
    BY <2>1
  <2>. QED BY <1>1, <2>2, Zenon
<1>6. ASSUME NEW n \in Nat, n > L  PROVE n % L = 1 <=> (n - 1) % L = 0
  <2>1. n - 1 \in Nat /\ (n - 1) + 1 = n /\ 1 \in 0 .. L - 1 /\ 1 \in 1 .. L - 1
    BY <1>6
  <2>2. ASSUME NEW q \in Int, n = L * q + 1  PROVE n - 1 = L * q
    BY <2>2
  <2>3. n % L = 1 => (n - 1) % L = 0
    BY <1>1, <1>2, <2>1, <2>2
  <2>. QED BY <1>5, <2>1, <2>3
<1>7. \A n \in Nat : LeftOver(n) = IF n > L /\ (n - 1) % L = 0 THEN 1 ELSE 0
  BY <1>6, Zenon DEF LeftOver, L
<1>8. ASSUME NEW n \in Nat, NEW r \in 1 .. L - 1, n % L = 0  PROVE (n + r) % L # 0
  <2>1. (n + r) % L = r
    BY <1>5, <1>8, Zenon
  <2>2. r # 0
    OBVIOUS
  <2>. QED BY <2>1, <2>2, Zenon
<1>. QED BY <1>3, <1>4, <1>7, <1>8, Zenon DEF Aligned, L

(* The bytes of a script.                                                       *)

\* What a script is made of.
LEMMA Commands ==
  ASSUME script \in Scripts
  PROVE  /\ Len(script) \in Nat
         /\ \A i \in 1 .. Len(script) :
              /\ script[i].kind \in Kinds /\ script[i].body \in Nat /\ script[i].body # 1
              /\ script[i].body # 0 <=> script[i].kind \in {"put", "skip"}
              /\ LineSize(i) \in Nat /\ LineSize(i) > 2
              /\ Size(i) \in Nat /\ Size(i) = LineSize(i) + script[i].body
<1>1. script \in Seq(Command) /\ DOMAIN script = 1 .. Len(script) /\ Len(script) \in Nat
  BY ScriptsAssumption
<1>2. ASSUME NEW i \in 1 .. Len(script)
      PROVE  /\ script[i] \in [kind : Kinds, line : Nat, body : Nat] /\ script[i].line > 0
             /\ IF script[i].kind \in {"put", "skip"} THEN script[i].body > 1
                                                      ELSE script[i].body = 0
  <2>1. script[i] \in Command
    BY <1>1, ElementOfSeq
  <2>. QED BY <1>1, <2>1, ScriptsAssumption DEF Command
<1>3. ASSUME NEW i \in 1 .. Len(script)
      PROVE  /\ script[i].kind \in Kinds /\ script[i].body \in Nat /\ script[i].body # 1
             /\ script[i].body # 0 <=> script[i].kind \in {"put", "skip"}
             /\ script[i].line \in Nat /\ script[i].line > 0
  <2>1. script[i].kind \in Kinds /\ script[i].body \in Nat /\ script[i].line \in Nat
    BY <1>2
  <2>2. CASE script[i].kind \in {"put", "skip"}
    BY <1>2, <2>1, <2>2
  <2>3. CASE script[i].kind \notin {"put", "skip"}
    BY <1>2, <2>1, <2>3
  <2>. QED BY <2>2, <2>3
<1>. QED BY <1>1, <1>3 DEF LineSize, Size

\* A byte is known by its command and its place.
LEMMA ByteParts ==
  ASSUME NEW i, NEW k
  PROVE  Byte(i, k).cmd = i /\ Byte(i, k).at = k
BY DEF Byte

LEMMA InBytes ==
  ASSUME script \in Scripts, NEW b \in Bytes
  PROVE  /\ b.cmd \in 1 .. Len(script) /\ b.at \in 1 .. Size(b.cmd) /\ b = Byte(b.cmd, b.at)
         /\ b.at \in Nat
<1>1. PICK i \in 1 .. Len(script) : \E k \in 1 .. Size(i) : b = Byte(i, k)
  BY DEF Bytes
<1>2. PICK k \in 1 .. Size(i) : b = Byte(i, k)
  BY <1>1
<1>. QED BY <1>2, ByteParts, Commands

\* Lines and bodies end with \r\n, and have no other \r.
LEMMA Chars ==
  ASSUME script \in Scripts, NEW i \in 1 .. Len(script), NEW k \in 1 .. Size(i)
  PROVE  /\ Byte(i, k).chr = "\r" <=> k = LineSize(i) - 1 \/ (script[i].body # 0 /\ k = Size(i) - 1)
         /\ k = LineSize(i) \/ k = Size(i) => Byte(i, k).chr = "\n"
<1>1. /\ LineSize(i) \in Nat /\ LineSize(i) > 2 /\ Size(i) = LineSize(i) + script[i].body
      /\ script[i].body \in Nat /\ script[i].body # 1
  BY Commands
<1>2. CASE script[i].body = 0
  BY <1>1, <1>2 DEF Byte
<1>3. CASE script[i].body # 0
  BY <1>1, <1>3 DEF Byte
<1>. QED BY <1>2, <1>3

\* The body of a command, byte by byte.
LEMMA BodyBytes ==
  ASSUME script \in Scripts, NEW i \in 1 .. Len(script)
  PROVE  /\ Body(i) \in Seq(Bytes) /\ Len(Body(i)) = script[i].body
         /\ \A k \in 1 .. script[i].body : Body(i)[k] = Byte(i, LineSize(i) + k)
<1>1. /\ LineSize(i) \in Nat /\ LineSize(i) > 2 /\ Size(i) = LineSize(i) + script[i].body
      /\ script[i].body \in Nat /\ Size(i) \in Nat
  BY Commands
<1>2. Text(i) \in Seq(Bytes) /\ Len(Text(i)) = Size(i)
  <2>1. \A k \in 1 .. Size(i) : Byte(i, k) \in Bytes
    BY DEF Bytes
  <2>. QED BY <1>1, <2>1 DEF Text
<1>3. \A k \in 1 .. Size(i) : Text(i)[k] = Byte(i, k)
  BY DEF Text
<1>4. /\ \A k \in LineSize(i) + 1 .. Size(i) : Text(i)[k] \in Bytes
      /\ LineSize(i) + 1 \in Int /\ Size(i) \in Int
  BY <1>1, <1>2, ElementOfSeq
<1>5. /\ Body(i) \in Seq(Bytes)
      /\ Len(Body(i)) = IF LineSize(i) + 1 <= Size(i) THEN Size(i) - (LineSize(i) + 1) + 1 ELSE 0
      /\ \A k \in 1 .. Size(i) - (LineSize(i) + 1) + 1 : Body(i)[k] = Text(i)[(LineSize(i) + 1) + k - 1]
  BY <1>4, SubSeqProperties DEF Body
<1>6. ASSUME NEW k \in 1 .. script[i].body
      PROVE  /\ (LineSize(i) + 1) + k - 1 = LineSize(i) + k /\ LineSize(i) + k \in 1 .. Size(i)
             /\ k \in 1 .. Size(i) - (LineSize(i) + 1) + 1
  <2>1. PICK a, b \in Nat : a = LineSize(i) /\ b = script[i].body /\ Size(i) = a + b
    BY <1>1
  <2>2. k \in 1 .. b
    BY <2>1
  <2>3. (a + 1) + k - 1 = a + k /\ a + k \in 1 .. a + b /\ k \in 1 .. (a + b) - (a + 1) + 1
    BY <2>2
  <2>. QED BY <2>1, <2>3, Zenon
<1>7. \A k \in 1 .. script[i].body : Body(i)[k] = Byte(i, LineSize(i) + k)
  BY <1>3, <1>5, <1>6
<1>8. Len(Body(i)) = script[i].body
  BY <1>1, <1>5
<1>. QED BY <1>5, <1>7, <1>8

(* What lines leave over.                                                       *)

LEMMA LeftOvers ==
  ASSUME NEW n \in Nat
  PROVE  LeftOver(n) \in {0, 1}
BY DEF LeftOver

LEMMA BehindType ==
  ASSUME script \in Scripts, NEW i \in 1 .. Len(script), NEW d \in {0, 1}
  PROVE  Behind(i, d) \in {0, 1}
BY Commands, LeftOvers, SMTT(30) DEF Behind

\* The definition of Before makes sense.
LEMMA BeforeDef ==
  ASSUME script \in Scripts
  PROVE  Before = [i \in 1 .. Len(script) |-> IF i = 1 THEN 0 ELSE Behind(i - 1, Before[i - 1])]
<1>. DEFINE Upto(n, f) == f = [i \in 1 .. n |-> IF i = 1 THEN 0 ELSE Behind(i - 1, f[i - 1])]
            S == {n \in Nat : \E f : Upto(n, f)}
<1>1. 0 \in S
  <2>1. Upto(0, [i \in 1 .. 0 |-> 0])
    OBVIOUS
  <2>. QED BY <2>1
<1>2. ASSUME NEW n \in Nat, n \in S  PROVE n + 1 \in S
  <2>1. PICK f : Upto(n, f)
    BY <1>2
  <2>. DEFINE g == [i \in 1 .. n + 1 |-> IF i = 1 THEN 0 ELSE Behind(i - 1, f[i - 1])]
  <2>2. \A i \in 1 .. n : g[i] = f[i]
    BY <2>1
  <2>. HIDE DEF g
  <2>3. ASSUME NEW i \in 1 .. n + 1, i # 1  PROVE g[i - 1] = f[i - 1]
    <3>1. i - 1 \in 1 .. n
      BY <2>3
    <3>. QED BY <2>2, <3>1
  <2>4. g = [i \in 1 .. n + 1 |-> IF i = 1 THEN 0 ELSE Behind(i - 1, g[i - 1])]
    BY <2>3 DEF g
  <2>. QED BY <2>4
<1>. HIDE DEF S
<1>3. Len(script) \in S
  BY <1>1, <1>2, AllNaturals, Commands
<1>4. \E f : f = [i \in 1 .. Len(script) |-> IF i = 1 THEN 0 ELSE Behind(i - 1, f[i - 1])]
  BY <1>3 DEF S
<1>. QED BY <1>4 DEF Before

\* At most one byte comes before a line, none before the first.
LEMMA BeforeFacts ==
  ASSUME script \in Scripts
  PROVE  \A i \in 1 .. Len(script) :
           /\ Before[i] \in {0, 1}
           /\ i = 1 => Before[i] = 0
           /\ i > 1 => Before[i] = Behind(i - 1, Before[i - 1])
<1>1. \A i \in 1 .. Len(script) : Before[i] = IF i = 1 THEN 0 ELSE Behind(i - 1, Before[i - 1])
  BY BeforeDef
<1>. DEFINE S == {n \in Nat : n + 1 \in 1 .. Len(script) => Before[n + 1] \in {0, 1}}
<1>2. 0 \in S
  BY <1>1
<1>3. ASSUME NEW n \in Nat, n \in S  PROVE n + 1 \in S
  <2>1. SUFFICES ASSUME (n + 1) + 1 \in 1 .. Len(script)  PROVE Before[(n + 1) + 1] \in {0, 1}
    OBVIOUS
  <2>2. n + 1 \in 1 .. Len(script) /\ ((n + 1) + 1) - 1 = n + 1 /\ (n + 1) + 1 # 1
    BY <2>1, Commands
  <2>3. Before[n + 1] \in {0, 1}
    BY <1>3, <2>2
  <2>4. Before[(n + 1) + 1] = Behind(n + 1, Before[n + 1])
    BY <1>1, <2>1, <2>2
  <2>. QED BY <2>2, <2>3, <2>4, BehindType
<1>. HIDE DEF S
<1>4. Nat \subseteq S
  BY <1>2, <1>3, AllNaturals
<1>5. ASSUME NEW i \in 1 .. Len(script)  PROVE Before[i] \in {0, 1}
  <2>1. i - 1 \in S /\ (i - 1) + 1 = i
    BY <1>4
  <2>. QED BY <2>1 DEF S
<1>. QED BY <1>1, <1>5

\* A command that was run as it was sent leaves nothing over.
LEMMA ProperNext ==
  ASSUME script \in Scripts, NEW i \in 1 .. Len(script), Proper(i)
  PROVE  /\ Before[i] = 0 /\ LineSize(i) <= LineBufSize
         /\ i + 1 \in 1 .. Len(script) => Before[i + 1] = 0
<1>1. Before[i] = 0 /\ LineSize(i) <= LineBufSize /\ LineSize(i) \in Nat
  BY BeforeFacts, Commands, SizesAssumption DEF Proper, TooLong, Damaged
<1>2. LeftOver(LineSize(i) + 0) = 0
  BY <1>1, SizesAssumption DEF LeftOver
<1>3. Behind(i, 0) = 0
  BY <1>1, <1>2 DEF Behind
<1>4. i + 1 \in 1 .. Len(script) => Before[i + 1] = Behind(i, Before[i])
  BY BeforeFacts
<1>. QED BY <1>1, <1>3, <1>4

(* Pieces of the script.                                                        *)

\* What is left of a sequence without its first n elements.
LEMMA DropFacts ==
  ASSUME NEW S, NEW s \in Seq(S), NEW n \in 0 .. Len(s)
  PROVE  /\ Drop(s, n) \in Seq(S) /\ Len(Drop(s, n)) = Len(s) - n
         /\ \A k \in 1 .. Len(s) - n : Drop(s, n)[k] = s[n + k]
<1>1. /\ n + 1 \in Int /\ Len(s) \in Int /\ Len(s) \in Nat /\ n \in Nat
      /\ \A k \in n + 1 .. Len(s) : s[k] \in S
  BY ElementOfSeq, LenProperties
<1>2. /\ Drop(s, n) \in Seq(S)
      /\ Len(Drop(s, n)) = IF n + 1 <= Len(s) THEN Len(s) - (n + 1) + 1 ELSE 0
      /\ \A k \in 1 .. Len(s) - (n + 1) + 1 : Drop(s, n)[k] = s[(n + 1) + k - 1]
  BY <1>1, SubSeqProperties DEF Drop
<1>3. Len(Drop(s, n)) = Len(s) - n
  BY <1>1, <1>2
<1>4. ASSUME NEW k \in 1 .. Len(s) - n
      PROVE  k \in 1 .. Len(s) - (n + 1) + 1 /\ (n + 1) + k - 1 = n + k
  BY <1>1
<1>5. \A k \in 1 .. Len(s) - n : Drop(s, n)[k] = s[n + k]
  BY <1>2, <1>4
<1>. QED BY <1>2, <1>3, <1>5

LEMMA FrontFacts ==
  ASSUME NEW S, NEW s \in Seq(S), NEW n \in 0 .. Len(s)
  PROVE  /\ SubSeq(s, 1, n) \in Seq(S) /\ Len(SubSeq(s, 1, n)) = n
         /\ \A k \in 1 .. n : SubSeq(s, 1, n)[k] = s[k]
<1>1. 1 \in Int /\ n \in Int /\ \A k \in 1 .. n : s[k] \in S
  BY ElementOfSeq, LenProperties
<1>2. /\ SubSeq(s, 1, n) \in Seq(S)
      /\ Len(SubSeq(s, 1, n)) = IF 1 <= n THEN n - 1 + 1 ELSE 0
      /\ \A k \in 1 .. n - 1 + 1 : SubSeq(s, 1, n)[k] = s[1 + k - 1]
  BY <1>1, SubSeqProperties
<1>3. Len(SubSeq(s, 1, n)) = n
  BY <1>1, <1>2
<1>4. ASSUME NEW k \in 1 .. n  PROVE k \in 1 .. n - 1 + 1 /\ 1 + k - 1 = k
  BY <1>1
<1>5. \A k \in 1 .. n : SubSeq(s, 1, n)[k] = s[k]
  BY <1>2, <1>4
<1>. QED BY <1>2, <1>3, <1>5

\* Bytes are taken from the front only.
LEMMA DropConcat ==
  ASSUME NEW S, NEW s \in Seq(S), NEW t \in Seq(S), NEW n \in 0 .. Len(s)
  PROVE  Drop(s, n) \o t = Drop(s \o t, n)
<1>. DEFINE u == s \o t
            d == Drop(s, n)
<1>1. /\ u \in Seq(S) /\ Len(u) = Len(s) + Len(t)
      /\ \A k \in 1 .. Len(s) + Len(t) : u[k] = IF k <= Len(s) THEN s[k] ELSE t[k - Len(s)]
  BY ConcatProperties
<1>2. /\ d \in Seq(S) /\ Len(d) = Len(s) - n
      /\ \A k \in 1 .. Len(s) - n : d[k] = s[n + k]
  BY DropFacts
<1>3. Len(s) \in Nat /\ Len(t) \in Nat
  BY LenProperties
<1>4. /\ d \o t \in Seq(S) /\ Len(d \o t) = Len(d) + Len(t)
      /\ \A k \in 1 .. Len(d) + Len(t) : (d \o t)[k] = IF k <= Len(d) THEN d[k] ELSE t[k - Len(d)]
  BY <1>2, ConcatProperties
<1>. HIDE DEF u, d
<1>5. n \in 0 .. Len(u)
  BY <1>1, <1>3
<1>6. /\ Drop(u, n) \in Seq(S) /\ Len(Drop(u, n)) = Len(u) - n
      /\ \A k \in 1 .. Len(u) - n : Drop(u, n)[k] = u[n + k]
  BY <1>1, <1>5, DropFacts, ZenonT(30)
<1>7. Len(d \o t) = Len(Drop(u, n))
  BY <1>1, <1>2, <1>3, <1>4, <1>6
<1>8. ASSUME NEW k \in 1 .. Len(d \o t)  PROVE (d \o t)[k] = Drop(u, n)[k]
  <2>1. /\ k \in 1 .. Len(d) + Len(t) /\ k \in 1 .. Len(u) - n /\ n + k \in 1 .. Len(s) + Len(t)
        /\ k <= Len(d) <=> n + k <= Len(s)
        /\ k - Len(d) = (n + k) - Len(s)
        /\ k <= Len(d) => k \in 1 .. Len(s) - n
    BY <1>1, <1>2, <1>3, <1>4
  <2>2. (d \o t)[k] = IF k <= Len(d) THEN d[k] ELSE t[k - Len(d)]
    BY <1>4, <2>1
  <2>3. Drop(u, n)[k] = IF n + k <= Len(s) THEN s[n + k] ELSE t[(n + k) - Len(s)]
    BY <1>1, <1>6, <2>1
  <2>4. k <= Len(d) => d[k] = s[n + k]
    BY <1>2, <2>1
  <2>. QED BY <2>1, <2>2, <2>3, <2>4
<1>9. d \o t = Drop(u, n)
  BY <1>4, <1>6, <1>7, <1>8, SeqEqual
<1>. QED BY <1>9 DEF u, d

\* What is left of a piece is a piece.
LEMMA RunDrop ==
  ASSUME NEW s, Run(s), NEW n \in 0 .. Len(s)
  PROVE  Run(Drop(s, n))
<1>1. s \in Seq(Bytes) /\ Len(s) \in Nat /\ \A k \in 1 .. Len(s) - 1 : s[k + 1] = After(s[k])
  BY LenProperties DEF Run
<1>2. /\ Drop(s, n) \in Seq(Bytes) /\ Len(Drop(s, n)) = Len(s) - n
      /\ \A k \in 1 .. Len(s) - n : Drop(s, n)[k] = s[n + k]
  BY <1>1, DropFacts
<1>3. ASSUME NEW k \in 1 .. Len(Drop(s, n)) - 1  PROVE Drop(s, n)[k + 1] = After(Drop(s, n)[k])
  <2>1. /\ k \in 1 .. Len(s) - n /\ k + 1 \in 1 .. Len(s) - n
        /\ n + k \in 1 .. Len(s) - 1 /\ n + (k + 1) = (n + k) + 1
    BY <1>1, <1>2
  <2>. QED BY <1>1, <1>2, <2>1
<1>. QED BY <1>2, <1>3 DEF Run

\* From its first byte on, the bytes of a piece are known.
LEMMA Along ==
  ASSUME script \in Scripts, NEW s \in Seq(Bytes), Run(s), Len(s) > 0,
         NEW i, NEW k, s[1] = Byte(i, k)
  PROVE  /\ i \in 1 .. Len(script) /\ k \in 1 .. Size(i)
         /\ \A j \in 1 .. Len(s) : k + j - 1 <= Size(i) => s[j] = Byte(i, k + j - 1)
         /\ \A j \in 1 .. Len(s) : k + j - 1 = Size(i) + 1 =>
                                     i + 1 \in 1 .. Len(script) /\ s[j] = Byte(i + 1, 1)
<1>1. /\ s \in Seq(Bytes) /\ Len(s) \in Nat /\ Len(s) > 0
      /\ \A j \in 1 .. Len(s) - 1 : s[j + 1] = After(s[j])
      /\ \A j \in 1 .. Len(s) : s[j] \in Bytes
  BY LenProperties, ElementOfSeq DEF Run
<1>2. i \in 1 .. Len(script) /\ k \in 1 .. Size(i) /\ Size(i) \in Nat /\ k \in Nat /\ i \in Nat
  BY <1>1, InBytes, ByteParts, Commands
<1>. DEFINE S == {n \in Nat : n + 1 \in 1 .. Len(s) /\ k + n <= Size(i) => s[n + 1] = Byte(i, k + n)}
<1>3. 0 \in S
  BY <1>2
<1>4. ASSUME NEW n \in Nat, n \in S  PROVE n + 1 \in S
  <2>1. SUFFICES ASSUME (n + 1) + 1 \in 1 .. Len(s), k + (n + 1) <= Size(i)
                 PROVE  s[(n + 1) + 1] = Byte(i, k + (n + 1))
    OBVIOUS
  <2>2. n + 1 \in 1 .. Len(s) /\ n + 1 \in 1 .. Len(s) - 1 /\ k + n < Size(i) /\ k + n <= Size(i)
    BY <1>1, <1>2, <2>1
  <2>3. s[n + 1] = Byte(i, k + n)
    BY <1>4, <2>2
  <2>4. s[(n + 1) + 1] = After(Byte(i, k + n))
    BY <1>1, <2>2, <2>3
  <2>5. After(Byte(i, k + n)) = Byte(i, (k + n) + 1)
    BY <2>2, ByteParts DEF After
  <2>6. (k + n) + 1 = k + (n + 1)
    BY <1>2
  <2>. QED BY <2>4, <2>5, <2>6
<1>. HIDE DEF S
<1>5. Nat \subseteq S
  BY <1>3, <1>4, AllNaturals
<1>6. ASSUME NEW j \in 1 .. Len(s), k + j - 1 <= Size(i)  PROVE s[j] = Byte(i, k + j - 1)
  <2>1. j - 1 \in S /\ (j - 1) + 1 = j /\ k + (j - 1) = k + j - 1
    BY <1>1, <1>2, <1>5
  <2>2. (j - 1) + 1 \in 1 .. Len(s) /\ k + (j - 1) <= Size(i) => s[(j - 1) + 1] = Byte(i, k + (j - 1))
    BY <2>1 DEF S
  <2>. QED BY <1>6, <2>1, <2>2
<1>7. ASSUME NEW j \in 1 .. Len(s), k + j - 1 = Size(i) + 1
      PROVE  i + 1 \in 1 .. Len(script) /\ s[j] = Byte(i + 1, 1)
  <2>1. /\ j - 1 \in 1 .. Len(s) /\ j - 1 \in 1 .. Len(s) - 1 /\ k + (j - 1) - 1 = Size(i)
        /\ (j - 1) + 1 = j
    <3>1. PICK n, z \in Nat : n = Len(s) /\ z = Size(i)
      BY <1>1, <1>2
    <3>2. k \in 1 .. z /\ j \in 1 .. n /\ k + j - 1 = z + 1
      BY <1>2, <1>7, <3>1
    <3>3. j - 1 \in 1 .. n /\ j - 1 \in 1 .. n - 1 /\ k + (j - 1) - 1 = z /\ (j - 1) + 1 = j
      BY <3>2
    <3>. QED BY <3>1, <3>3
  <2>2. s[j - 1] = Byte(i, Size(i))
    BY <1>2, <1>6, <2>1
  <2>3. s[j] = After(Byte(i, Size(i)))
    BY <1>1, <2>1, <2>2
  <2>4. s[j] = Byte(i + 1, 1)
    BY <1>2, <2>3, ByteParts DEF After
  <2>. QED BY <1>1, <2>4, InBytes, ByteParts
<1>. QED BY <1>2, <1>6, <1>7

(* Lines.                                                                       *)

\* How far the end of the line is that begins with b, for the server.
ToEnd(b) ==
  LET i == b.cmd IN
  IF b.at = Size(i) THEN 1 + LineSize(i + 1)
  ELSE IF b.at = LineSize(i) THEN 1 + script[i].body
  ELSE IF b.at < LineSize(i) THEN LineSize(i) - b.at + 1 ELSE Size(i) - b.at + 1

\* The first \r\n is found.
LEMMA Scan ==
  ASSUME NEW s \in Seq(Bytes), NEW m \in Nat, m > 1,
         \A j \in 1 .. Len(s) : /\ j < m - 1 => s[j].chr # "\r"
                                /\ j = m - 1 => s[j].chr = "\r"
                                /\ j = m => s[j].chr = "\n"
  PROVE  ScanEol(s) = IF Len(s) >= m THEN m ELSE 0
<1>. DEFINE crs == {p \in 1 .. Len(s) - 1 : s[p].chr = "\r"}
<1>1. Len(s) \in Nat
  BY LenProperties
<1>2. CASE Len(s) < m
  <2>1. crs = {}
    BY <1>1, <1>2
  <2>. QED BY <1>1, <1>2, <2>1 DEF ScanEol
<1>3. CASE Len(s) >= m
  <2>1. m - 1 \in crs /\ \A p \in crs : m - 1 <= p
    BY <1>1, <1>3
  <2>2. Min(crs) = m - 1
    <3>1. \A x, y \in crs : x <= y /\ y <= x => x = y
      OBVIOUS
    <3>. QED BY <2>1, <3>1 DEF Min
  <2>3. s[Min(crs) + 1].chr = "\n" /\ Min(crs) + 1 = m
    BY <1>1, <1>3, <2>2
  <2>. QED BY <1>1, <1>3, <2>1, <2>3 DEF ScanEol
<1>. QED BY <1>1, <1>2, <1>3

\* Where the \r is in what is left from k on of a line of a bytes and a body of b.
LEMMA LinePlaces ==
  ASSUME NEW a \in Nat, a > 2, NEW b \in Nat, b # 1, NEW k \in Nat, k > 0, k < a + b, NEW m,
         m = IF k = a THEN 1 + b ELSE IF k < a THEN a - k + 1 ELSE (a + b) - k + 1
  PROVE  /\ m \in Nat /\ m > 1 /\ k + m - 1 <= a + b
         /\ \A j \in Nat : j > 0 /\ j <= m =>
              /\ k + j - 1 \in 1 .. a + b
              /\ k + j - 1 = a - 1 \/ (b # 0 /\ k + j - 1 = (a + b) - 1) <=> j = m - 1
              /\ j = m => k + j - 1 = a \/ k + j - 1 = a + b
<1>1. CASE k < a
  BY <1>1
<1>2. CASE k = a
  BY <1>2
<1>3. CASE k > a
  BY <1>3
<1>. QED BY <1>1, <1>2, <1>3

\* Where the \r and the \n of the line are.
LEMMA LineChars ==
  ASSUME script \in Scripts, NEW s \in Seq(Bytes), Run(s), Len(s) > 1
  PROVE  /\ ToEnd(s[1]) \in Nat /\ ToEnd(s[1]) > 1
         /\ \A j \in 1 .. Len(s) : /\ j < ToEnd(s[1]) - 1 => s[j].chr # "\r"
                                   /\ j = ToEnd(s[1]) - 1 => s[j].chr = "\r"
                                   /\ j = ToEnd(s[1]) => s[j].chr = "\n"
<1>. DEFINE i == s[1].cmd
            k == s[1].at
            m == ToEnd(s[1])
<1>1. Len(s) \in Nat /\ s[1] \in Bytes
  <2>1. Len(s) \in Nat
    BY LenProperties
  <2>2. 1 \in 1 .. Len(s)
    BY <2>1
  <2>. QED BY <2>1, <2>2, ElementOfSeq
<1>2. s[1] = Byte(i, k) /\ i \in 1 .. Len(script) /\ k \in 1 .. Size(i) /\ k \in Nat
  BY <1>1, InBytes
<1>3. m = IF k = Size(i) THEN 1 + LineSize(i + 1)
          ELSE IF k = LineSize(i) THEN 1 + script[i].body
          ELSE IF k < LineSize(i) THEN LineSize(i) - k + 1 ELSE Size(i) - k + 1
  BY DEF ToEnd
<1>. HIDE DEF i, k, m
<1>4. /\ LineSize(i) \in Nat /\ LineSize(i) > 2 /\ Size(i) = LineSize(i) + script[i].body
      /\ script[i].body \in Nat /\ script[i].body # 1
  BY <1>2, Commands
<1>5. /\ \A j \in 1 .. Len(s) : k + j - 1 <= Size(i) => s[j] = Byte(i, k + j - 1)
      /\ \A j \in 1 .. Len(s) : k + j - 1 = Size(i) + 1 =>
                                  i + 1 \in 1 .. Len(script) /\ s[j] = Byte(i + 1, 1)
  BY <1>1, <1>2, Along
<1>6. CASE k # Size(i)
  <2>1. k > 0 /\ k < LineSize(i) + script[i].body
    BY <1>2, <1>4, <1>6
  <2>2. m = IF k = LineSize(i) THEN 1 + script[i].body
            ELSE IF k < LineSize(i) THEN LineSize(i) - k + 1
                 ELSE (LineSize(i) + script[i].body) - k + 1
    BY <1>3, <1>4, <1>6
  <2>3. /\ m \in Nat /\ m > 1
        /\ \A j \in Nat : j > 0 /\ j <= m =>
             /\ k + j - 1 \in 1 .. Size(i)
             /\ k + j - 1 = LineSize(i) - 1 \/ (script[i].body # 0 /\ k + j - 1 = Size(i) - 1)
                <=> j = m - 1
             /\ j = m => k + j - 1 = LineSize(i) \/ k + j - 1 = Size(i)
    <3>1. PICK a, b \in Nat : a = LineSize(i) /\ b = script[i].body
      BY <1>4
    <3>2. /\ m \in Nat /\ m > 1
          /\ \A j \in Nat : j > 0 /\ j <= m =>
               /\ k + j - 1 \in 1 .. a + b
               /\ k + j - 1 = a - 1 \/ (b # 0 /\ k + j - 1 = (a + b) - 1) <=> j = m - 1
               /\ j = m => k + j - 1 = a \/ k + j - 1 = a + b
      <4>1. /\ a > 2 /\ b # 1 /\ k \in Nat /\ k > 0 /\ k < a + b
            /\ m = IF k = a THEN 1 + b ELSE IF k < a THEN a - k + 1 ELSE (a + b) - k + 1
        BY <1>2, <1>4, <2>1, <2>2, <3>1
      <4>. QED BY <4>1, LinePlaces
    <3>3. Size(i) = a + b
      BY <1>4, <3>1
    <3>. QED BY <3>1, <3>2, <3>3, Zenon
  <2>4. ASSUME NEW j \in 1 .. Len(s), j <= m
        PROVE  /\ s[j].chr = "\r" <=> j = m - 1
               /\ j = m => s[j].chr = "\n"
    <3>1. j \in Nat /\ j > 0
      OBVIOUS
    <3>2. k + j - 1 \in 1 .. Size(i)
      BY <2>3, <2>4, <3>1
    <3>3. s[j] = Byte(i, k + j - 1)
      BY <1>4, <1>5, <3>2
    <3>4. PICK p \in 1 .. Size(i) : p = k + j - 1
      BY <3>2
    <3>5. /\ Byte(i, p).chr = "\r" <=> p = LineSize(i) - 1 \/ (script[i].body # 0 /\ p = Size(i) - 1)
          /\ p = LineSize(i) \/ p = Size(i) => Byte(i, p).chr = "\n"
      BY <1>2, Chars
    <3>. QED BY <2>3, <2>4, <3>1, <3>3, <3>4, <3>5
  <2>5. ASSUME NEW j \in 1 .. Len(s)
        PROVE  /\ j < m - 1 => s[j].chr # "\r"
               /\ j = m - 1 => s[j].chr = "\r"
               /\ j = m => s[j].chr = "\n"
    <3>1. /\ j < m - 1 => j <= m /\ j # m - 1
          /\ j = m - 1 => j <= m
          /\ j = m => j <= m
      BY <2>3
    <3>. QED BY <2>4, <3>1
  <2>. QED BY <2>3, <2>5 DEF m
<1>8. CASE k = Size(i)
  <2>. DEFINE t == Drop(s, 1)
  <2>1. Run(t) /\ Len(t) = Len(s) - 1 /\ t \in Seq(Bytes) /\ \A j \in 1 .. Len(s) - 1 : t[j] = s[1 + j]
    <3>1. 1 \in 0 .. Len(s)
      BY <1>1, <1>8
    <3>. QED BY <1>1, <3>1, RunDrop, DropFacts
  <2>2. i + 1 \in 1 .. Len(script) /\ s[2] = Byte(i + 1, 1)
    BY <1>1, <1>2, <1>5, <1>8
  <2>3. t[1] = Byte(i + 1, 1) /\ Len(t) > 0
    BY <1>1, <2>1, <2>2
  <2>. HIDE DEF t
  <2>4. \A j \in 1 .. Len(t) : j <= Size(i + 1) => t[j] = Byte(i + 1, j)
    <3>1. PICK a, b : a = i + 1 /\ b = 1
      OBVIOUS
    <3>2. t[1] = Byte(a, b)
      BY <2>3, <3>1
    <3>3. \A j \in 1 .. Len(t) : b + j - 1 <= Size(a) => t[j] = Byte(a, b + j - 1)
      BY <2>1, <2>3, <3>2, Along
    <3>4. \A j \in 1 .. Len(t) : b + j - 1 = j
      BY <3>1
    <3>. QED BY <3>1, <3>3, <3>4
  <2>5. /\ LineSize(i + 1) \in Nat /\ LineSize(i + 1) > 2 /\ script[i + 1].body \in Nat
        /\ Size(i + 1) = LineSize(i + 1) + script[i + 1].body /\ script[i + 1].body # 1
    BY <2>2, Commands
  <2>6. m = 1 + LineSize(i + 1) /\ m \in Nat /\ m > 1
    BY <1>3, <1>8, <2>5
  <2>7. ASSUME NEW j \in 2 .. Len(s), j <= m
        PROVE  /\ s[j] = Byte(i + 1, j - 1) /\ j - 1 \in 1 .. Size(i + 1) /\ j - 1 <= LineSize(i + 1)
    <3>1. j - 1 \in 1 .. Len(t) /\ 1 + (j - 1) = j /\ j - 1 <= LineSize(i + 1)
      BY <1>1, <2>1, <2>5, <2>6, <2>7
    <3>2. j - 1 <= Size(i + 1)
      BY <2>5, <3>1
    <3>. QED BY <2>1, <2>4, <3>1, <3>2
  <2>8. ASSUME NEW j \in 2 .. Len(s), j <= m
        PROVE  /\ s[j].chr = "\r" <=> j - 1 = LineSize(i + 1) - 1
               /\ j = m => s[j].chr = "\n"
    <3>1. s[j] = Byte(i + 1, j - 1) /\ j - 1 \in 1 .. Size(i + 1) /\ j - 1 <= LineSize(i + 1)
      BY <2>7, <2>8
    <3>2. /\ Byte(i + 1, j - 1).chr = "\r" <=>
               j - 1 = LineSize(i + 1) - 1 \/ (script[i + 1].body # 0 /\ j - 1 = Size(i + 1) - 1)
          /\ j - 1 = LineSize(i + 1) => Byte(i + 1, j - 1).chr = "\n"
      BY <2>2, <3>1, Chars
    <3>3. ~ (script[i + 1].body # 0 /\ j - 1 = Size(i + 1) - 1)
      BY <2>5, <3>1
    <3>4. j = m => j - 1 = LineSize(i + 1)
      BY <2>5, <2>6
    <3>. QED BY <3>1, <3>2, <3>3, <3>4
  <2>9. s[1].chr # "\r"
    BY <1>2, <1>4, <1>8, Chars
  <2>10. ASSUME NEW j \in 1 .. Len(s)
         PROVE  /\ j < m - 1 => s[j].chr # "\r"
                /\ j = m - 1 => s[j].chr = "\r"
                /\ j = m => s[j].chr = "\n"
    <3>1. CASE j = 1
      BY <2>5, <2>6, <2>9, <3>1
    <3>2. CASE j # 1
      <4>1. j \in 2 .. Len(s)
        BY <3>2
      <4>. QED BY <2>5, <2>6, <2>8, <4>1
    <3>. QED BY <3>1, <3>2
  <2>. QED BY <2>6, <2>10 DEF m
<1>. QED BY <1>6, <1>8

\* What is left over, n bytes of a line having been refused.
LEMMA Offsets ==
  /\ LineBufSize \in Nat /\ LineBufSize > 2 /\ Aligned(0) /\ Aligned(LineBufSize)
  /\ \A n \in Nat : Aligned(n) => Aligned(n + LineBufSize)
  /\ \A n \in Nat, m \in 2 .. LineBufSize : Aligned(n) => LeftOver(n + m) = 0
  /\ \A n \in Nat : Aligned(n) /\ n > 0 => LeftOver(n + 1) = 1
  /\ \A n \in Nat : n <= LineBufSize => LeftOver(n) = 0
<1>1. LineBufSize \in Nat /\ LineBufSize > 2 /\ Aligned(0)
  BY Buffers
<1>2. \A n \in Nat : Aligned(n) => Aligned(n + LineBufSize)
  BY Buffers
<1>3. Aligned(LineBufSize)
  <2>1. 0 + LineBufSize = LineBufSize /\ 0 \in Nat
    BY <1>1
  <2>. QED BY <1>1, <1>2, <2>1
<1>4. ASSUME NEW n \in Nat, NEW m \in 2 .. LineBufSize, Aligned(n)  PROVE LeftOver(n + m) = 0
  <2>1. m - 1 \in 1 .. LineBufSize - 1 /\ n + m \in Nat /\ (n + m) - 1 = n + (m - 1)
    BY <1>1
  <2>2. ~ Aligned(n + (m - 1))
    BY <1>4, <2>1, Buffers
  <2>. QED BY <2>1, <2>2, Buffers
<1>5. ASSUME NEW n \in Nat, Aligned(n), n > 0  PROVE LeftOver(n + 1) = 1
  <2>1. n >= LineBufSize
    BY <1>5, Buffers
  <2>2. n + 1 \in Nat /\ n + 1 > LineBufSize /\ (n + 1) - 1 = n
    BY <1>1, <2>1
  <2>. QED BY <1>5, <2>2, Buffers
<1>6. ASSUME NEW n \in Nat, n <= LineBufSize  PROVE LeftOver(n) = 0
  BY <1>1, <1>6, Buffers
<1>. QED BY <1>1, <1>2, <1>3, <1>4, <1>5, <1>6

\* Which byte comes n bytes later.
LEMMA Later ==
  ASSUME script \in Scripts, NEW s \in Seq(Bytes), Run(s), NEW n \in Nat, n > 0, n < Len(s),
         NEW i, NEW k, s[1] = Byte(i, k)
  PROVE  /\ k + n <= Size(i) => s[n + 1] = Byte(i, k + n)
         /\ k + n = Size(i) + 1 => i + 1 \in 1 .. Len(script) /\ s[n + 1] = Byte(i + 1, 1)
         /\ k = Size(i) => /\ i + 1 \in 1 .. Len(script)
                           /\ n <= Size(i + 1) => s[n + 1] = Byte(i + 1, n)
                           /\ n = 1 + Size(i + 1) => /\ i + 2 \in 1 .. Len(script)
                                                     /\ s[n + 1] = Byte(i + 2, 1)
<1>1. Len(s) \in Nat /\ Len(s) > 0
  <2>1. Len(s) \in Nat
    BY LenProperties
  <2>. QED BY <2>1
<1>2. /\ i \in 1 .. Len(script) /\ k \in 1 .. Size(i)
      /\ \A j \in 1 .. Len(s) : k + j - 1 <= Size(i) => s[j] = Byte(i, k + j - 1)
      /\ \A j \in 1 .. Len(s) : k + j - 1 = Size(i) + 1 =>
                                  i + 1 \in 1 .. Len(script) /\ s[j] = Byte(i + 1, 1)
  BY <1>1, Along
<1>3. Size(i) \in Nat /\ k \in Nat /\ i \in Nat
  BY <1>2, Commands
<1>4. n + 1 \in 1 .. Len(s) /\ k + (n + 1) - 1 = k + n
  <2>1. PICK z \in Nat : z = Len(s)
    BY <1>1
  <2>. QED BY <1>3, <2>1
<1>5. k + n <= Size(i) => s[n + 1] = Byte(i, k + n)
  BY <1>2, <1>4
<1>6. k + n = Size(i) + 1 => i + 1 \in 1 .. Len(script) /\ s[n + 1] = Byte(i + 1, 1)
  BY <1>2, <1>4
<1>7. ASSUME k = Size(i)
      PROVE  /\ i + 1 \in 1 .. Len(script)
             /\ n <= Size(i + 1) => s[n + 1] = Byte(i + 1, n)
             /\ n = 1 + Size(i + 1) => i + 2 \in 1 .. Len(script) /\ s[n + 1] = Byte(i + 2, 1)
  <2>1. PICK z \in Nat, p \in Nat : z = Len(s) /\ p = i + 1
    BY <1>1, <1>3
  <2>2. 2 \in 1 .. z /\ 1 \in 0 .. z /\ z - 1 > 0 /\ k + 2 - 1 = Size(i) + 1 /\ n \in 1 .. z - 1 /\ 1 \in 1 .. z - 1
    BY <1>3, <1>7, <2>1
  <2>3. p \in 1 .. Len(script) /\ s[2] = Byte(p, 1)
    BY <1>2, <2>1, <2>2
  <2>. DEFINE t == Drop(s, 1)
  <2>4. t \in Seq(Bytes) /\ Len(t) = z - 1 /\ \A j \in 1 .. z - 1 : t[j] = s[1 + j]
    BY <2>1, <2>2, DropFacts, ZenonT(40)
  <2>5. Run(t)
    BY <2>1, <2>2, RunDrop
  <2>. HIDE DEF t
  <2>6. t[1] = Byte(p, 1) /\ Len(t) > 0 /\ t[n] = s[n + 1]
    <3>1. 1 + 1 = 2 /\ 1 + n = n + 1
      OBVIOUS
    <3>. QED BY <2>2, <2>3, <2>4, <3>1
  <2>7. PICK q : q = 1 /\ t[1] = Byte(p, q)
    BY <2>6
  <2>8. /\ \A j \in 1 .. z - 1 : q + j - 1 <= Size(p) => t[j] = Byte(p, q + j - 1)
        /\ \A j \in 1 .. z - 1 : q + j - 1 = Size(p) + 1 =>
                                    p + 1 \in 1 .. Len(script) /\ t[j] = Byte(p + 1, 1)
    <3>1. /\ \A j \in 1 .. Len(t) : q + j - 1 <= Size(p) => t[j] = Byte(p, q + j - 1)
          /\ \A j \in 1 .. Len(t) : q + j - 1 = Size(p) + 1 =>
                                      p + 1 \in 1 .. Len(script) /\ t[j] = Byte(p + 1, 1)
      <4>1. t \in Seq(Bytes) /\ Run(t) /\ Len(t) > 0 /\ t[1] = Byte(p, q)
        BY <2>4, <2>5, <2>6, <2>7
      <4>2. p \in 1 .. Len(script) /\ q \in 1 .. Size(p)
        BY <4>1, Along
      <4>3. \A j \in 1 .. Len(t) : q + j - 1 <= Size(p) => t[j] = Byte(p, q + j - 1)
        BY <4>1, Along
      <4>4. \A j \in 1 .. Len(t) : q + j - 1 = Size(p) + 1 =>
                                   p + 1 \in 1 .. Len(script) /\ t[j] = Byte(p + 1, 1)
        BY <4>1, Along
      <4>. QED BY <4>3, <4>4
    <3>. QED BY <2>4, <3>1, Zenon
  <2>9. q + n - 1 = n /\ p + 1 = i + 2
    BY <1>3, <2>1, <2>7
  <2>10. Size(p) \in Nat
    BY <2>3, Commands
  <2>11. n = 1 + Size(p) <=> n = Size(p) + 1
    BY <2>10
  <2>. QED BY <2>1, <2>2, <2>3, <2>6, <2>8, <2>9, <2>11
<1>. QED BY <1>5, <1>6, <1>7

\* The same, the bytes compared out of sight.
At(s, j, i, k) == s[j] = Byte(i, k)

LEMMA LaterAt ==
  ASSUME script \in Scripts, NEW s \in Seq(Bytes), Run(s), NEW n \in Nat, n > 0, n < Len(s),
         NEW i, NEW k, At(s, 1, i, k)
  PROVE  /\ k + n <= Size(i) => At(s, n + 1, i, k + n)
         /\ k + n = Size(i) + 1 => i + 1 \in 1 .. Len(script) /\ At(s, n + 1, i + 1, 1)
         /\ k = Size(i) => /\ i + 1 \in 1 .. Len(script)
                           /\ n <= Size(i + 1) => At(s, n + 1, i + 1, n)
                           /\ n = 1 + Size(i + 1) => /\ i + 2 \in 1 .. Len(script)
                                                     /\ At(s, n + 1, i + 2, 1)
BY Later, SMTT(30) DEF At

\* What a command leaves over, in numbers.
LEMMA Numbers ==
  ASSUME script \in Scripts, NEW i \in 1 .. Len(script)
  PROVE  \E a, b, d, o \in Nat :
           /\ a = LineSize(i) /\ b = script[i].body /\ d = Before[i] /\ o = LeftOver(a + d)
           /\ a > 2 /\ b # 1 /\ d \in {0, 1} /\ o \in {0, 1} /\ Size(i) = a + b
           /\ Proper(i) <=> a + d <= LineBufSize /\ d = 0
           /\ TooLong(i) <=> a + d > LineBufSize
           /\ i + 1 \in 1 .. Len(script) =>
                Before[i + 1] = IF b = 0 \/ Proper(i) THEN o ELSE LeftOver(b + o)
<1>1. PICK a, b, d \in Nat : /\ a = LineSize(i) /\ b = script[i].body /\ d = Before[i]
                             /\ a > 2 /\ b # 1 /\ d \in {0, 1} /\ Size(i) = a + b
  <2>1. LineSize(i) \in Nat /\ LineSize(i) > 2 /\ script[i].body \in Nat /\ script[i].body # 1
        /\ Size(i) = LineSize(i) + script[i].body
    BY Commands
  <2>2. Before[i] \in {0, 1} /\ Before[i] \in Nat
    BY BeforeFacts
  <2>. QED BY <2>1, <2>2
<1>2. PICK o \in Nat : o = LeftOver(a + d) /\ o \in {0, 1}
  <2>1. LeftOver(a + d) \in {0, 1}
    BY LeftOvers
  <2>. QED BY <2>1
<1>3. TooLong(i) <=> a + d > LineBufSize
  BY <1>1 DEF TooLong
<1>4. Proper(i) <=> a + d <= LineBufSize /\ d = 0
  BY <1>1, <1>3, SizesAssumption DEF Proper, Damaged
<1>5. ASSUME i + 1 \in 1 .. Len(script)
      PROVE  Before[i + 1] = IF b = 0 \/ Proper(i) THEN o ELSE LeftOver(b + o)
  <2>1. i + 1 > 1 /\ (i + 1) - 1 = i
    OBVIOUS
  <2>2. Before[i + 1] = Behind(i, d)
    BY <1>1, <1>5, <2>1, BeforeFacts
  <2>3. Behind(i, d) = IF b = 0 \/ (d = 0 /\ a + d <= LineBufSize) THEN o ELSE LeftOver(b + o)
    BY <1>1, <1>2 DEF Behind
  <2>. QED BY <1>4, <2>2, <2>3
<1>. DEFINE Fit(w, x, y, z) ==
       /\ w = LineSize(i) /\ x = script[i].body /\ y = Before[i] /\ z = LeftOver(w + y)
       /\ w > 2 /\ x # 1 /\ y \in {0, 1} /\ z \in {0, 1} /\ Size(i) = w + x
       /\ Proper(i) <=> w + y <= LineBufSize /\ y = 0
       /\ TooLong(i) <=> w + y > LineBufSize
       /\ i + 1 \in 1 .. Len(script) =>
            Before[i + 1] = IF x = 0 \/ Proper(i) THEN z ELSE LeftOver(x + z)
<1>6. Fit(a, b, d, o)
  BY <1>1, <1>2, <1>3, <1>4, <1>5, Zenon
<1>. HIDE DEF Fit
<1>7. \E w, x, y, z \in Nat : Fit(w, x, y, z)
  BY <1>6
<1>. QED BY <1>7 DEF Fit

\* When the first byte of a line is left over from the one before, the line is damaged.
LEMMA LastByte ==
  ASSUME script \in Scripts, NEW i \in 1 .. Len(script), i + 1 \in 1 .. Len(script),
         StartsLine(i, Size(i))
  PROVE  Before[i + 1] = 1
<1>1. PICK a, b, d, o \in Nat :
        /\ a = LineSize(i) /\ b = script[i].body /\ d = Before[i] /\ o = LeftOver(a + d)
        /\ a > 2 /\ b # 1 /\ d \in {0, 1} /\ o \in {0, 1} /\ Size(i) = a + b
        /\ Proper(i) <=> a + d <= LineBufSize /\ d = 0
        /\ TooLong(i) <=> a + d > LineBufSize
        /\ i + 1 \in 1 .. Len(script) =>
             Before[i + 1] = IF b = 0 \/ Proper(i) THEN o ELSE LeftOver(b + o)
  BY Numbers
<1>2. IF a + b <= a THEN Aligned(((a + b) - 1) + d)
      ELSE ~ Proper(i) /\ Aligned(((a + b) - a - 1) + o)
  BY <1>1 DEF StartsLine
<1>3. CASE b = 0
  <2>0. a > 2
    BY <1>1
  <2>1. /\ (a - 1) + d \in Nat /\ (a - 1) + d > 0 /\ ((a - 1) + d) + 1 = a + d
        /\ ((a + b) - 1) + d = (a - 1) + d
    BY <1>3, <2>0
  <2>2. Aligned((a - 1) + d)
    BY <1>2, <1>3, <2>1
  <2>3. o = 1
    BY <1>1, <2>1, <2>2, Offsets
  <2>. QED BY <1>1, <1>3, <2>3
<1>4. CASE b # 0
  <2>0. b # 1
    BY <1>1
  <2>1. /\ (b - 1) + o \in Nat /\ (b - 1) + o > 0 /\ ((b - 1) + o) + 1 = b + o
        /\ ((a + b) - a - 1) + o = (b - 1) + o
    BY <1>4, <2>0
  <2>2. ~ Proper(i) /\ Aligned((b - 1) + o)
    <3>1. ~ (a + b <= a)
      BY <1>4
    <3>. QED BY <1>2, <2>1, <3>1, Zenon
  <2>3. LeftOver(b + o) = 1
    BY <2>1, <2>2, Offsets
  <2>. QED BY <1>1, <1>4, <2>2, <2>3
<1>. QED BY <1>3, <1>4

\* A line may begin with its first byte when nothing was left over.
LEMMA StartsFirst ==
  ASSUME script \in Scripts, NEW i \in 1 .. Len(script), Before[i] = 0
  PROVE  StartsLine(i, 1)
<1>1. 1 <= LineSize(i) /\ (1 - 1) + Before[i] = 0
  BY Commands
<1>. QED BY <1>1, Offsets DEF StartsLine

\* The server reads a line that begins in the line of i: what it reads next begins as
\* a line does.
LEMMA InLine ==
  ASSUME script \in Scripts, NEW i \in 1 .. Len(script), NEW k \in Nat, k > 0, k < LineSize(i),
         StartsLine(i, k)
  PROVE  /\ k + LineBufSize <= LineSize(i) => ~ Proper(i) /\ StartsLine(i, k + LineBufSize)
         /\ k > 1 => ~ Proper(i)
         /\ k > 1 /\ LineSize(i) - k + 1 <= LineBufSize =>
              /\ script[i].body # 0 => StartsLine(i, LineSize(i) + 1)
              /\ script[i].body = 0 /\ i + 1 \in 1 .. Len(script) => StartsLine(i + 1, 1)
<1>1. PICK a, b, d, o \in Nat :
        /\ a = LineSize(i) /\ b = script[i].body /\ d = Before[i] /\ o = LeftOver(a + d)
        /\ a > 2 /\ b # 1 /\ d \in {0, 1} /\ o \in {0, 1} /\ Size(i) = a + b
        /\ Proper(i) <=> a + d <= LineBufSize /\ d = 0
        /\ TooLong(i) <=> a + d > LineBufSize
        /\ i + 1 \in 1 .. Len(script) =>
             Before[i + 1] = IF b = 0 \/ Proper(i) THEN o ELSE LeftOver(b + o)
  BY Numbers
<1>2. Aligned((k - 1) + d) /\ (k > 1 => TooLong(i)) /\ k < a
  <2>1. k <= LineSize(i)
    BY <1>1
  <2>. QED BY <1>1, <2>1 DEF StartsLine
<1>3. LineBufSize \in Nat /\ LineBufSize > 2 /\ Aligned(0)
  BY Offsets
<1>4. k > 1 => ~ Proper(i)
  BY <1>2 DEF Proper
<1>5. ASSUME k + LineBufSize <= a  PROVE ~ Proper(i) /\ StartsLine(i, k + LineBufSize)
  <2>1. a + d > LineBufSize
    BY <1>3, <1>5
  <2>2. (k - 1) + d \in Nat /\ ((k + LineBufSize) - 1) + d = ((k - 1) + d) + LineBufSize
    BY <1>3
  <2>3. Aligned(((k + LineBufSize) - 1) + d)
    BY <1>2, <2>2, Offsets
  <2>4. TooLong(i)
    BY <1>1, <2>1
  <2>. QED BY <1>1, <1>5, <2>3, <2>4 DEF StartsLine, Proper
<1>6. ASSUME k > 1, a - k + 1 <= LineBufSize
      PROVE  /\ b # 0 => StartsLine(i, a + 1)
             /\ b = 0 /\ i + 1 \in 1 .. Len(script) => StartsLine(i + 1, 1)
  <2>1. /\ (k - 1) + d \in Nat /\ a - k + 1 \in 2 .. LineBufSize
        /\ ((k - 1) + d) + (a - k + 1) = a + d
    BY <1>2, <1>3, <1>6
  <2>2. o = 0
    <3>1. PICK n, m \in Nat : n = (k - 1) + d /\ m = a - k + 1
      BY <2>1
    <3>2. m \in 2 .. LineBufSize /\ n + m = a + d /\ Aligned(n)
      BY <1>2, <2>1, <3>1
    <3>3. LeftOver(n + m) = 0
      BY <3>1, <3>2, Offsets
    <3>. QED BY <1>1, <3>2, <3>3, Zenon
  <2>3. ~ (a + 1 <= a) /\ ((a + 1) - a - 1) + o = 0
    BY <2>2
  <2>4. StartsLine(i, a + 1)
    BY <1>1, <1>3, <1>4, <1>6, <2>3 DEF StartsLine
  <2>5. b = 0 /\ i + 1 \in 1 .. Len(script) => Before[i + 1] = 0
    BY <1>1, <2>2
  <2>. QED BY <2>4, <2>5, StartsFirst
<1>. QED BY <1>1, <1>4, <1>5, <1>6

\* One that begins in the body of i, or with the \n before it.
LEMMA InBody ==
  ASSUME script \in Scripts, NEW i \in 1 .. Len(script), NEW k \in Nat,
         k >= LineSize(i), k < Size(i), StartsLine(i, k)
  PROVE  /\ ~ Proper(i)
         /\ k + LineBufSize <= Size(i) => StartsLine(i, k + LineBufSize)
         /\ i + 1 \in 1 .. Len(script) /\ Size(i) - k + 1 <= LineBufSize => StartsLine(i + 1, 1)
<1>1. PICK a, b, d, o \in Nat :
        /\ a = LineSize(i) /\ b = script[i].body /\ d = Before[i] /\ o = LeftOver(a + d)
        /\ a > 2 /\ b # 1 /\ d \in {0, 1} /\ o \in {0, 1} /\ Size(i) = a + b
        /\ Proper(i) <=> a + d <= LineBufSize /\ d = 0
        /\ TooLong(i) <=> a + d > LineBufSize
        /\ i + 1 \in 1 .. Len(script) =>
             Before[i + 1] = IF b = 0 \/ Proper(i) THEN o ELSE LeftOver(b + o)
  BY Numbers
<1>3. LineBufSize \in Nat /\ LineBufSize > 2 /\ Aligned(0) /\ Aligned(LineBufSize)
  BY Offsets
<1>2. PICK e \in Nat : /\ e = (k - a) + o /\ ~ Proper(i) /\ b # 0
                       /\ k = a => e = 1
                       /\ k > a => e > 0 /\ Aligned(e - 1)
  <2>1. CASE k = a
    <3>1. Aligned((a - 1) + d) /\ (a > 1 => TooLong(i)) /\ a > 2
      BY <1>1, <2>1 DEF StartsLine
    <3>2. (a - 1) + d \in Nat /\ (a - 1) + d > 0 /\ ((a - 1) + d) + 1 = a + d /\ a > 1
      BY <3>1
    <3>3. o = 1 /\ TooLong(i)
      BY <1>1, <3>1, <3>2, Offsets
    <3>4. (k - a) + o = 1 /\ b # 0
      BY <1>1, <2>1, <3>3
    <3>. QED BY <2>1, <3>3, <3>4 DEF Proper
  <2>2. CASE k > a
    <3>1. ~ Proper(i) /\ Aligned((k - a - 1) + o)
      <4>1. ~ (k <= a)
        BY <2>2
      <4>. QED BY <1>1, <4>1 DEF StartsLine
    <3>2. (k - a) + o \in Nat /\ (k - a) + o > 0 /\ ((k - a) + o) - 1 = (k - a - 1) + o
      BY <2>2
    <3>3. b # 0 /\ ~ (k = a)
      BY <1>1, <2>2
    <3>. QED BY <2>2, <3>1, <3>2, <3>3
  <2>. QED BY <1>1, <2>1, <2>2
<1>4. ASSUME k + LineBufSize <= a + b  PROVE StartsLine(i, k + LineBufSize)
  <2>1. ~ (k + LineBufSize <= a)
    BY <1>1, <1>3
  <2>2. Aligned(((k + LineBufSize) - a - 1) + o)
    <3>1. CASE k = a
      <4>1. ((k + LineBufSize) - a - 1) + o = LineBufSize
        BY <1>2, <1>3, <3>1
      <4>. QED BY <1>3, <4>1
    <3>2. CASE k > a
      <4>1. e - 1 \in Nat /\ ((k + LineBufSize) - a - 1) + o = (e - 1) + LineBufSize
        BY <1>2, <1>3, <3>2
      <4>. QED BY <1>2, <3>2, <4>1, Offsets
    <3>. QED BY <1>1, <3>1, <3>2
  <2>. QED BY <1>1, <1>2, <2>1, <2>2 DEF StartsLine
<1>5. ASSUME i + 1 \in 1 .. Len(script), (a + b) - k + 1 <= LineBufSize  PROVE StartsLine(i + 1, 1)
  <2>1. LeftOver(b + o) = 0
    <3>1. CASE k = a
      <4>1. b + o \in Nat /\ b + o <= LineBufSize
        BY <1>2, <1>3, <1>5, <3>1
      <4>. QED BY <4>1, Offsets
    <3>2. CASE k > a
      <4>1. /\ e - 1 \in Nat /\ (a + b) - k + 1 \in 2 .. LineBufSize
            /\ (e - 1) + ((a + b) - k + 1) = b + o
        <5>1. e = (k - a) + o /\ e > 0 /\ k < a + b
          BY <1>1, <1>2, <3>2
        <5>. QED BY <1>3, <1>5, <3>2, <5>1
      <4>. QED BY <1>2, <3>2, <4>1, Offsets, ZenonT(40)
    <3>. QED BY <1>1, <3>1, <3>2
  <2>2. Before[i + 1] = 0
    BY <1>1, <1>2, <1>5, <2>1
  <2>. QED BY <1>5, <2>2, StartsFirst
<1>. QED BY <1>1, <1>2, <1>4, <1>5

\* One that begins with the \n that was left over from the command before i.
LEMMA InNext ==
  ASSUME script \in Scripts, NEW i \in 1 .. Len(script), Before[i] = 1
  PROVE  /\ ~ Proper(i)
         /\ LineBufSize <= LineSize(i) => StartsLine(i, LineBufSize)
         /\ 1 + LineSize(i) <= LineBufSize =>
              /\ script[i].body # 0 => StartsLine(i, LineSize(i) + 1)
              /\ script[i].body = 0 /\ i + 1 \in 1 .. Len(script) => StartsLine(i + 1, 1)
<1>1. PICK a, b, d, o \in Nat :
        /\ a = LineSize(i) /\ b = script[i].body /\ d = Before[i] /\ o = LeftOver(a + d)
        /\ a > 2 /\ b # 1 /\ d \in {0, 1} /\ o \in {0, 1} /\ Size(i) = a + b
        /\ Proper(i) <=> a + d <= LineBufSize /\ d = 0
        /\ TooLong(i) <=> a + d > LineBufSize
        /\ i + 1 \in 1 .. Len(script) =>
             Before[i + 1] = IF b = 0 \/ Proper(i) THEN o ELSE LeftOver(b + o)
  BY Numbers
<1>2. d = 1 /\ ~ Proper(i)
  BY <1>1
<1>3. LineBufSize \in Nat /\ LineBufSize > 2 /\ Aligned(0) /\ Aligned(LineBufSize)
  BY Offsets
<1>4. ASSUME LineBufSize <= a  PROVE StartsLine(i, LineBufSize)
  <2>1. a + d > LineBufSize /\ (LineBufSize - 1) + d = LineBufSize
    BY <1>2, <1>3, <1>4
  <2>2. TooLong(i)
    BY <1>1, <2>1
  <2>. QED BY <1>1, <1>3, <1>4, <2>1, <2>2 DEF StartsLine
<1>5. ASSUME 1 + a <= LineBufSize
      PROVE  /\ StartsLine(i, a + 1)
             /\ b = 0 /\ i + 1 \in 1 .. Len(script) => StartsLine(i + 1, 1)
  <2>1. a + d \in Nat /\ a + d <= LineBufSize
    BY <1>2, <1>3, <1>5
  <2>2. o = 0
    BY <1>1, <2>1, Offsets
  <2>3. ~ (a + 1 <= a) /\ ((a + 1) - a - 1) + o = 0
    BY <2>2
  <2>4. StartsLine(i, a + 1)
    BY <1>1, <1>2, <1>3, <2>3 DEF StartsLine
  <2>5. b = 0 /\ i + 1 \in 1 .. Len(script) => Before[i + 1] = 0
    BY <1>1, <2>2
  <2>. QED BY <2>4, <2>5, StartsFirst
<1>. QED BY <1>1, <1>2, <1>4, <1>5

\* Where the line after next begins, when the server reads one, or a full buffer,
\* that is not the line of a command it will run.
LEMMA NextLine ==
  ASSUME script \in Scripts, NEW i \in 1 .. Len(script), NEW k \in Nat, k > 0, k <= Size(i),
         StartsLine(i, k), k = Size(i) => i + 1 \in 1 .. Len(script),
         NEW m,
         m = IF k = Size(i) THEN 1 + LineSize(i + 1)
             ELSE IF k = LineSize(i) THEN 1 + script[i].body
             ELSE IF k < LineSize(i) THEN LineSize(i) - k + 1 ELSE Size(i) - k + 1,
         NEW n \in Nat,
         \/ n = m /\ n <= LineBufSize /\ k > 1
         \/ n = LineBufSize /\ n < m
  PROVE  /\ ~ Proper(i)
         /\ \/ k + n <= Size(i) /\ StartsLine(i, k + n)
            \/ k + n = Size(i) + 1 /\ (i + 1 \in 1 .. Len(script) => StartsLine(i + 1, 1))
            \/ k = Size(i) /\ n <= Size(i + 1) /\ ~ Proper(i + 1) /\ StartsLine(i + 1, n)
            \/ /\ k = Size(i) /\ n = 1 + Size(i + 1) /\ ~ Proper(i + 1)
               /\ i + 2 \in 1 .. Len(script) => StartsLine(i + 2, 1)
<1>1. PICK a, b, L \in Nat : /\ a = LineSize(i) /\ b = script[i].body /\ a > 2 /\ b # 1 /\ Size(i) = a + b
                             /\ L = LineBufSize /\ L > 2
  BY Commands, SizesAssumption
\* It begins in the line of i.
<1>2. CASE k < a
  <2>1. /\ k + L <= a => ~ Proper(i) /\ StartsLine(i, k + L)
        /\ k > 1 => ~ Proper(i)
        /\ k > 1 /\ a - k + 1 <= L =>
              /\ b # 0 => StartsLine(i, a + 1)
              /\ b = 0 /\ i + 1 \in 1 .. Len(script) => StartsLine(i + 1, 1)
    <3>1. k < LineSize(i)
      BY <1>1, <1>2
    <3>. QED BY <1>1, <3>1, InLine, Zenon
  <2>2. m = a - k + 1
    <3>1. k # a + b /\ k # a
      BY <1>1, <1>2
    <3>. QED BY <1>1, <1>2, <3>1, Zenon
  <2>3. CASE n = m /\ n <= L /\ k > 1
    <3>1. CASE b # 0
      <4>1. k + n = a + 1 /\ a + 1 <= a + b
        BY <2>2, <2>3, <3>1
      <4>. QED BY <1>1, <2>1, <2>2, <2>3, <3>1, <4>1, Zenon
    <3>2. CASE b = 0
      <4>1. k + n = (a + b) + 1
        BY <2>2, <2>3, <3>2
      <4>. QED BY <1>1, <2>1, <2>2, <2>3, <3>2, <4>1, Zenon
    <3>. QED BY <3>1, <3>2
  <2>4. CASE n = L /\ n < m
    <3>1. k + L <= a /\ k + L <= a + b
      BY <2>2, <2>4
    <3>. QED BY <1>1, <2>1, <2>4, <3>1, Zenon
  <2>. QED BY <1>1, <2>3, <2>4, Zenon
\* It begins in the body of i, or just before it.
<1>3. CASE k >= a /\ k < a + b
  <2>1. /\ ~ Proper(i)
        /\ k + L <= a + b => StartsLine(i, k + L)
        /\ i + 1 \in 1 .. Len(script) /\ (a + b) - k + 1 <= L => StartsLine(i + 1, 1)
    <3>1. k >= LineSize(i) /\ k < Size(i)
      BY <1>1, <1>3
    <3>. QED BY <1>1, <3>1, InBody, Zenon
  <2>2. m = (a + b) - k + 1
    <3>1. k # a + b /\ ~ (k < a) /\ (k = a => 1 + b = (a + b) - k + 1)
      BY <1>3
    <3>. QED BY <1>1, <3>1, Zenon
  <2>3. CASE n = m /\ n <= L
    <3>1. k + n = (a + b) + 1
      BY <2>2, <2>3
    <3>. QED BY <1>1, <2>1, <2>2, <2>3, <3>1, Zenon
  <2>4. CASE n = L /\ n < m
    <3>1. k + L <= a + b
      BY <2>2, <2>4
    <3>. QED BY <1>1, <2>1, <2>4, <3>1, Zenon
  <2>. QED BY <1>1, <2>3, <2>4, Zenon
\* It begins with the last byte of i.
<1>4. CASE k = a + b
  <2>1. PICK j \in 1 .. Len(script) : j = i + 1
    BY <1>1, <1>4
  <2>2. Before[j] = 1
    BY <1>1, <1>4, <2>1, LastByte
  <2>3. ~ Proper(i)
    BY <2>1, <2>2, ProperNext
  <2>4. PICK c, d \in Nat : c = LineSize(j) /\ d = script[j].body /\ Size(j) = c + d
    BY <2>1, Commands
  <2>5. /\ ~ Proper(j)
        /\ L <= c => StartsLine(j, L)
        /\ 1 + c <= L => /\ d # 0 => StartsLine(j, c + 1)
                         /\ d = 0 /\ j + 1 \in 1 .. Len(script) => StartsLine(j + 1, 1)
    BY <1>1, <2>2, <2>4, InNext, Zenon
  <2>6. m = 1 + c
    BY <1>1, <1>4, <2>1, <2>4, Zenon
  <2>7. j + 1 = i + 2
    BY <2>1
  <2>8. CASE n = m /\ n <= L
    <3>1. CASE d # 0
      <4>1. n = c + 1 /\ n <= c + d
        BY <2>6, <2>8, <3>1
      <4>. QED BY <1>1, <1>4, <2>1, <2>3, <2>4, <2>5, <2>6, <2>8, <3>1, <4>1, Zenon
    <3>2. CASE d = 0
      <4>1. n = 1 + (c + d)
        BY <2>6, <2>8, <3>2
      <4>. QED BY <1>1, <1>4, <2>1, <2>3, <2>4, <2>5, <2>6, <2>7, <2>8, <3>2, <4>1, Zenon
    <3>. QED BY <3>1, <3>2
  <2>9. CASE n = L /\ n < m
    <3>1. L <= c /\ n <= c + d
      BY <2>6, <2>9
    <3>. QED BY <1>1, <1>4, <2>1, <2>3, <2>4, <2>5, <2>9, <3>1, Zenon
  <2>. QED BY <1>1, <2>8, <2>9, Zenon
<1>. QED
  <2>1. k < a \/ (k >= a /\ k < a + b) \/ k = a + b
    <3>1. k <= a + b
      BY <1>1
    <3>. QED BY <3>1
  <2>. QED BY <1>2, <1>3, <1>4, <2>1

\* The server reads a line that is not the line of a command it will run: it is not
\* that of a proper command, and what is read next begins as a line does.
LEMMA LineGoesOn ==
  ASSUME script \in Scripts, NEW s \in Seq(Bytes), Run(s), Len(s) > 1, LineStart(s[1]),
         NEW n \in Nat, n <= Len(s),
         \/ n = ToEnd(s[1]) /\ n <= LineBufSize /\ s[1].at > 1
         \/ n = LineBufSize /\ n < ToEnd(s[1])
  PROVE  /\ ~ Proper(s[1].cmd)
         /\ n < Len(s) => /\ LineStart(s[n + 1])
                          /\ \A q \in 1 .. Len(script) :
                               /\ Passed(q, s[1]) => Passed(q, s[n + 1])
                               /\ Proper(q) /\ Passed(q, s[n + 1]) => Passed(q, s[1])
<1>1. Len(s) \in Nat /\ s[1] \in Bytes
  <2>1. Len(s) \in Nat
    BY LenProperties
  <2>2. 1 \in 1 .. Len(s)
    BY <2>1
  <2>. QED BY <2>1, <2>2, ElementOfSeq
<1>2. PICK i \in 1 .. Len(script), k \in Nat :
        s[1] = Byte(i, k) /\ k > 0 /\ k <= Size(i)
  BY <1>1, InBytes, Commands, SMTT(30)
<1>13. i = s[1].cmd /\ k = s[1].at
  BY <1>2, ByteParts
<1>3. PICK m : m = ToEnd(s[1]) /\ m > 1
  BY LineChars
<1>4. n > 0
  <2>1. n = m \/ n = LineBufSize
    BY <1>3
  <2>. QED BY <1>3, <2>1, SizesAssumption
<1>5. k = Size(i) => i + 1 \in 1 .. Len(script)
  <2>1. PICK z \in Nat : z > 0 /\ z < Len(s)
    OBVIOUS
  <2>. QED BY <1>2, <2>1, Later, Zenon
<1>6. /\ ~ Proper(i)
      /\ \/ k + n <= Size(i) /\ StartsLine(i, k + n)
         \/ k + n = Size(i) + 1 /\ (i + 1 \in 1 .. Len(script) => StartsLine(i + 1, 1))
         \/ k = Size(i) /\ n <= Size(i + 1) /\ ~ Proper(i + 1) /\ StartsLine(i + 1, n)
         \/ /\ k = Size(i) /\ n = 1 + Size(i + 1) /\ ~ Proper(i + 1)
            /\ i + 2 \in 1 .. Len(script) => StartsLine(i + 2, 1)
  <2>1. StartsLine(i, k)
    BY <1>13 DEF LineStart
  <2>2. m = IF k = Size(i) THEN 1 + LineSize(i + 1)
            ELSE IF k = LineSize(i) THEN 1 + script[i].body
            ELSE IF k < LineSize(i) THEN LineSize(i) - k + 1 ELSE Size(i) - k + 1
    BY <1>3, <1>13 DEF ToEnd
  <2>3. \/ n = m /\ n <= LineBufSize /\ k > 1
        \/ n = LineBufSize /\ n < m
    BY <1>3, <1>13
  <2>. QED BY <1>2, <1>5, <2>1, <2>2, <2>3, NextLine, Zenon
<1>7. SUFFICES ASSUME n < Len(s)
               PROVE  /\ LineStart(s[n + 1])
                      /\ \A q \in 1 .. Len(script) :
                               /\ Passed(q, s[1]) => Passed(q, s[n + 1])
                               /\ Proper(q) /\ Passed(q, s[n + 1]) => Passed(q, s[1])
  BY <1>6, <1>13
<1>8. /\ k + n <= Size(i) => s[n + 1] = Byte(i, k + n)
      /\ k + n = Size(i) + 1 => i + 1 \in 1 .. Len(script) /\ s[n + 1] = Byte(i + 1, 1)
      /\ k = Size(i) => /\ n <= Size(i + 1) => s[n + 1] = Byte(i + 1, n)
                        /\ n = 1 + Size(i + 1) => i + 2 \in 1 .. Len(script)
                                                  /\ s[n + 1] = Byte(i + 2, 1)
  <2>1. At(s, 1, i, k)
    BY <1>2 DEF At
  <2>2. /\ k + n <= Size(i) => At(s, n + 1, i, k + n)
        /\ k + n = Size(i) + 1 => i + 1 \in 1 .. Len(script) /\ At(s, n + 1, i + 1, 1)
        /\ k = Size(i) => /\ n <= Size(i + 1) => At(s, n + 1, i + 1, n)
                          /\ n = 1 + Size(i + 1) => /\ i + 2 \in 1 .. Len(script)
                                                    /\ At(s, n + 1, i + 2, 1)
    BY <1>4, <1>7, <2>1, LaterAt, Zenon
  <2>. QED BY <2>2, Zenon DEF At
<1>9. PICK p, r \in Nat :
        /\ s[n + 1] = Byte(p, r) /\ StartsLine(p, r)
        /\ \/ p = i /\ r > k
           \/ p = i + 1 /\ (r > 1 => ~ Proper(p))
           \/ p = i + 2 /\ r = 1 /\ ~ Proper(i + 1)
  <2>1. k + n \in Nat /\ k + n > k /\ i \in Nat /\ i + 1 \in Nat /\ i + 2 \in Nat /\ ~ (1 > 1) /\ 1 \in Nat
    BY <1>4
  <2>. QED BY <1>6, <1>8, <2>1, Zenon
<1>10. s[n + 1].cmd = p /\ s[n + 1].at = r
  BY <1>9, ByteParts
<1>11. LineStart(s[n + 1])
  BY <1>9, <1>10 DEF LineStart
<1>12. ASSUME NEW q \in 1 .. Len(script)
       PROVE  /\ Passed(q, s[1]) => Passed(q, s[n + 1])
              /\ Proper(q) /\ Passed(q, s[n + 1]) => Passed(q, s[1])
  <2>1. /\ Passed(q, s[1]) <=> q < i \/ (q = i /\ k > 1)
        /\ Passed(q, s[n + 1]) <=> q < p \/ (q = p /\ r > 1)
    BY <1>2, <1>10, <1>13 DEF Passed
  <2>2. Passed(q, s[1]) => Passed(q, s[n + 1])
    BY <1>2, <1>9, <2>1
  <2>3. ASSUME Proper(q), Passed(q, s[n + 1])  PROVE Passed(q, s[1])
    <3>1. q # i /\ ~ (q = i + 1 /\ p = i + 2) /\ ~ (q = p /\ p = i + 1 /\ r > 1)
      <4>1. i + 2 # i + 1
        OBVIOUS
      <4>2. p = i + 2 => ~ Proper(i + 1)
        <5>1. i + 2 # i
          OBVIOUS
        <5>. QED BY <1>9, <4>1, <5>1, Zenon
      <4>3. p = i + 1 /\ r > 1 => ~ Proper(p)
        <5>1. i + 1 # i
          OBVIOUS
        <5>. QED BY <1>9, <4>1, <5>1, Zenon
      <4>. QED BY <1>6, <2>3, <4>2, <4>3, Zenon
    <3>2. q < i
      BY <1>2, <1>9, <2>1, <2>3, <3>1
    <3>. QED BY <2>1, <3>2
  <2>. QED BY <2>2, <2>3
<1>. QED BY <1>11, <1>12

\* The server reads the line of i from its first byte on, and it fits.
LEMMA CommandLine ==
  ASSUME script \in Scripts, NEW s \in Seq(Bytes), Run(s), Len(s) > 1, LineStart(s[1]),
         s[1].at = 1, NEW n \in Nat, n = ToEnd(s[1]), n <= LineBufSize
  PROVE  \E i \in 1 .. Len(script) :
         /\ Proper(i) /\ s[1] = Byte(i, 1) /\ n = LineSize(i)
         /\ n < Len(s) =>
              /\ script[i].body = 0 => s[n + 1] = Byte(i + 1, 1) /\ LineStart(s[n + 1])
              /\ script[i].body # 0 => s[n + 1] = Byte(i, LineSize(i) + 1)
<1>1. Len(s) \in Nat /\ 1 \in 1 .. Len(s) /\ s[1] \in Bytes
  <2>1. Len(s) \in Nat
    BY LenProperties
  <2>2. 1 \in 1 .. Len(s)
    BY <2>1
  <2>. QED BY <2>1, <2>2, ElementOfSeq
<1>2. PICK i \in 1 .. Len(script) : s[1] = Byte(i, 1)
  BY <1>1, InBytes
<1>11. s[1].cmd = i
  BY <1>2, ByteParts
<1>3. PICK a, b \in Nat : a = LineSize(i) /\ b = script[i].body /\ a > 2 /\ b # 1 /\ Size(i) = a + b
  BY <1>2, Commands
<1>4. LineBufSize \in Nat /\ LineBufSize > 2
  BY SizesAssumption
<1>5. n = a
  BY <1>3, <1>11 DEF ToEnd
<1>6. Aligned((1 - 1) + Before[i]) /\ Before[i] \in {0, 1}
  <2>1. 1 <= LineSize(i)
    BY <1>3
  <2>. QED BY <1>11, <2>1, BeforeFacts DEF LineStart, StartsLine
<1>7. Before[i] = 0
  <2>1. SUFFICES ASSUME Before[i] = 1  PROVE FALSE
    BY <1>6
  <2>2. Aligned(1)
    <3>1. (1 - 1) + 1 = 1
      OBVIOUS
    <3>. QED BY <1>6, <2>1, <3>1
  <2>. QED BY <1>4, <2>2, Buffers
<1>8. Proper(i)
  BY <1>3, <1>4, <1>5, <1>7 DEF Proper, TooLong, Damaged
<1>9. ASSUME n < Len(s), b = 0  PROVE s[n + 1] = Byte(i + 1, 1) /\ LineStart(s[n + 1])
  <2>1. n > 0 /\ 1 + n = Size(i) + 1
    BY <1>3, <1>5, <1>9
  <2>2. i + 1 \in 1 .. Len(script) /\ s[n + 1] = Byte(i + 1, 1)
    <3>1. PICK k \in Nat : k = 1
      OBVIOUS
    <3>2. At(s, 1, i, k)
      BY <1>2, <3>1 DEF At
    <3>3. i + 1 \in 1 .. Len(script) /\ At(s, n + 1, i + 1, 1)
      BY <1>9, <2>1, <3>1, <3>2, LaterAt, Zenon
    <3>. QED BY <3>3, Zenon DEF At
  <2>3. StartsLine(i + 1, 1)
    BY <1>2, <1>8, <2>2, ProperNext, StartsFirst
  <2>. QED BY <2>2, <2>3, ByteParts DEF LineStart
<1>10. ASSUME n < Len(s), b # 0  PROVE s[n + 1] = Byte(i, a + 1)
  <2>1. n > 0 /\ 1 + n <= Size(i) /\ 1 + n = a + 1 /\ 1 \in Nat
    BY <1>3, <1>5, <1>10
  <2>2. s[n + 1] = Byte(i, 1 + n)
    <3>1. PICK k \in Nat : k = 1
      OBVIOUS
    <3>2. At(s, 1, i, k)
      BY <1>2, <3>1 DEF At
    <3>3. At(s, n + 1, i, k + n)
      BY <1>10, <2>1, <3>1, <3>2, LaterAt, Zenon
    <3>. QED BY <3>1, <3>3, Zenon DEF At
  <2>. QED BY <2>1, <2>2
<1>. QED BY <1>2, <1>3, <1>5, <1>8, <1>9, <1>10

(* The commands that were run.                                                  *)

\* The same commands are before c as before b.
LEMMA HandledMoves ==
  ASSUME NEW tk, NEW b, NEW c, Handled(tk, b), tk \in Seq(Bytes), script \in Scripts,
         \A q \in 1 .. Len(script) : /\ Passed(q, b) => Passed(q, c)
                                     /\ Proper(q) /\ Passed(q, c) => Passed(q, b)
  PROVE  Handled(tk, c)
<1>1. ASSUME NEW k \in DOMAIN tk, tk[k].at = 1  PROVE Passed(tk[k].cmd, c)
  <2>1. tk[k].cmd \in 1 .. Len(script)
    BY InBytes, ElementOfSeq
  <2>2. Passed(tk[k].cmd, b)
    BY <1>1 DEF Handled
  <2>. QED BY <2>1, <2>2
<1>. QED BY <1>1 DEF Handled

\* A line is run that is not a command.
LEMMA TakeStray ==
  ASSUME script \in Scripts, NEW tk \in Seq(Bytes), NEW b \in Bytes, b.at > 1, ~ Proper(b.cmd),
         InOrder(tk), Strays(tk)
  PROVE  /\ InOrder(Append(tk, b)) /\ Strays(Append(tk, b)) /\ Append(tk, b) \in Seq(Bytes)
         /\ \A c : Handled(tk, c) => Handled(Append(tk, b), c)
<1>. DEFINE tk2 == Append(tk, b)
<1>1. PICK z \in Nat : z = Len(tk) /\ DOMAIN tk = 1 .. z
  BY LenProperties
<1>2. /\ tk2 \in Seq(Bytes) /\ DOMAIN tk2 = 1 .. z + 1
      /\ \A k \in 1 .. z : tk2[k] = tk[k]
      /\ tk2[z + 1] = b
  BY <1>1, AppendProperties
<1>. HIDE DEF tk2
<1>3. b.at # 1
  OBVIOUS
<1>4. ASSUME NEW k \in 1 .. z  PROVE k \in 1 .. z + 1 /\ \A j \in 1 .. k - 1 : j \in 1 .. z
  BY <1>1
<1>5. ASSUME NEW k \in 1 .. z + 1, k \notin 1 .. z  PROVE k = z + 1
  BY <1>1, <1>5
<1>6. InOrder(tk2)
  <2>. SUFFICES ASSUME NEW k \in 1 .. z + 1, tk2[k].at = 1
                PROVE  /\ Proper(tk2[k].cmd)
                       /\ \A i \in 1 .. Len(script) :
                            (i < tk2[k].cmd /\ Proper(i)) <=> \E j \in 1 .. k - 1 : tk2[j] = Byte(i, 1)
    BY <1>2 DEF InOrder
  <2>1. k \in 1 .. z
    BY <1>2, <1>3, <1>5
  <2>2. /\ Proper(tk[k].cmd)
        /\ \A i \in 1 .. Len(script) :
             (i < tk[k].cmd /\ Proper(i)) <=> \E j \in 1 .. k - 1 : tk[j] = Byte(i, 1)
    BY <1>1, <1>2, <2>1 DEF InOrder
  <2>3. tk2[k] = tk[k] /\ \A j \in 1 .. k - 1 : tk2[j] = tk[j]
    BY <1>2, <1>4, <2>1
  <2>. QED BY <2>2, <2>3
<1>7. Strays(tk2)
  <2>. SUFFICES ASSUME NEW k \in 1 .. z + 1, tk2[k].at > 1  PROVE ~ Proper(tk2[k].cmd)
    BY <1>2 DEF Strays
  <2>1. CASE k \in 1 .. z
    BY <1>1, <1>2, <2>1 DEF Strays
  <2>2. CASE k \notin 1 .. z
    BY <1>2, <1>5, <2>2
  <2>. QED BY <2>1, <2>2
<1>8. ASSUME NEW c, Handled(tk, c)  PROVE Handled(tk2, c)
  <2>1. ASSUME NEW k \in 1 .. z + 1, tk2[k].at = 1  PROVE Passed(tk2[k].cmd, c)
    <3>1. k \in 1 .. z
      BY <1>2, <1>3, <1>5, <2>1
    <3>. QED BY <1>1, <1>2, <1>8, <2>1, <3>1 DEF Handled
  <2>2. ASSUME NEW i \in 1 .. Len(script), Proper(i), Passed(i, c)
        PROVE  \E k \in 1 .. z + 1 : tk2[k] = Byte(i, 1)
    <3>1. PICK k \in 1 .. z : tk[k] = Byte(i, 1)
      BY <1>1, <1>8, <2>2 DEF Handled
    <3>. QED BY <1>2, <1>4, <3>1
  <2>. QED BY <1>2, <2>1, <2>2 DEF Handled
<1>. QED BY <1>2, <1>6, <1>7, <1>8 DEF tk2

\* The line of a proper command is run.
LEMMA TakeCommand ==
  ASSUME script \in Scripts, NEW tk \in Seq(Bytes), NEW i \in 1 .. Len(script), Proper(i),
         InOrder(tk), Strays(tk), Handled(tk, Byte(i, 1))
  PROVE  /\ InOrder(Append(tk, Byte(i, 1))) /\ Strays(Append(tk, Byte(i, 1)))
         /\ Append(tk, Byte(i, 1)) \in Seq(Bytes)
         /\ \A c : (c.cmd = i /\ c.at > 1) \/ (c.cmd = i + 1 /\ c.at = 1)
                   => Handled(Append(tk, Byte(i, 1)), c)
<1>. DEFINE b == Byte(i, 1)
            tk2 == Append(tk, b)
<1>1. PICK z \in Nat : z = Len(tk) /\ DOMAIN tk = 1 .. z
  BY LenProperties
<1>2. /\ b \in Bytes /\ b.cmd = i /\ b.at = 1
  <2>1. 1 \in 1 .. Size(i)
    BY Commands, SMTT(30)
  <2>. QED BY <2>1, ByteParts DEF Bytes
<1>. HIDE DEF b
<1>3. /\ tk2 \in Seq(Bytes) /\ DOMAIN tk2 = 1 .. z + 1
      /\ \A k \in 1 .. z : tk2[k] = tk[k]
      /\ tk2[z + 1] = b
  BY <1>1, <1>2, AppendProperties
<1>. HIDE DEF tk2
<1>4. ASSUME NEW k \in 1 .. z  PROVE k \in 1 .. z + 1 /\ \A j \in 1 .. k - 1 : j \in 1 .. z
  BY <1>1
<1>5. ASSUME NEW k \in 1 .. z + 1, k \notin 1 .. z  PROVE k = z + 1
  BY <1>1, <1>5
<1>6. \A q : Passed(q, b) <=> q < i
  BY <1>2 DEF Passed
\* The commands run so far are the proper ones before i.
<1>7. ASSUME NEW q \in 1 .. Len(script)
      PROVE  (q < i /\ Proper(q)) <=> \E j \in 1 .. z : tk[j] = Byte(q, 1)
  <2>1. q < i /\ Proper(q) => \E j \in 1 .. z : tk[j] = Byte(q, 1)
    BY <1>1, <1>6 DEF Handled, b
  <2>2. ASSUME NEW j \in 1 .. z, tk[j] = Byte(q, 1)  PROVE q < i /\ Proper(q)
    <3>1. tk[j].at = 1 /\ tk[j].cmd = q
      BY <2>2, ByteParts
    <3>2. Proper(tk[j].cmd) /\ Passed(tk[j].cmd, b)
      BY <1>1, <3>1 DEF InOrder, Handled, b
    <3>. QED BY <1>6, <3>1, <3>2
  <2>. QED BY <2>1, <2>2
<1>8. InOrder(tk2)
  <2>. SUFFICES ASSUME NEW k \in 1 .. z + 1, tk2[k].at = 1
                PROVE  /\ Proper(tk2[k].cmd)
                       /\ \A q \in 1 .. Len(script) :
                            (q < tk2[k].cmd /\ Proper(q)) <=> \E j \in 1 .. k - 1 : tk2[j] = Byte(q, 1)
    BY <1>3 DEF InOrder
  <2>1. CASE k \in 1 .. z
    <3>2. /\ Proper(tk[k].cmd)
          /\ \A q \in 1 .. Len(script) :
               (q < tk[k].cmd /\ Proper(q)) <=> \E j \in 1 .. k - 1 : tk[j] = Byte(q, 1)
      BY <1>1, <1>3, <2>1 DEF InOrder
    <3>3. tk2[k] = tk[k] /\ \A j \in 1 .. k - 1 : tk2[j] = tk[j]
      BY <1>3, <1>4, <2>1
    <3>. QED BY <3>2, <3>3
  <2>2. CASE k \notin 1 .. z
    <3>1. k = z + 1 /\ k - 1 = z
      BY <1>5, <2>2
    <3>2. tk2[k].cmd = i /\ Proper(tk2[k].cmd)
      BY <1>2, <1>3, <3>1
    <3>3. \A j \in 1 .. k - 1 : tk2[j] = tk[j]
      BY <1>3, <3>1
    <3>. QED BY <1>7, <3>1, <3>2, <3>3
  <2>. QED BY <2>1, <2>2
<1>9. Strays(tk2)
  <2>. SUFFICES ASSUME NEW k \in 1 .. z + 1, tk2[k].at > 1  PROVE ~ Proper(tk2[k].cmd)
    BY <1>3 DEF Strays
  <2>1. CASE k \in 1 .. z
    BY <1>1, <1>3, <2>1 DEF Strays
  <2>2. CASE k \notin 1 .. z
    BY <1>2, <1>3, <1>5, <2>2
  <2>. QED BY <2>1, <2>2
<1>10. ASSUME NEW c, (c.cmd = i /\ c.at > 1) \/ (c.cmd = i + 1 /\ c.at = 1)  PROVE Handled(tk2, c)
  <2>1. \A q \in 1 .. Len(script) : Passed(q, c) <=> q < i \/ q = i
    BY <1>10 DEF Passed
  <2>2. ASSUME NEW k \in 1 .. z + 1, tk2[k].at = 1  PROVE Passed(tk2[k].cmd, c)
    <3>1. CASE k \in 1 .. z
      <4>1. tk[k].cmd \in 1 .. Len(script) /\ Passed(tk[k].cmd, b) /\ tk2[k] = tk[k]
        BY <1>1, <1>3, <2>2, <3>1, InBytes, ElementOfSeq DEF Handled, b
      <4>. QED BY <1>6, <2>1, <4>1
    <3>2. CASE k \notin 1 .. z
      <4>1. tk2[k].cmd = i
        BY <1>2, <1>3, <1>5, <3>2
      <4>. QED BY <2>1, <4>1
    <3>. QED BY <3>1, <3>2
  <2>3. ASSUME NEW q \in 1 .. Len(script), Proper(q), Passed(q, c)
        PROVE  \E k \in 1 .. z + 1 : tk2[k] = Byte(q, 1)
    <3>1. CASE q < i
      <4>1. PICK j \in 1 .. z : tk[j] = Byte(q, 1)
        BY <1>7, <2>3, <3>1
      <4>. QED BY <1>3, <1>4, <4>1
    <3>2. CASE q = i
      BY <1>3, <3>2 DEF b
    <3>. QED BY <2>1, <2>3, <3>1, <3>2
  <2>. QED BY <1>3, <2>2, <2>3 DEF Handled
<1>. QED BY <1>3, <1>8, <1>9, <1>10 DEF tk2, b

(* What a read brings.                                                          *)

\* The front of a piece is a piece.
LEMMA RunFront ==
  ASSUME NEW s \in Seq(Bytes), NEW t \in Seq(Bytes), Run(s \o t)
  PROVE  Run(s)
<1>. DEFINE u == s \o t
<1>1. /\ u \in Seq(Bytes) /\ Len(u) = Len(s) + Len(t) /\ Len(s) \in Nat /\ Len(t) \in Nat
      /\ \A k \in 1 .. Len(s) + Len(t) : u[k] = IF k <= Len(s) THEN s[k] ELSE t[k - Len(s)]
  BY ConcatProperties, LenProperties
<1>2. \A k \in 1 .. Len(u) - 1 : u[k + 1] = After(u[k])
  BY DEF Run
<1>. HIDE DEF u
<1>3. ASSUME NEW k \in 1 .. Len(s) - 1  PROVE s[k + 1] = After(s[k])
  <2>1. /\ k \in 1 .. Len(u) - 1 /\ k \in 1 .. Len(s) + Len(t) /\ k + 1 \in 1 .. Len(s) + Len(t)
        /\ k <= Len(s) /\ k + 1 <= Len(s)
    BY <1>1
  <2>. QED BY <1>1, <1>2, <2>1
<1>. QED BY <1>3 DEF Run

\* Where the line that was read ends.
LEMMA Eol ==
  ASSUME script \in Scripts, NEW s \in Seq(Bytes), Run(s), Len(s) > 0
  PROVE  /\ Len(s) = 1 => ScanEol(s) = 0
         /\ Len(s) > 1 => /\ ToEnd(s[1]) \in Nat /\ ToEnd(s[1]) > 1
                          /\ ScanEol(s) = IF Len(s) >= ToEnd(s[1]) THEN ToEnd(s[1]) ELSE 0
<1>1. ASSUME Len(s) = 1  PROVE ScanEol(s) = 0
  <2>1. 1 .. Len(s) - 1 = {}
    BY <1>1
  <2>2. {p \in 1 .. Len(s) - 1 : s[p].chr = "\r"} = {}
    BY <2>1
  <2>. QED BY <2>2, Zenon DEF ScanEol
<1>2. ASSUME Len(s) > 1
      PROVE  /\ ToEnd(s[1]) \in Nat /\ ToEnd(s[1]) > 1
             /\ ScanEol(s) = IF Len(s) >= ToEnd(s[1]) THEN ToEnd(s[1]) ELSE 0
  <2>1. PICK m : m = ToEnd(s[1])
    OBVIOUS
  <2>2. /\ m \in Nat /\ m > 1
        /\ \A j \in 1 .. Len(s) : /\ j < m - 1 => s[j].chr # "\r"
                                  /\ j = m - 1 => s[j].chr = "\r"
                                  /\ j = m => s[j].chr = "\n"
    BY <1>2, <2>1, LineChars
  <2>3. ScanEol(s) = IF Len(s) >= m THEN m ELSE 0
    BY <2>2, Scan, Zenon
  <2>. QED BY <2>1, <2>2, <2>3, Zenon
<1>. QED BY <1>1, <1>2

\* A sequence is its front and the rest.
LEMMA FrontBack ==
  ASSUME NEW S, NEW s \in Seq(S), NEW n \in 0 .. Len(s)
  PROVE  SubSeq(s, 1, n) \o Drop(s, n) = s
<1>. DEFINE f == SubSeq(s, 1, n)
            d == Drop(s, n)
<1>1. f \in Seq(S) /\ Len(f) = n /\ \A k \in 1 .. n : f[k] = s[k]
  BY FrontFacts
<1>2. d \in Seq(S) /\ Len(d) = Len(s) - n /\ \A k \in 1 .. Len(s) - n : d[k] = s[n + k]
  BY DropFacts
<1>3. Len(s) \in Nat
  BY LenProperties
<1>. HIDE DEF f, d
<1>4. /\ f \o d \in Seq(S) /\ Len(f \o d) = Len(f) + Len(d)
      /\ \A k \in 1 .. Len(f) + Len(d) : (f \o d)[k] = IF k <= Len(f) THEN f[k] ELSE d[k - Len(f)]
  BY <1>1, <1>2, ConcatProperties
<1>5. Len(f \o d) = Len(s)
  BY <1>1, <1>2, <1>3, <1>4
<1>6. ASSUME NEW k \in 1 .. Len(f \o d)  PROVE (f \o d)[k] = s[k]
  <2>1. /\ k \in 1 .. Len(f) + Len(d) /\ k <= n => k \in 1 .. n
        /\ ~ (k <= n) => k - n \in 1 .. Len(s) - n /\ n + (k - n) = k
    BY <1>1, <1>2, <1>3, <1>4
  <2>. QED BY <1>1, <1>2, <1>4, <2>1
<1>. QED BY <1>4, <1>5, <1>6, SeqEqual DEF f, d

\* What ReadCommand has in the buffer, and what is left of the script.
LEMMA Got ==
  ASSUME InInv, Handling("wantcommand"), NEW piece \in Pieces(LineBufSize - Len(cmd)), Read(piece),
         NEW got, got = cmd \o piece
  PROVE  /\ got \in Seq(Bytes) /\ Len(got) \in 1 .. LineBufSize
         /\ input' \in Seq(Bytes)
         /\ got \o input' = Ahead
         /\ Run(Ahead) /\ Ahead \in Seq(Bytes) /\ Len(Ahead) = Len(got) + Len(input')
         /\ Ahead[1] = got[1] /\ LineStart(Ahead[1]) /\ Handled(taken, Ahead[1])
<1>1. /\ script \in Scripts /\ input \in Seq(Bytes) /\ cmd \in Seq(Bytes) /\ Len(cmd) < LineBufSize
      /\ Run(Ahead) /\ HeadOK(Ahead, state, in_job, in_job_read, taken)
      /\ Len(cmd) \in Nat /\ Len(input) \in Nat
  BY LenProperties DEF InInv, InTypes, Reading, InScript, Handling
<1>11. PICK c, z, L \in Nat : c = Len(cmd) /\ z = Len(input) /\ L = LineBufSize /\ c < L
  BY <1>1, SizesAssumption
<1>2. PICK r \in 1 .. z : piece = SubSeq(input, 1, r) /\ r <= L - c
  <2>1. Min({L - c, z}) = IF L - c <= z THEN L - c ELSE z
    <3>1. L - c \in Int /\ z \in Int
      BY <1>11
    <3>. QED BY <3>1, MinOfTwo, Zenon
  <2>2. PICK r \in 1 .. Min({L - c, z}) : piece = SubSeq(input, 1, r)
    BY <1>11 DEF Pieces
  <2>3. r \in 1 .. z /\ r <= L - c
    BY <1>11, <2>1, <2>2
  <2>. QED BY <2>2, <2>3
<1>3. /\ piece \in Seq(Bytes) /\ Len(piece) = r
      /\ r \in 0 .. Len(input)
  <2>1. r \in 0 .. Len(input)
    BY <1>2, <1>11
  <2>. QED BY <1>1, <1>2, <2>1, FrontFacts
<1>4. input' = Drop(input, r) /\ input' \in Seq(Bytes) /\ Len(input') = Len(input) - r
  BY <1>1, <1>3, DropFacts DEF Read
<1>5. piece \o input' = input
  BY <1>1, <1>2, <1>3, <1>4, FrontBack
<1>6. got \in Seq(Bytes) /\ Len(got) = Len(cmd) + r
  BY <1>1, <1>3, ConcatProperties
<1>7. Len(got) \in 1 .. LineBufSize
  BY <1>2, <1>6, <1>11
<1>8. got \o input' = Ahead
  <2>1. (cmd \o piece) \o input' = cmd \o (piece \o input')
    <3>1. cmd \in Seq(Bytes) /\ piece \in Seq(Bytes) /\ input' \in Seq(Bytes)
      BY <1>1, <1>3, <1>4
    <3>. QED BY <3>1, ConcatAssociative
  <2>. QED BY <1>5, <2>1, Zenon DEF Ahead
<1>9. Ahead \in Seq(Bytes) /\ Len(Ahead) = Len(got) + Len(input') /\ Ahead[1] = got[1] /\ Len(Ahead) > 0
  <2>1. /\ got \o input' \in Seq(Bytes) /\ Len(got \o input') = Len(got) + Len(input')
        /\ \A k \in 1 .. Len(got) + Len(input') :
             (got \o input')[k] = IF k <= Len(got) THEN got[k] ELSE input'[k - Len(got)]
    <3>1. got \in Seq(Bytes) /\ input' \in Seq(Bytes)
      BY <1>4, <1>6
    <3>. QED BY <3>1, ConcatProperties
  <2>2. 1 \in 1 .. Len(got) + Len(input') /\ 1 <= Len(got) /\ Len(got) + Len(input') > 0
    <3>1. Len(input') \in Nat
      BY <1>4, LenProperties
    <3>2. PICK x, y \in Nat : x = Len(got) /\ y = Len(input')
      BY <1>7, <3>1
    <3>. QED BY <1>7, <3>2
  <2>. QED BY <1>8, <2>1, <2>2
<1>10. LineStart(Ahead[1]) /\ Handled(taken, Ahead[1])
  BY <1>1, <1>9 DEF HeadOK, Handling
<1>. QED BY <1>1, <1>4, <1>6, <1>7, <1>8, <1>9, <1>10

\* What ReadCommand does with what it has got.
LEMMA Cut ==
  ASSUME script \in Scripts, NEW got \in Seq(Bytes), NEW rest \in Seq(Bytes),
         Len(got) \in 1 .. LineBufSize,
         NEW s \in Seq(Bytes), s = got \o rest, Run(s), Len(s) = Len(got) + Len(rest), s[1] = got[1],
         NEW n, n = ScanEol(got)
  PROVE  \/ n = 0 /\ Len(got) < LineBufSize
         \/ n = 0 /\ Len(got) = LineBufSize /\ LineBufSize < ToEnd(s[1]) /\ Len(s) > 1 /\ Len(got) <= Len(s)
         \/ n \in Nat /\ n > 0 /\ n <= Len(got) /\ n = ToEnd(s[1]) /\ Len(s) > 1 /\ n <= Len(s)
<1>1. PICK x, y, L \in Nat : x = Len(got) /\ y = Len(rest) /\ L = LineBufSize /\ L > 2
  BY LenProperties, SizesAssumption
<1>2. x > 0 /\ x <= L /\ Len(s) = x + y
  BY <1>1
<1>3. Run(got)
  BY RunFront
<1>4. CASE x = 1
  <2>1. n = 0
    BY <1>1, <1>2, <1>3, <1>4, Eol
  <2>. QED BY <1>1, <1>4, <2>1
<1>5. CASE x > 1
  <2>1. PICK m \in Nat : m = ToEnd(s[1]) /\ m > 1
    BY <1>1, <1>3, <1>5, Eol
  <2>2. n = IF x >= m THEN m ELSE 0
    BY <1>1, <1>3, <1>5, <2>1, Eol
  <2>3. x + y > 1 /\ x <= x + y
    BY <1>5
  <2>4. CASE x >= m
    <3>1. n = m /\ m > 0 /\ m <= x /\ m <= x + y
      BY <2>1, <2>2, <2>4
    <3>. QED BY <1>1, <1>2, <2>1, <2>3, <3>1, Zenon
  <2>5. CASE x < m /\ x < L
    <3>1. n = 0
      BY <2>2, <2>5
    <3>. QED BY <1>1, <2>5, <3>1
  <2>6. CASE x < m /\ x = L
    <3>1. n = 0
      BY <2>2, <2>6
    <3>. QED BY <1>1, <1>2, <2>1, <2>3, <2>6, <3>1, Zenon
  <2>. QED BY <1>2, <2>4, <2>5, <2>6
<1>. QED BY <1>2, <1>4, <1>5

\* What is left of a piece, and its first byte.
LEMMA Rest ==
  ASSUME NEW s \in Seq(Bytes), Run(s), NEW n \in Nat, n <= Len(s)
  PROVE  /\ Drop(s, n) \in Seq(Bytes) /\ Run(Drop(s, n)) /\ Len(Drop(s, n)) = Len(s) - n
         /\ Len(Drop(s, n)) > 0 => n < Len(s) /\ Drop(s, n)[1] = s[n + 1]
<1>1. PICK z \in Nat : z = Len(s)
  BY LenProperties
<1>2. n \in 0 .. z /\ (z - n > 0 => n < z /\ 1 \in 1 .. z - n)
  BY <1>1
<1>. QED BY <1>1, <1>2, DropFacts, RunDrop

\* The line that is run is not a command.
LEMMA StrayTaken ==
  ASSUME script \in Scripts, NEW s \in Seq(Bytes), Run(s), Len(s) > 1, LineStart(s[1]),
         NEW n \in Nat, n <= Len(s), n = ToEnd(s[1]), n <= LineBufSize, s[1].at > 1,
         NEW tk \in Seq(Bytes), InOrder(tk), Strays(tk), Handled(tk, s[1])
  PROVE  /\ InOrder(Append(tk, s[1])) /\ Strays(Append(tk, s[1])) /\ Append(tk, s[1]) \in Seq(Bytes)
         /\ Len(Drop(s, n)) > 0 =>
              LineStart(Drop(s, n)[1]) /\ Handled(Append(tk, s[1]), Drop(s, n)[1])
<1>1. s[1] \in Bytes
  <2>1. 1 \in 1 .. Len(s)
    BY LenProperties
  <2>. QED BY <2>1, ElementOfSeq
<1>2. /\ ~ Proper(s[1].cmd)
      /\ n < Len(s) => /\ LineStart(s[n + 1])
                       /\ \A q \in 1 .. Len(script) :
                            /\ Passed(q, s[1]) => Passed(q, s[n + 1])
                            /\ Proper(q) /\ Passed(q, s[n + 1]) => Passed(q, s[1])
  BY LineGoesOn
<1>3. /\ InOrder(Append(tk, s[1])) /\ Strays(Append(tk, s[1])) /\ Append(tk, s[1]) \in Seq(Bytes)
      /\ \A c : Handled(tk, c) => Handled(Append(tk, s[1]), c)
  BY <1>1, <1>2, TakeStray
<1>4. ASSUME Len(Drop(s, n)) > 0
      PROVE  LineStart(Drop(s, n)[1]) /\ Handled(Append(tk, s[1]), Drop(s, n)[1])
  <2>1. n < Len(s) /\ Drop(s, n)[1] = s[n + 1]
    BY <1>4, Rest
  <2>2. Handled(tk, s[n + 1])
    BY <1>2, <2>1, HandledMoves
  <2>. QED BY <1>2, <1>3, <2>1, <2>2
<1>. QED BY <1>3, <1>4

\* The line that is run is that of a command.
LEMMA CommandTaken ==
  ASSUME script \in Scripts, NEW s \in Seq(Bytes), Run(s), Len(s) > 1, LineStart(s[1]),
         NEW n \in Nat, n <= Len(s), n = ToEnd(s[1]), n <= LineBufSize, s[1].at = 1,
         NEW tk \in Seq(Bytes), InOrder(tk), Strays(tk), Handled(tk, s[1])
  PROVE  /\ InOrder(Append(tk, s[1])) /\ Strays(Append(tk, s[1])) /\ Append(tk, s[1]) \in Seq(Bytes)
         /\ \E i \in 1 .. Len(script) :
              /\ i = s[1].cmd /\ Proper(i)
              /\ Len(Drop(s, n)) > 0 =>
                   /\ script[i].body = 0 => LineStart(Drop(s, n)[1])
                                            /\ Handled(Append(tk, s[1]), Drop(s, n)[1])
                   /\ script[i].body # 0 => Drop(s, n)[1] = Byte(i, LineSize(i) + 1)
              /\ \A c : (c.cmd = i /\ c.at > 1) \/ (c.cmd = i + 1 /\ c.at = 1)
                        => Handled(Append(tk, s[1]), c)
<1>1. PICK i \in 1 .. Len(script) :
         /\ Proper(i) /\ s[1] = Byte(i, 1) /\ n = LineSize(i)
         /\ n < Len(s) =>
              /\ script[i].body = 0 => s[n + 1] = Byte(i + 1, 1) /\ LineStart(s[n + 1])
              /\ script[i].body # 0 => s[n + 1] = Byte(i, LineSize(i) + 1)
  BY CommandLine
<1>2. i = s[1].cmd
  BY <1>1, ByteParts
<1>3. /\ InOrder(Append(tk, s[1])) /\ Strays(Append(tk, s[1])) /\ Append(tk, s[1]) \in Seq(Bytes)
      /\ \A c : (c.cmd = i /\ c.at > 1) \/ (c.cmd = i + 1 /\ c.at = 1)
                => Handled(Append(tk, s[1]), c)
  BY <1>1, TakeCommand
<1>4. Len(Drop(s, n)) > 0 => n < Len(s) /\ Drop(s, n)[1] = s[n + 1]
  BY Rest
<1>5. ASSUME Len(Drop(s, n)) > 0, script[i].body = 0  PROVE Handled(Append(tk, s[1]), Drop(s, n)[1])
  <2>1. Drop(s, n)[1] = Byte(i + 1, 1)
    BY <1>1, <1>4, <1>5
  <2>2. Drop(s, n)[1].cmd = i + 1 /\ Drop(s, n)[1].at = 1
    BY <2>1, ByteParts
  <2>. QED BY <1>3, <2>2
<1>6. /\ Len(Drop(s, n)) > 0 =>
           /\ script[i].body = 0 => LineStart(Drop(s, n)[1])
                                    /\ Handled(Append(tk, s[1]), Drop(s, n)[1])
           /\ script[i].body # 0 => Drop(s, n)[1] = Byte(i, LineSize(i) + 1)
  BY <1>1, <1>4, <1>5
<1>. QED BY <1>1, <1>2, <1>3, <1>6

(* Bodies.                                                                      *)

\* c bytes of the body of i were read, and k more are taken from what is left.
LEMMA InsideBody ==
  ASSUME script \in Scripts, NEW t \in Seq(Bytes), Run(t), NEW i \in 1 .. Len(script), Proper(i),
         NEW c \in Nat, c < script[i].body, Len(t) > 0 => t[1] = Byte(i, LineSize(i) + c + 1),
         NEW k \in Nat, k <= Len(t), c + k <= script[i].body
  PROVE  /\ \A j \in 1 .. k : t[j] = Byte(i, LineSize(i) + (c + j))
         /\ Drop(t, k) \in Seq(Bytes) /\ Run(Drop(t, k))
         /\ Len(Drop(t, k)) > 0 =>
              /\ c + k < script[i].body => Drop(t, k)[1] = Byte(i, LineSize(i) + (c + k) + 1)
              /\ c + k = script[i].body => Drop(t, k)[1] = Byte(i + 1, 1) /\ LineStart(Drop(t, k)[1])
<1>1. PICK a, b, z \in Nat : /\ a = LineSize(i) /\ b = script[i].body /\ a > 2 /\ Size(i) = a + b
                             /\ z = Len(t)
  BY Commands, LenProperties
<1>2. /\ Drop(t, k) \in Seq(Bytes) /\ Run(Drop(t, k))
      /\ Len(Drop(t, k)) > 0 => k < Len(t) /\ Drop(t, k)[1] = t[k + 1]
  BY Rest
<1>3. ASSUME z > 0
      PROVE  /\ \A j \in 1 .. z : (a + c + 1) + j - 1 <= a + b => t[j] = Byte(i, (a + c + 1) + j - 1)
             /\ \A j \in 1 .. z : (a + c + 1) + j - 1 = (a + b) + 1 =>
                                    i + 1 \in 1 .. Len(script) /\ t[j] = Byte(i + 1, 1)
  <2>1. PICK p : p = a + c + 1 /\ t[1] = Byte(i, p)
    BY <1>1, <1>3
  <2>2. /\ \A j \in 1 .. Len(t) : p + j - 1 <= Size(i) => t[j] = Byte(i, p + j - 1)
        /\ \A j \in 1 .. Len(t) : p + j - 1 = Size(i) + 1 =>
                                    i + 1 \in 1 .. Len(script) /\ t[j] = Byte(i + 1, 1)
    <3>1. Len(t) > 0
      BY <1>1, <1>3
    <3>4. t[1] = Byte(i, p)
      BY <2>1
    <3>2. \A j \in 1 .. Len(t) : p + j - 1 <= Size(i) => t[j] = Byte(i, p + j - 1)
      BY <3>1, <3>4, Along
    <3>3. \A j \in 1 .. Len(t) : p + j - 1 = Size(i) + 1 =>
                                    i + 1 \in 1 .. Len(script) /\ t[j] = Byte(i + 1, 1)
      BY <3>1, <3>4, Along
    <3>. QED BY <3>2, <3>3
  <2>. QED BY <1>1, <2>1, <2>2, Zenon
<1>4. ASSUME NEW j \in 1 .. k  PROVE t[j] = Byte(i, LineSize(i) + (c + j))
  <2>0. c + k <= b /\ k <= z
    BY <1>1
  <2>1. j \in 1 .. z /\ z > 0 /\ (a + c + 1) + j - 1 <= a + b /\ (a + c + 1) + j - 1 = a + (c + j)
    BY <2>0
  <2>2. t[j] = Byte(i, (a + c + 1) + j - 1)
    BY <1>3, <2>1
  <2>. QED BY <1>1, <2>1, <2>2
<1>5. ASSUME k < z, c + k < b  PROVE t[k + 1] = Byte(i, LineSize(i) + (c + k) + 1)
  <2>1. /\ k + 1 \in 1 .. z /\ z > 0 /\ (a + c + 1) + (k + 1) - 1 <= a + b
        /\ (a + c + 1) + (k + 1) - 1 = a + (c + k) + 1
    BY <1>5
  <2>2. t[k + 1] = Byte(i, (a + c + 1) + (k + 1) - 1)
    BY <1>3, <2>1
  <2>. QED BY <1>1, <2>1, <2>2
<1>6. ASSUME k < z, c + k = b  PROVE t[k + 1] = Byte(i + 1, 1) /\ LineStart(t[k + 1])
  <2>1. k + 1 \in 1 .. z /\ z > 0 /\ (a + c + 1) + (k + 1) - 1 = (a + b) + 1
    BY <1>6
  <2>2. i + 1 \in 1 .. Len(script) /\ t[k + 1] = Byte(i + 1, 1)
    BY <1>3, <2>1
  <2>3. StartsLine(i + 1, 1)
    BY <2>2, ProperNext, StartsFirst
  <2>. QED BY <2>2, <2>3, ByteParts DEF LineStart
<1>. QED BY <1>1, <1>2, <1>4, <1>5, <1>6

LEMMA SamePassed ==
  ASSUME NEW u, u.cmd \in Nat, u.at > 1,
         NEW h, (h.cmd = u.cmd /\ h.at > 1) \/ (h.cmd = u.cmd + 1 /\ h.at = 1), NEW x \in Nat
  PROVE  Passed(x, u) <=> Passed(x, h)
BY DEF Passed

\* What follows c bytes of the body of i.
AfterBody(i, c) ==
  IF c < script[i].body THEN Byte(i, LineSize(i) + c + 1) ELSE Byte(i + 1, 1)

\* The commands before what is left are those that were before this body.
LEMMA BodyTaken ==
  ASSUME script \in Scripts, NEW i \in 1 .. Len(script), NEW c \in Nat, NEW m \in Nat,
         c < script[i].body, NEW tk \in Seq(Bytes), Handled(tk, AfterBody(i, c))
  PROVE  Handled(tk, AfterBody(i, m))
<1>1. PICK a, p, q \in Nat :
        a = LineSize(i) /\ i \in Nat /\ p = a + c + 1 /\ p > 1 /\ q = a + m + 1 /\ q > 1
  BY Commands
<1>2. PICK u, h : u = AfterBody(i, c) /\ h = AfterBody(i, m)
  OBVIOUS
<1>3. u.cmd = i /\ u.at = p
  <2>1. u = Byte(i, p)
    BY <1>1, <1>2 DEF AfterBody
  <2>. QED BY <2>1, ByteParts
<1>4. (h.cmd = i /\ h.at > 1) \/ (h.cmd = i + 1 /\ h.at = 1)
  <2>1. CASE m < script[i].body
    <3>1. h = Byte(i, q)
      BY <1>1, <1>2, <2>1 DEF AfterBody
    <3>2. h.cmd = i /\ h.at = q
      BY <3>1, ByteParts
    <3>. QED BY <1>1, <3>2
  <2>2. CASE ~ (m < script[i].body)
    <3>1. h = Byte(i + 1, 1)
      BY <1>2, <2>2 DEF AfterBody
    <3>. QED BY <3>1, ByteParts
  <2>. QED BY <2>1, <2>2, Zenon
<1>5. /\ u.cmd \in Nat /\ u.at > 1
      /\ (h.cmd = u.cmd /\ h.at > 1) \/ (h.cmd = u.cmd + 1 /\ h.at = 1)
  BY <1>1, <1>3, <1>4, Zenon
<1>6. ASSUME NEW x \in Nat  PROVE Passed(x, u) <=> Passed(x, h)
  BY <1>5, SamePassed, Zenon
<1>7. 1 .. Len(script) \subseteq Nat
  BY Commands
<1>8. Handled(tk, u)
  BY <1>2
<1>9. Handled(tk, h)
  BY <1>6, <1>7, <1>8, HandledMoves
<1>. QED BY <1>2, <1>9

\* A body that was read as it was sent is the body.
LEMMA WholeBody ==
  ASSUME script \in Scripts, NEW i \in 1 .. Len(script), NEW x \in Seq(Bytes),
         Len(x) = script[i].body, script[i].body # 0,
         \A j \in 1 .. script[i].body : x[j] = Byte(i, LineSize(i) + j),
         NEW str \in Seq(Seq(Bytes)), NEW job, NEW count, NEW bd, Bodies(job, count, bd, str)
  PROVE  /\ Append(str, x) \in Seq(Seq(Bytes))
         /\ Bodies(NoJob, 0, <<>>, Append(str, x))
<1>1. x = Body(i)
  <2>1. Body(i) \in Seq(Bytes) /\ Len(Body(i)) = script[i].body
        /\ \A k \in 1 .. script[i].body : Body(i)[k] = Byte(i, LineSize(i) + k)
    BY BodyBytes
  <2>. QED BY <2>1, SeqEqual
<1>2. PICK z \in Nat : z = Len(str) /\ DOMAIN str = 1 .. z
  BY LenProperties
<1>3. PICK new : new = Append(str, x)
  OBVIOUS
<1>4. /\ new \in Seq(Seq(Bytes)) /\ DOMAIN new = 1 .. z + 1
      /\ \A k \in 1 .. z : new[k] = str[k]
      /\ new[z + 1] = x
  <2>1. /\ Append(str, x) \in Seq(Seq(Bytes)) /\ Len(Append(str, x)) = Len(str) + 1
        /\ \A k \in 1 .. Len(str) : Append(str, x)[k] = str[k]
        /\ Append(str, x)[Len(str) + 1] = x
    BY AppendProperties
  <2>2. DOMAIN new = 1 .. Len(new)
    BY <1>3, <2>1, LenProperties
  <2>. QED BY <1>2, <1>3, <2>1, <2>2
<1>5. ASSUME NEW k \in 1 .. z + 1
      PROVE  \E q \in 1 .. Len(script) : script[q].body # 0 /\ new[k] = Body(q)
  <2>1. CASE k \in 1 .. z
    BY <1>2, <1>4, <2>1 DEF Bodies
  <2>2. CASE k \notin 1 .. z
    <3>1. k = z + 1
      BY <2>2
    <3>. QED BY <1>1, <1>4, <3>1
  <2>. QED BY <2>1, <2>2
<1>. QED BY <1>3, <1>4, <1>5 DEF Bodies

(* The same script.                                                             *)

\* The invariant after a step, in terms of the script before it.
LEMMA SameScript ==
  ASSUME script' = script
  PROVE  /\ Before' = Before /\ Bytes' = Bytes
         /\ /\ state' # "closed" => Run(Ahead')
            /\ state' # "closed" /\ peer' # "noticed" =>
                 HeadOK(Ahead', state', in_job', in_job_read', taken')
            /\ InOrder(taken') /\ Strays(taken') /\ Bodies(in_job', in_job_read', body', stored')
            => InScript'
<1>1. Before' = Before
  BY DEF Before, Behind, LineSize, LeftOver
<1>2. Bytes' = Bytes
  BY DEF Bytes, Byte, Size, LineSize
<1>3. Run(Ahead') => Run(Ahead)'
  <2>1. ASSUME NEW b  PROVE After(b) = After(b)'
    BY DEF After, Byte, Size, LineSize
  <2>. QED BY <1>2, <2>1 DEF Run, Ahead
<1>4. HeadOK(Ahead', state', in_job', in_job_read', taken') =>
        HeadOK(Ahead, state, in_job, in_job_read, taken)'
  <2>1. \A i : LineSize(i)' = LineSize(i) /\ Size(i)' = Size(i)
    BY DEF LineSize, Size
  <2>2. \A i, k : Byte(i, k)' = Byte(i, k)
    BY DEF Byte, Size, LineSize
  <2>3. \A i : (Proper(i)' <=> Proper(i)) /\ (TooLong(i)' <=> TooLong(i))
    BY <1>1 DEF Proper, TooLong, Damaged, LineSize
  <2>4. \A i, k : StartsLine(i, k)' <=> StartsLine(i, k)
    BY <1>1, <2>1, <2>3 DEF StartsLine
  <2>5. \A b : LineStart(b)' <=> LineStart(b)
    BY <2>4 DEF LineStart
  <2>6. \A b : Handled(taken', b) => Handled(taken, b)'
    BY <1>1, <2>2, <2>3 DEF Handled, Passed
  <2>. QED BY <2>1, <2>2, <2>3, <2>5, <2>6 DEF HeadOK
<1>5. InOrder(taken') => InOrder(taken)'
  BY <1>1 DEF InOrder, Proper, TooLong, Damaged, LineSize, Size, Byte
<1>6. Strays(taken') => Strays(taken)'
  BY <1>1 DEF Strays, Proper, TooLong, Damaged, LineSize
<1>7. Bodies(in_job', in_job_read', body', stored') => Bodies(in_job, in_job_read, body, stored)'
  <2>1. \A i : Body(i)' = Body(i)
    BY DEF Body, Text, Size, LineSize, Byte
  <2>2. \A i, k : Byte(i, k)' = Byte(i, k)
    BY DEF Byte, Size, LineSize
  <2>3. \A i : LineSize(i)' = LineSize(i)
    BY DEF LineSize
  <2>. QED BY <2>1, <2>2, <2>3 DEF Bodies
<1>. QED BY <1>1, <1>2, <1>3, <1>4, <1>5, <1>6, <1>7, Zenon DEF InScript

(* What a step does with what is read.                                          *)

\* A body that is not read to the end is of no account.
LEMMA NoBody ==
  ASSUME NEW job, NEW count, NEW bd, NEW str, Bodies(job, count, bd, str), NEW c, NEW x
  PROVE  Bodies(NoJob, c, x, str)
BY DEF Bodies

\* The first byte of a line that is read.
LEMMA FirstOfLine ==
  ASSUME NEW got \in Seq(Bytes), NEW n \in Nat, n > 0, n <= Len(got)
  PROVE  Head(SubSeq(got, 1, n)) = got[1]
<1>1. n \in 0 .. Len(got)
  BY LenProperties
<1>2. /\ SubSeq(got, 1, n) \in Seq(Bytes) /\ Len(SubSeq(got, 1, n)) = n
      /\ \A k \in 1 .. n : SubSeq(got, 1, n)[k] = got[k]
  BY <1>1, FrontFacts
<1>. QED BY <1>2

\* fill_extra_data takes k bytes off the extra ones.
LEMMA Extra ==
  ASSUME NEW extra \in Seq(Bytes), NEW rest \in Seq(Bytes), NEW k \in Nat, k <= Len(extra)
  PROVE  /\ Drop(extra, k) \in Seq(Bytes) /\ Len(Drop(extra, k)) = Len(extra) - k
         /\ Drop(extra, k) \o rest = Drop(extra \o rest, k)
         /\ SubSeq(extra, 1, k) \in Seq(Bytes) /\ Len(SubSeq(extra, 1, k)) = k
         /\ \A j \in 1 .. k : SubSeq(extra, 1, k)[j] = (extra \o rest)[j]
         /\ Len(extra) <= Len(extra \o rest)
<1>1. PICK x, y \in Nat : x = Len(extra) /\ y = Len(rest)
  BY LenProperties
<1>2. k \in 0 .. Len(extra)
  BY <1>1
<1>3. /\ Drop(extra, k) \in Seq(Bytes) /\ Len(Drop(extra, k)) = Len(extra) - k
      /\ Drop(extra, k) \o rest = Drop(extra \o rest, k)
  BY <1>2, DropFacts, DropConcat
<1>4. /\ SubSeq(extra, 1, k) \in Seq(Bytes) /\ Len(SubSeq(extra, 1, k)) = k
      /\ \A j \in 1 .. k : SubSeq(extra, 1, k)[j] = extra[j]
  BY <1>2, FrontFacts
<1>5. /\ Len(extra \o rest) = x + y
      /\ \A j \in 1 .. x + y : (extra \o rest)[j] = IF j <= x THEN extra[j] ELSE rest[j - x]
  BY <1>1, ConcatProperties
<1>6. ASSUME NEW j \in 1 .. k  PROVE (extra \o rest)[j] = extra[j]
  <2>1. j \in 1 .. x + y /\ j <= x
    BY <1>1, <1>2
  <2>. QED BY <1>5, <2>1
<1>7. x <= x + y
  BY <1>1
<1>. QED BY <1>1, <1>3, <1>4, <1>5, <1>6, <1>7

\* How much of the extra bytes fill_extra_data takes.
LEMMA Taken ==
  ASSUME NEW x \in Nat, NEW y \in Nat
  PROVE  Min({x, y}) \in Nat /\ Min({x, y}) <= x /\ Min({x, y}) <= y
         /\ Min({x, y}) = IF x <= y THEN x ELSE y
BY MinOfTwo

\* The bytes read make no line yet.
LEMMA KeepsReading ==
  ASSUME InInv, Handling("wantcommand"), script' = script, peer' = peer,
         NEW got \in Seq(Bytes), Len(got) < LineBufSize, input' \in Seq(Bytes), got \o input' = Ahead,
         cmd' = got, UNCHANGED <<state, in_job, in_job_read, body, taken, stored>>
  PROVE  InInv'
<1>1. InTypes /\ Reading /\ InScript
  BY DEF InInv
<1>2. Ahead' = Ahead /\ Bytes' = Bytes
  BY SameScript DEF Ahead
<1>3. InTypes'
  <2>1. Len(got) <= LineBufSize
    BY LenProperties, SizesAssumption
  <2>. QED BY <1>1, <1>2, <2>1 DEF InTypes
<1>4. Reading'
  BY <1>1 DEF Reading, Handling
<1>5. InScript'
  <2>1. /\ Run(Ahead') /\ HeadOK(Ahead', state', in_job', in_job_read', taken')
        /\ InOrder(taken') /\ Strays(taken') /\ Bodies(in_job', in_job_read', body', stored')
    BY <1>1, <1>2 DEF InScript, Handling
  <2>. QED BY <2>1, SameScript
<1>. QED BY <1>3, <1>4, <1>5 DEF InInv

\* A line that fills the buffer is thrown away.
LEMMA RefusesLine ==
  ASSUME InInv, Handling("wantcommand"), script' = script,
         NEW got \in Seq(Bytes), Len(got) = LineBufSize, input' \in Seq(Bytes), got \o input' = Ahead,
         Len(Ahead) > 1, LineBufSize < ToEnd(Ahead[1]), Len(got) <= Len(Ahead),
         Run(Ahead), Ahead \in Seq(Bytes), LineStart(Ahead[1]), Handled(taken, Ahead[1]),
         cmd' = <<>>, state' = "sendword", UNCHANGED <<in_job, in_job_read, body, taken, stored>>
  PROVE  InInv'
<1>1. InTypes /\ Reading /\ InScript /\ in_job = NoJob /\ in_job_read = 0
  BY DEF InInv, Reading, Handling
<1>2. Bytes' = Bytes
  BY SameScript
<1>3. PICK L \in Nat : L = LineBufSize /\ L > 2
  BY SizesAssumption
<1>4. Ahead' = Drop(Ahead, L)
  <2>1. L \in 0 .. Len(got)
    BY <1>3
  <2>2. Drop(got, L) \in Seq(Bytes) /\ Len(Drop(got, L)) = 0
    BY <1>3, <2>1, DropFacts
  <2>3. Drop(got, L) = <<>>
    BY <2>2
  <2>4. Drop(got, L) \o input' = Drop(got \o input', L)
    BY <2>1, DropConcat
  <2>. QED BY <2>3, <2>4 DEF Ahead
<1>5. /\ Run(Drop(Ahead, L))
      /\ Len(Drop(Ahead, L)) > 0 => L < Len(Ahead) /\ Drop(Ahead, L)[1] = Ahead[L + 1]
  BY <1>3, Rest
<1>6. ASSUME Len(Drop(Ahead, L)) > 0
      PROVE  LineStart(Drop(Ahead, L)[1]) /\ Handled(taken, Drop(Ahead, L)[1])
  <2>1. /\ LineStart(Ahead[L + 1])
        /\ \A q \in 1 .. Len(script) : /\ Passed(q, Ahead[1]) => Passed(q, Ahead[L + 1])
                                       /\ Proper(q) /\ Passed(q, Ahead[L + 1]) => Passed(q, Ahead[1])
    BY <1>1, <1>3, <1>5, <1>6, LineGoesOn DEF InTypes
  <2>2. Handled(taken, Ahead[L + 1])
    BY <1>1, <2>1, HandledMoves DEF InTypes
  <2>. QED BY <1>5, <1>6, <2>1, <2>2
<1>7. InTypes'
  <2>1. <<>> \in Seq(Bytes) /\ Len(<<>>) = 0
    BY EmptySeq
  <2>. QED BY <1>1, <1>2, <1>3, <2>1 DEF InTypes
<1>8. Reading'
  BY <1>1, <1>3 DEF Reading
<1>9. InScript'
  <2>1. /\ Run(Ahead') /\ HeadOK(Ahead', state', in_job', in_job_read', taken')
        /\ InOrder(taken') /\ Strays(taken') /\ Bodies(in_job', in_job_read', body', stored')
    BY <1>1, <1>4, <1>5, <1>6 DEF InScript, HeadOK
  <2>. QED BY <2>1, SameScript
<1>. QED BY <1>7, <1>8, <1>9 DEF InInv

\* A line of n bytes was read and do_cmd runs it; extra are the bytes behind it.
LineRead(extra, n) ==
  /\ Run(Ahead) /\ Ahead \in Seq(Bytes) /\ LineStart(Ahead[1]) /\ Handled(taken, Ahead[1])
  /\ Len(Ahead) > 1
  /\ n \in Nat /\ n <= Len(Ahead) /\ n = ToEnd(Ahead[1]) /\ n <= LineBufSize
  /\ extra \in Seq(Bytes) /\ Len(extra) < LineBufSize
  /\ input' \in Seq(Bytes) /\ extra \o input' = Drop(Ahead, n)
  /\ script' = script /\ taken' = Append(taken, Ahead[1])

\* What is behind the line.
LEMMA BehindLine ==
  ASSUME InInv, Handling("wantcommand"), NEW extra, NEW n, LineRead(extra, n),
         NEW t, t = Drop(Ahead, n)
  PROVE  /\ t \in Seq(Bytes) /\ Run(t) /\ Len(extra) \in Nat /\ Len(extra) <= Len(t)
         /\ InOrder(taken') /\ Strays(taken') /\ taken' \in Seq(Bytes)
         /\ Ahead[1].at # 1 => (Len(t) > 0 => LineStart(t[1]) /\ Handled(taken', t[1]))
         /\ Ahead[1].at = 1 =>
              \E i \in 1 .. Len(script) :
                /\ i = Ahead[1].cmd /\ Proper(i)
                /\ Len(t) > 0 =>
                     /\ script[i].body = 0 => LineStart(t[1]) /\ Handled(taken', t[1])
                     /\ script[i].body # 0 => t[1] = Byte(i, LineSize(i) + 1)
                /\ \A c : (c.cmd = i /\ c.at > 1) \/ (c.cmd = i + 1 /\ c.at = 1)
                          => Handled(taken', c)
<1>1. /\ script \in Scripts /\ taken \in Seq(Bytes) /\ InOrder(taken) /\ Strays(taken)
  BY DEF InInv, InTypes, InScript
<1>2. PICK s \in Seq(Bytes) : s = Ahead
  BY DEF LineRead
<1>3. /\ Run(s) /\ LineStart(s[1]) /\ Handled(taken, s[1]) /\ Len(s) > 1
      /\ n \in Nat /\ n <= Len(s) /\ n = ToEnd(s[1]) /\ n <= LineBufSize
      /\ taken' = Append(taken, s[1]) /\ t = Drop(s, n)
  BY <1>2 DEF LineRead
<1>4. t \in Seq(Bytes) /\ Run(t)
  BY <1>3, Rest
<1>5. Len(extra) \in Nat /\ Len(extra) <= Len(t)
  <2>1. /\ extra \in Seq(Bytes) /\ input' \in Seq(Bytes) /\ extra \o input' = t
    BY <1>2, <1>3 DEF LineRead
  <2>2. Len(extra) <= Len(extra \o input') /\ Len(extra) \in Nat
    <3>1. PICK rest \in Seq(Bytes) : rest = input'
      BY <2>1
    <3>2. Len(extra) \in Nat /\ 0 \in Nat /\ 0 <= Len(extra)
      BY <2>1, LenProperties
    <3>. QED BY <2>1, <3>1, <3>2, Extra
  <2>. QED BY <2>1, <2>2
<1>6. s[1] \in Bytes /\ s[1].at \in Nat /\ s[1].at > 0
  <2>1. 1 \in 1 .. Len(s)
    BY <1>3, LenProperties
  <2>2. s[1] \in Bytes
    BY <2>1, ElementOfSeq
  <2>. QED BY <1>1, <2>2, InBytes
<1>7. CASE s[1].at = 1
  <2>1. /\ Run(s) /\ LineStart(s[1]) /\ Handled(taken, s[1]) /\ Len(s) > 1
        /\ n \in Nat /\ n <= Len(s) /\ n = ToEnd(s[1]) /\ n <= LineBufSize
    BY <1>3
  <2>3. /\ InOrder(Append(taken, s[1])) /\ Strays(Append(taken, s[1])) /\ Append(taken, s[1]) \in Seq(Bytes)
        /\ \E i \in 1 .. Len(script) :
             /\ i = s[1].cmd /\ Proper(i)
             /\ Len(Drop(s, n)) > 0 =>
                  /\ script[i].body = 0 => LineStart(Drop(s, n)[1])
                                           /\ Handled(Append(taken, s[1]), Drop(s, n)[1])
                  /\ script[i].body # 0 => Drop(s, n)[1] = Byte(i, LineSize(i) + 1)
             /\ \A c : (c.cmd = i /\ c.at > 1) \/ (c.cmd = i + 1 /\ c.at = 1)
                       => Handled(Append(taken, s[1]), c)
    BY <1>1, <1>7, <2>1, CommandTaken, Zenon
  <2>4. taken' = Append(taken, s[1]) /\ t = Drop(s, n)
    BY <1>3
  <2>. QED BY <1>2, <1>4, <1>5, <1>7, <2>3, <2>4, Zenon
<1>8. CASE s[1].at # 1
  <2>0. s[1].at > 1
    BY <1>6, <1>8
  <2>1. /\ InOrder(taken') /\ Strays(taken') /\ taken' \in Seq(Bytes)
        /\ Len(t) > 0 => LineStart(t[1]) /\ Handled(taken', t[1])
    BY <1>1, <1>3, <2>0, StrayTaken
  <2>. QED BY <1>2, <1>4, <1>5, <1>8, <2>1, Zenon
<1>. QED BY <1>7, <1>8

\* The bytes behind a line that brings no body.
LEMMA KeepsExtra ==
  ASSUME InInv, Handling("wantcommand"), NEW extra, NEW n, LineRead(extra, n),
         FillExtraData(extra, in_job, in_job_read)
  PROVE  cmd' = extra /\ body' = <<>> /\ in_job_read' = 0
<1>1. in_job = NoJob /\ in_job_read = 0
  BY DEF InInv, Reading, Handling
<1>2. extra \in Seq(Bytes) /\ Len(extra) \in Nat
  BY LenProperties DEF LineRead
<1>3. cmd' = Drop(extra, 0) /\ body' = <<>> /\ in_job_read' = 0
  <2>1. Min({Len(extra), 0}) = 0
    BY <1>2, Taken
  <2>2. Min({Len(extra), IF in_job # NoJob THEN script[in_job].body ELSE in_job_read}) = 0
    BY <1>1, <2>1
  <2>. QED BY <1>1, <2>2 DEF FillExtraData
<1>4. /\ Drop(extra, 0) \in Seq(Bytes) /\ Len(Drop(extra, 0)) = Len(extra) - 0
      /\ \A k \in 1 .. Len(extra) - 0 : Drop(extra, 0)[k] = extra[0 + k]
  <2>1. 0 \in 0 .. Len(extra)
    BY <1>2
  <2>. QED BY <1>2, <2>1, DropFacts
<1>5. /\ Len(Drop(extra, 0)) = Len(extra)
      /\ \A k \in 1 .. Len(extra) : k \in 1 .. Len(extra) - 0 /\ 0 + k = k
  BY <1>2, <1>4
<1>6. Drop(extra, 0) = extra
  BY <1>2, <1>4, <1>5, SeqEqual
<1>. QED BY <1>3, <1>6

\* The line of a command that has no body, or one that is not a command.
LEMMA RunsSimple ==
  ASSUME InInv, Handling("wantcommand"), NEW extra, NEW n, LineRead(extra, n),
         Ahead[1].at = 1 => script[Ahead[1].cmd].body = 0,
         FillExtraData(extra, in_job, in_job_read),
         state' \in {"sendword", "sendjob", "wait"}, UNCHANGED <<in_job, stored>>
  PROVE  InInv'
<1>1. InTypes /\ Reading /\ InScript /\ in_job = NoJob /\ in_job_read = 0
  BY DEF InInv, Reading, Handling
<1>2. Bytes' = Bytes
  BY SameScript DEF LineRead
<1>3. PICK t \in Seq(Bytes) :
        /\ t = Drop(Ahead, n) /\ Run(t) /\ Len(extra) \in Nat /\ Len(extra) <= Len(t)
        /\ InOrder(taken') /\ Strays(taken') /\ taken' \in Seq(Bytes)
        /\ Len(t) > 0 => LineStart(t[1]) /\ Handled(taken', t[1])
  BY BehindLine
<1>4. /\ extra \in Seq(Bytes) /\ Len(extra) < LineBufSize /\ input' \in Seq(Bytes)
      /\ extra \o input' = t /\ script' = script
  BY <1>3 DEF LineRead
<1>5. cmd' = extra /\ body' = <<>> /\ in_job_read' = 0
  BY KeepsExtra
<1>7. Ahead' = t
  BY <1>4, <1>5 DEF Ahead
<1>8. InTypes'
  <2>1. Len(extra) <= LineBufSize /\ <<>> \in Seq(Bytes)
    BY <1>3, <1>4, SizesAssumption, EmptySeq
  <2>. QED BY <1>1, <1>2, <1>3, <1>4, <1>5, <2>1 DEF InTypes
<1>9. Reading'
  BY <1>1, <1>4, <1>5 DEF Reading
<1>10. InScript'
  <2>1. /\ Run(Ahead') /\ HeadOK(Ahead', state', in_job', in_job_read', taken')
        /\ InOrder(taken') /\ Strays(taken')
    BY <1>3, <1>7 DEF HeadOK
  <2>2. Bodies(in_job', in_job_read', body', stored')
    BY <1>1, NoBody DEF InScript
  <2>. QED BY <1>4, <2>1, <2>2, SameScript
<1>. QED BY <1>8, <1>9, <1>10 DEF InInv

\* The line of a quit.
LEMMA RunsQuit ==
  ASSUME InInv, Handling("wantcommand"), NEW extra, NEW n, LineRead(extra, n),
         state' = "closed", UNCHANGED <<in_job, stored>>,
         \/ FillExtraData(extra, in_job, in_job_read)
         \/ UNCHANGED <<cmd, in_job_read, body>>
  PROVE  InInv'
<1>1. InTypes /\ InScript /\ in_job = NoJob
  BY DEF InInv, Reading, Handling
<1>2. Bytes' = Bytes /\ script' = script /\ input' \in Seq(Bytes)
  BY SameScript DEF LineRead
<1>3. InOrder(taken') /\ Strays(taken') /\ taken' \in Seq(Bytes)
  BY BehindLine
<1>4. /\ cmd' \in Seq(Bytes) /\ Len(cmd') <= LineBufSize
      /\ body' \in Seq(Bytes) /\ in_job_read' \in Nat
  <2>1. CASE FillExtraData(extra, in_job, in_job_read)
    <3>1. cmd' = extra /\ body' = <<>> /\ in_job_read' = 0
      BY <2>1, KeepsExtra
    <3>2. extra \in Seq(Bytes) /\ Len(extra) \in Nat /\ Len(extra) < LineBufSize
      BY LenProperties DEF LineRead
    <3>3. <<>> \in Seq(Bytes)
      BY EmptySeq
    <3>. QED BY <3>1, <3>2, <3>3, SizesAssumption
  <2>2. CASE UNCHANGED <<cmd, in_job_read, body>>
    BY <1>1, <2>2 DEF InTypes
  <2>. QED BY <2>1, <2>2
<1>5. InTypes'
  BY <1>1, <1>2, <1>3, <1>4 DEF InTypes
<1>6. Bodies(in_job', in_job_read', body', stored')
  BY <1>1, NoBody DEF InScript
<1>7. InScript'
  BY <1>1, <1>2, <1>3, <1>6, SameScript DEF InScript
<1>. QED BY <1>5, <1>7 DEF InInv, Reading

\* What a put or a skipped put has behind its line.
LEMMA BehindPut ==
  ASSUME InInv, Handling("wantcommand"), NEW extra, NEW n, LineRead(extra, n),
         Ahead[1].at = 1, NEW i, i = Ahead[1].cmd, script[i].body # 0,
         NEW k \in Nat, k <= Len(extra), k <= script[i].body
  PROVE  /\ i \in 1 .. Len(script) /\ Proper(i) /\ script[i].body \in Nat
         /\ InOrder(taken') /\ Strays(taken') /\ taken' \in Seq(Bytes)
         /\ Drop(extra, k) \in Seq(Bytes) /\ Len(Drop(extra, k)) = Len(extra) - k
         /\ SubSeq(extra, 1, k) \in Seq(Bytes) /\ Len(SubSeq(extra, 1, k)) = k
         /\ \A j \in 1 .. k : SubSeq(extra, 1, k)[j] = Byte(i, LineSize(i) + j)
         /\ Run(Drop(extra, k) \o input')
         /\ Len(Drop(extra, k) \o input') > 0 =>
              /\ Handled(taken', (Drop(extra, k) \o input')[1])
              /\ k < script[i].body =>
                   (Drop(extra, k) \o input')[1] = Byte(i, LineSize(i) + k + 1)
              /\ k = script[i].body => LineStart((Drop(extra, k) \o input')[1])
<1>1. PICK t \in Seq(Bytes) :
        /\ t = Drop(Ahead, n) /\ Run(t) /\ Len(extra) \in Nat /\ Len(extra) <= Len(t)
        /\ InOrder(taken') /\ Strays(taken') /\ taken' \in Seq(Bytes)
        /\ i \in 1 .. Len(script) /\ Proper(i)
        /\ Len(t) > 0 => t[1] = Byte(i, LineSize(i) + 1)
        /\ \A c : (c.cmd = i /\ c.at > 1) \/ (c.cmd = i + 1 /\ c.at = 1) => Handled(taken', c)
  BY BehindLine
<1>2. /\ extra \in Seq(Bytes) /\ input' \in Seq(Bytes) /\ extra \o input' = t /\ script \in Scripts
  BY <1>1 DEF LineRead, InInv, InTypes
<1>3. PICK a, b, x \in Nat : a = LineSize(i) /\ b = script[i].body /\ x = Len(extra) /\ a > 2 /\ b # 0
  BY <1>1, <1>2, Commands
<1>4. /\ Drop(extra, k) \in Seq(Bytes) /\ Len(Drop(extra, k)) = Len(extra) - k
      /\ Drop(extra, k) \o input' = Drop(t, k)
      /\ SubSeq(extra, 1, k) \in Seq(Bytes) /\ Len(SubSeq(extra, 1, k)) = k
      /\ \A j \in 1 .. k : SubSeq(extra, 1, k)[j] = t[j]
  <2>1. PICK rest \in Seq(Bytes) : rest = input'
    BY <1>2
  <2>2. /\ Drop(extra, k) \in Seq(Bytes) /\ Len(Drop(extra, k)) = Len(extra) - k
        /\ Drop(extra, k) \o rest = Drop(extra \o rest, k)
        /\ SubSeq(extra, 1, k) \in Seq(Bytes) /\ Len(SubSeq(extra, 1, k)) = k
        /\ \A j \in 1 .. k : SubSeq(extra, 1, k)[j] = (extra \o rest)[j]
    <3>1. extra \in Seq(Bytes) /\ k <= Len(extra)
      BY <1>2
    <3>2. Drop(extra, k) \in Seq(Bytes) /\ Len(Drop(extra, k)) = Len(extra) - k
      BY <3>1, Extra
    <3>3. Drop(extra, k) \o rest = Drop(extra \o rest, k)
      BY <3>1, Extra, SMTT(30)
    <3>4. SubSeq(extra, 1, k) \in Seq(Bytes) /\ Len(SubSeq(extra, 1, k)) = k
      BY <3>1, Extra
    <3>5. \A j \in 1 .. k : SubSeq(extra, 1, k)[j] = (extra \o rest)[j]
      BY <3>1, Extra
    <3>. QED BY <3>2, <3>3, <3>4, <3>5, Zenon
  <2>. QED BY <1>2, <2>1, <2>2
<1>5. k <= Len(t)
  <2>1. PICK y \in Nat : y = Len(t)
    BY LenProperties
  <2>. QED BY <1>1, <1>3, <2>1
<1>6. /\ \A j \in 1 .. k : t[j] = Byte(i, LineSize(i) + (0 + j))
      /\ Drop(t, k) \in Seq(Bytes) /\ Run(Drop(t, k))
      /\ Len(Drop(t, k)) > 0 =>
           /\ 0 + k < script[i].body => Drop(t, k)[1] = Byte(i, LineSize(i) + (0 + k) + 1)
           /\ 0 + k = script[i].body => Drop(t, k)[1] = Byte(i + 1, 1) /\ LineStart(Drop(t, k)[1])
  <2>1. PICK c \in Nat : c = 0
    OBVIOUS
  <2>2. /\ c < script[i].body /\ c + k <= script[i].body
        /\ LineSize(i) + c + 1 = LineSize(i) + 1
    BY <1>3, <2>1
  <2>3. Len(t) > 0 => t[1] = Byte(i, LineSize(i) + c + 1)
    BY <1>1, <2>2, Zenon
  <2>4. /\ \A j \in 1 .. k : t[j] = Byte(i, LineSize(i) + (c + j))
        /\ Drop(t, k) \in Seq(Bytes) /\ Run(Drop(t, k))
        /\ Len(Drop(t, k)) > 0 =>
             /\ c + k < script[i].body => Drop(t, k)[1] = Byte(i, LineSize(i) + (c + k) + 1)
             /\ c + k = script[i].body => Drop(t, k)[1] = Byte(i + 1, 1) /\ LineStart(Drop(t, k)[1])
    <3>1. t \in Seq(Bytes) /\ Run(t) /\ i \in 1 .. Len(script) /\ Proper(i) /\ script \in Scripts
      BY <1>1, <1>2
    <3>2. \A j \in 1 .. k : t[j] = Byte(i, LineSize(i) + (c + j))
      BY <1>5, <2>2, <2>3, <3>1, InsideBody, ZenonT(40)
    <3>3. Drop(t, k) \in Seq(Bytes) /\ Run(Drop(t, k))
      BY <1>5, <2>2, <2>3, <3>1, InsideBody
    <3>4. ASSUME Len(Drop(t, k)) > 0, c + k < script[i].body
          PROVE  Drop(t, k)[1] = Byte(i, LineSize(i) + (c + k) + 1)
      BY <1>5, <2>2, <2>3, <3>1, <3>4, InsideBody, SMTT(30)
    <3>5. ASSUME Len(Drop(t, k)) > 0, c + k = script[i].body
          PROVE  Drop(t, k)[1] = Byte(i + 1, 1) /\ LineStart(Drop(t, k)[1])
      BY <1>5, <2>2, <2>3, <3>1, <3>5, InsideBody, SMTT(120)
    <3>. QED BY <3>2, <3>3, <3>4, <3>5
  <2>. QED BY <2>1, <2>4, Zenon
<1>7. /\ \A j \in 1 .. k : LineSize(i) + (0 + j) = LineSize(i) + j
      /\ 0 + k = k
  BY <1>3
<1>8. \A j \in 1 .. k : SubSeq(extra, 1, k)[j] = Byte(i, LineSize(i) + j)
  BY <1>4, <1>6, <1>7
<1>9. ASSUME Len(Drop(t, k)) > 0
      PROVE  /\ Handled(taken', Drop(t, k)[1])
             /\ k < script[i].body => Drop(t, k)[1] = Byte(i, LineSize(i) + k + 1)
             /\ k = script[i].body => LineStart(Drop(t, k)[1])
  <2>1. CASE k < b
    <3>0. a + k + 1 > 1 /\ LineSize(i) + (0 + k) + 1 = a + k + 1 /\ 0 + k < script[i].body
      BY <1>3, <2>1
    <3>1. Drop(t, k)[1] = Byte(i, a + k + 1) /\ a + k + 1 > 1
      BY <1>6, <1>9, <3>0
    <3>2. Drop(t, k)[1].cmd = i /\ Drop(t, k)[1].at > 1
      BY <3>1, ByteParts
    <3>3. Handled(taken', Drop(t, k)[1])
      BY <1>1, <3>2
    <3>4. ~ (k = b)
      BY <2>1
    <3>. QED BY <1>3, <2>1, <3>1, <3>3, <3>4, Zenon
  <2>2. CASE k = b
    <3>1. Drop(t, k)[1] = Byte(i + 1, 1) /\ LineStart(Drop(t, k)[1])
      BY <1>3, <1>6, <1>7, <1>9, <2>2
    <3>2. Drop(t, k)[1].cmd = i + 1 /\ Drop(t, k)[1].at = 1
      BY <3>1, ByteParts
    <3>. QED BY <1>1, <1>3, <2>2, <3>1, <3>2, SMTT(30)
  <2>. QED BY <1>3, <2>1, <2>2
<1>. QED BY <1>1, <1>3, <1>4, <1>6, <1>8, <1>9

\* The line of a put, and a part of its body.
LEMMA RunsPutPart ==
  ASSUME InInv, Handling("wantcommand"), NEW extra, NEW n, LineRead(extra, n),
         Ahead[1].at = 1, NEW i, i = Ahead[1].cmd, script[i].body # 0,
         Len(extra) < script[i].body, FillExtraData(extra, i, 0),
         state' = "wantdata", in_job' = i, UNCHANGED stored
  PROVE  InInv'
<1>1. InTypes /\ Reading /\ InScript
  BY DEF InInv
<1>2. Bytes' = Bytes /\ script' = script /\ input' \in Seq(Bytes) /\ extra \in Seq(Bytes)
  BY SameScript DEF LineRead
<1>3. PICK k \in Nat : k = Len(extra)
  BY <1>2, LenProperties
<1>4. i \in 1 .. Len(script) /\ Len(script) \in Nat /\ script[i].body \in Nat /\ 0 \in Nat
  <2>1. k <= Len(extra) /\ 0 <= Len(extra) /\ 0 \in Nat
    BY <1>3
  <2>2. \E j \in 1 .. Len(script) : j = i
    BY BehindLine
  <2>. QED BY <1>1, <2>2, Commands DEF InTypes
<1>5. /\ Proper(i)
      /\ InOrder(taken') /\ Strays(taken') /\ taken' \in Seq(Bytes)
      /\ Drop(extra, k) \in Seq(Bytes) /\ Len(Drop(extra, k)) = Len(extra) - k
      /\ SubSeq(extra, 1, k) \in Seq(Bytes) /\ Len(SubSeq(extra, 1, k)) = k
      /\ \A j \in 1 .. k : SubSeq(extra, 1, k)[j] = Byte(i, LineSize(i) + j)
      /\ Run(Drop(extra, k) \o input')
      /\ Len(Drop(extra, k) \o input') > 0 =>
           /\ Handled(taken', (Drop(extra, k) \o input')[1])
           /\ k < script[i].body =>
                (Drop(extra, k) \o input')[1] = Byte(i, LineSize(i) + k + 1)
  <2>1. k <= Len(extra) /\ k <= script[i].body
    BY <1>3, <1>4
  <2>2. Proper(i) /\ InOrder(taken') /\ Strays(taken') /\ taken' \in Seq(Bytes)
    BY <2>1, BehindPut
  <2>3. /\ Drop(extra, k) \in Seq(Bytes) /\ Len(Drop(extra, k)) = Len(extra) - k
        /\ SubSeq(extra, 1, k) \in Seq(Bytes) /\ Len(SubSeq(extra, 1, k)) = k
    BY <2>1, BehindPut
  <2>4. \A j \in 1 .. k : SubSeq(extra, 1, k)[j] = Byte(i, LineSize(i) + j)
    BY <2>1, BehindPut
  <2>5. Run(Drop(extra, k) \o input')
    BY <2>1, BehindPut
  <2>6. ASSUME Len(Drop(extra, k) \o input') > 0
        PROVE  Handled(taken', (Drop(extra, k) \o input')[1])
    BY <2>1, <2>6, BehindPut
  <2>7. ASSUME Len(Drop(extra, k) \o input') > 0, k < script[i].body
        PROVE  (Drop(extra, k) \o input')[1] = Byte(i, LineSize(i) + k + 1)
    BY <2>1, <2>7, BehindPut
  <2>. QED BY <2>2, <2>3, <2>4, <2>5, <2>6, <2>7
<1>6. cmd' = Drop(extra, k) /\ body' = SubSeq(extra, 1, k) /\ in_job_read' = k
  <2>1. Min({Len(extra), script[i].body}) = k
    BY <1>3, <1>4, Taken, SMTT(30)
  <2>2. i # NoJob
    BY <1>4 DEF NoJob
  <2>. QED BY <2>1, <2>2 DEF FillExtraData
<1>7. cmd' = <<>> /\ Len(cmd') = 0
  <2>1. Len(Drop(extra, k)) = 0
    BY <1>3, <1>5
  <2>. QED BY <1>5, <1>6, <2>1, EmptySeq
<1>8. InTypes'
  <2>1. 0 <= LineBufSize
    BY SizesAssumption
  <2>2. i \in 0 .. Len(script)
    BY <1>4
  <2>. QED BY <1>1, <1>2, <1>4, <1>5, <1>6, <1>7, <2>1, <2>2 DEF InTypes
<1>9. Reading'
  <2>1. i # NoJob /\ k < script[i].body
    BY <1>3, <1>4 DEF NoJob
  <2>. QED BY <1>2, <1>6, <1>7, <2>1, SizesAssumption DEF Reading
<1>10. InScript'
  <2>1. Ahead' = Drop(extra, k) \o input'
    BY <1>6 DEF Ahead
  <2>2. k < script[i].body /\ k <= script[i].body
    BY <1>3, <1>4
  <2>3. HeadOK(Ahead', state', in_job', in_job_read', taken')
    BY <1>5, <1>6, <2>1, <2>2 DEF HeadOK
  <2>4. Bodies(in_job', in_job_read', body', stored')
    BY <1>1, <1>4, <1>5, <1>6, <2>2 DEF Bodies, InScript
  <2>. QED BY <1>2, <1>5, <2>1, <2>3, <2>4, SameScript
<1>. QED BY <1>8, <1>9, <1>10 DEF InInv

\* The line of a put, and its whole body.
LEMMA RunsPutWhole ==
  ASSUME InInv, Handling("wantcommand"), NEW extra, NEW n, LineRead(extra, n),
         Ahead[1].at = 1, NEW i, i = Ahead[1].cmd, script[i].body # 0,
         Len(extra) >= script[i].body, TakeBody(SubSeq(extra, 1, script[i].body)),
         cmd' = Drop(extra, script[i].body), state' = "sendword"
  PROVE  InInv'
<1>1. InTypes /\ Reading /\ InScript
  BY DEF InInv
<1>2. Bytes' = Bytes /\ script' = script /\ input' \in Seq(Bytes) /\ extra \in Seq(Bytes)
      /\ Len(extra) < LineBufSize
  BY SameScript DEF LineRead
<1>3. i \in 1 .. Len(script) /\ script[i].body \in Nat
  <2>1. \E j \in 1 .. Len(script) : j = i
    BY BehindLine
  <2>. QED BY <1>1, <2>1, Commands DEF InTypes
<1>4. PICK k \in Nat : k = script[i].body
  BY <1>3
<1>5. /\ Proper(i)
      /\ InOrder(taken') /\ Strays(taken') /\ taken' \in Seq(Bytes)
      /\ Drop(extra, k) \in Seq(Bytes) /\ Len(Drop(extra, k)) = Len(extra) - k
      /\ SubSeq(extra, 1, k) \in Seq(Bytes) /\ Len(SubSeq(extra, 1, k)) = k
      /\ \A j \in 1 .. k : SubSeq(extra, 1, k)[j] = Byte(i, LineSize(i) + j)
      /\ Run(Drop(extra, k) \o input')
      /\ Len(Drop(extra, k) \o input') > 0 =>
           /\ Handled(taken', (Drop(extra, k) \o input')[1])
           /\ k = script[i].body => LineStart((Drop(extra, k) \o input')[1])
  <2>1. k <= Len(extra) /\ k <= script[i].body
    BY <1>4
  <2>2. Proper(i) /\ InOrder(taken') /\ Strays(taken') /\ taken' \in Seq(Bytes)
    BY <2>1, BehindPut
  <2>3. /\ Drop(extra, k) \in Seq(Bytes) /\ Len(Drop(extra, k)) = Len(extra) - k
        /\ SubSeq(extra, 1, k) \in Seq(Bytes) /\ Len(SubSeq(extra, 1, k)) = k
    BY <2>1, BehindPut
  <2>4. \A j \in 1 .. k : SubSeq(extra, 1, k)[j] = Byte(i, LineSize(i) + j)
    BY <2>1, BehindPut
  <2>5. Run(Drop(extra, k) \o input')
    BY <2>1, BehindPut
  <2>6. ASSUME Len(Drop(extra, k) \o input') > 0
        PROVE  Handled(taken', (Drop(extra, k) \o input')[1])
    BY <2>1, <2>6, BehindPut
  <2>7. ASSUME Len(Drop(extra, k) \o input') > 0, k = script[i].body
        PROVE  LineStart((Drop(extra, k) \o input')[1])
    BY <2>1, <2>7, BehindPut
  <2>. QED BY <2>2, <2>3, <2>4, <2>5, <2>6, <2>7
<1>6. cmd' = Drop(extra, k) /\ in_job' = NoJob /\ in_job_read' = 0 /\ body' = <<>>
      /\ stored' = Append(stored, SubSeq(extra, 1, k))
  BY <1>4 DEF TakeBody
<1>7. Append(stored, SubSeq(extra, 1, k)) \in Seq(Seq(Bytes))
      /\ Bodies(NoJob, 0, <<>>, Append(stored, SubSeq(extra, 1, k)))
  <2>1. PICK x \in Seq(Bytes) : x = SubSeq(extra, 1, k)
    BY <1>5
  <2>2. /\ script \in Scripts /\ Len(x) = script[i].body /\ stored \in Seq(Seq(Bytes))
        /\ \A j \in 1 .. script[i].body : x[j] = Byte(i, LineSize(i) + j)
        /\ Bodies(in_job, in_job_read, body, stored)
    BY <1>1, <1>4, <1>5, <2>1 DEF InTypes, InScript
  <2>3. Append(stored, x) \in Seq(Seq(Bytes)) /\ Bodies(NoJob, 0, <<>>, Append(stored, x))
    BY <1>3, <2>2, WholeBody
  <2>. QED BY <2>1, <2>3
<1>8. Len(Drop(extra, k)) < LineBufSize /\ Len(Drop(extra, k)) <= LineBufSize
  <2>1. PICK x \in Nat : x = Len(extra)
    BY <1>2, LenProperties
  <2>. QED BY <1>2, <1>5, <2>1, SizesAssumption
<1>9. InTypes'
  <2>1. 0 \in 0 .. Len(script) /\ <<>> \in Seq(Bytes)
    BY <1>1, Commands, EmptySeq DEF InTypes
  <2>. QED BY <1>1, <1>2, <1>5, <1>6, <1>7, <1>8, <2>1 DEF InTypes, NoJob
<1>10. Reading'
  BY <1>6, <1>8 DEF Reading
<1>11. InScript'
  <2>1. Ahead' = Drop(extra, k) \o input'
    BY <1>6 DEF Ahead
  <2>2. HeadOK(Ahead', state', in_job', in_job_read', taken')
    BY <1>4, <1>5, <2>1 DEF HeadOK
  <2>. QED BY <1>2, <1>5, <1>6, <1>7, <2>1, <2>2, SameScript
<1>. QED BY <1>9, <1>10, <1>11 DEF InInv

\* The line of a put that is skipped, and as much of its body as there is.
LEMMA RunsSkip ==
  ASSUME InInv, Handling("wantcommand"), NEW extra, NEW n, LineRead(extra, n),
         Ahead[1].at = 1, NEW i, i = Ahead[1].cmd, script[i].body # 0,
         FillExtraData(extra, NoJob, script[i].body), in_job' = NoJob, UNCHANGED stored,
         state' = IF in_job_read' = 0 THEN "sendword" ELSE "bitbucket"
  PROVE  InInv'
<1>1. InTypes /\ Reading /\ InScript
  BY DEF InInv
<1>2. Bytes' = Bytes /\ script' = script /\ input' \in Seq(Bytes) /\ extra \in Seq(Bytes)
      /\ Len(extra) < LineBufSize
  BY SameScript DEF LineRead
<1>3. i \in 1 .. Len(script) /\ script[i].body \in Nat
  <2>1. \E j \in 1 .. Len(script) : j = i
    BY BehindLine
  <2>. QED BY <1>1, <2>1, Commands DEF InTypes
<1>4. PICK a, b, x \in Nat : /\ a = LineSize(i) /\ b = script[i].body /\ Size(i) = a + b
                             /\ x = Len(extra)
  BY <1>1, <1>2, <1>3, Commands, LenProperties DEF InTypes
<1>5. PICK k \in Nat : k = Min({Len(extra), script[i].body}) /\ k = IF x <= b THEN x ELSE b
  BY <1>4, Taken
<1>6. k <= x /\ k <= b
  BY <1>5
<1>7. /\ Proper(i)
      /\ InOrder(taken') /\ Strays(taken') /\ taken' \in Seq(Bytes)
      /\ Drop(extra, k) \in Seq(Bytes) /\ Len(Drop(extra, k)) = Len(extra) - k
      /\ Run(Drop(extra, k) \o input')
      /\ Len(Drop(extra, k) \o input') > 0 =>
           /\ Handled(taken', (Drop(extra, k) \o input')[1])
           /\ k < script[i].body =>
                (Drop(extra, k) \o input')[1] = Byte(i, LineSize(i) + k + 1)
           /\ k = script[i].body => LineStart((Drop(extra, k) \o input')[1])
  <2>1. k <= Len(extra) /\ k <= script[i].body
    BY <1>4, <1>6
  <2>2. Proper(i) /\ InOrder(taken') /\ Strays(taken') /\ taken' \in Seq(Bytes)
    BY <2>1, BehindPut
  <2>3. Drop(extra, k) \in Seq(Bytes) /\ Len(Drop(extra, k)) = Len(extra) - k
    BY <2>1, BehindPut
  <2>4. Run(Drop(extra, k) \o input')
    BY <2>1, BehindPut
  <2>5. ASSUME Len(Drop(extra, k) \o input') > 0
        PROVE  Handled(taken', (Drop(extra, k) \o input')[1])
    BY <2>1, <2>5, BehindPut
  <2>6. ASSUME Len(Drop(extra, k) \o input') > 0, k < script[i].body
        PROVE  (Drop(extra, k) \o input')[1] = Byte(i, LineSize(i) + k + 1)
    BY <2>1, <2>6, BehindPut
  <2>7. ASSUME Len(Drop(extra, k) \o input') > 0, k = script[i].body
        PROVE  LineStart((Drop(extra, k) \o input')[1])
    BY <2>1, <2>7, BehindPut
  <2>. QED BY <2>2, <2>3, <2>4, <2>5, <2>6, <2>7
<1>8. cmd' = Drop(extra, k) /\ body' = <<>> /\ in_job_read' = b - k
  <2>1. Min({Len(extra), IF NoJob # NoJob THEN script[NoJob].body ELSE script[i].body}) = k
    BY <1>5, Zenon
  <2>. QED BY <1>4, <2>1 DEF FillExtraData
<1>9. b - k \in Nat /\ (b - k = 0 <=> k = b) /\ (b - k # 0 => b - k > 0 /\ k < b /\ x = k)
  BY <1>5, <1>6
<1>10. Len(Drop(extra, k)) < LineBufSize /\ Len(Drop(extra, k)) <= LineBufSize
  BY <1>2, <1>4, <1>7, SizesAssumption
<1>11. b - k # 0 => Drop(extra, k) = <<>>
  <2>1. b - k # 0 => Len(Drop(extra, k)) = 0
    BY <1>4, <1>7, <1>9
  <2>. QED BY <1>7, <2>1, EmptySeq
<1>12. InTypes'
  <2>1. 0 \in 0 .. Len(script) /\ <<>> \in Seq(Bytes)
    BY <1>1, Commands, EmptySeq DEF InTypes
  <2>. QED BY <1>1, <1>2, <1>7, <1>8, <1>9, <1>10, <2>1 DEF InTypes, NoJob
<1>13. Reading'
  BY <1>8, <1>9, <1>10, <1>11 DEF Reading
<1>14. InScript'
  <2>1. Ahead' = Drop(extra, k) \o input'
    BY <1>8 DEF Ahead
  <2>2. CASE k = b
    <3>1. HeadOK(Ahead', state', in_job', in_job_read', taken')
      BY <1>4, <1>7, <1>8, <1>9, <2>1, <2>2 DEF HeadOK
    <3>2. Bodies(in_job', in_job_read', body', stored')
      BY <1>1, NoBody DEF InScript
    <3>. QED BY <1>2, <1>7, <2>1, <3>1, <3>2, SameScript
  <2>3. CASE k # b
    <3>1. k < b /\ state' = "bitbucket"
      BY <1>8, <1>9, <2>3
    <3>2. a + k + 1 > a /\ b - k = (a + b) - (a + k + 1) + 1
      OBVIOUS
    <3>3. ASSUME Len(Ahead') > 0
          PROVE  /\ Ahead'[1] = Byte(i, a + k + 1) /\ Ahead'[1].cmd = i /\ Ahead'[1].at = a + k + 1
                 /\ Handled(taken', Ahead'[1])
      <4>1. LineSize(i) + k + 1 = a + k + 1 /\ k < script[i].body
        BY <1>4, <3>1
      <4>2. Ahead'[1] = Byte(i, a + k + 1) /\ Handled(taken', Ahead'[1])
        BY <1>7, <2>1, <3>3, <4>1
      <4>. QED BY <4>2, ByteParts
    <3>4. HeadOK(Ahead', state', in_job', in_job_read', taken')
      BY <1>4, <1>7, <1>8, <3>1, <3>2, <3>3 DEF HeadOK
    <3>5. Bodies(in_job', in_job_read', body', stored')
      BY <1>1, NoBody DEF InScript
    <3>. QED BY <1>2, <1>7, <2>1, <3>4, <3>5, SameScript
  <2>. QED BY <2>2, <2>3
<1>. QED BY <1>12, <1>13, <1>14 DEF InInv

\* STATE_WANTCOMMAND.
LEMMA ReadCommandIn ==
  ASSUME InInv, ReadCommand
  PROVE  InInv'
<1>1. /\ InTypes /\ Reading /\ InScript /\ Len(cmd) < LineBufSize /\ Len(cmd) \in Nat
      /\ Handling("wantcommand") /\ in_job = NoJob /\ in_job_read = 0
  BY LenProperties DEF InInv, InTypes, Reading, ReadCommand, Handling
<1>2. PICK piece \in Pieces(LineBufSize - Len(cmd)) :
        LET got == cmd \o piece
            n == ScanEol(got)
        IN /\ Read(piece)
           /\ \/ n > 0 /\ DoCmd(SubSeq(got, 1, n), Drop(got, n))
              \/ /\ n = 0 /\ Len(got) = LineBufSize
                 /\ cmd' = <<>> /\ refused' = refused + 1 /\ Reply
                 /\ UNCHANGED <<in_job, in_job_read, body, taken, answered, stored>>
              \/ /\ n = 0 /\ Len(got) < LineBufSize
                 /\ cmd' = got
                 /\ UNCHANGED <<state, in_job, in_job_read, body, outVars, histVars>>
           /\ UNCHANGED <<script, peer>>
  <2>1. LineBufSize - Len(cmd) # 0
    BY <1>1, SizesAssumption
  <2>. QED BY <2>1 DEF ReadCommand, NoRoom
<1>3. PICK got, n : got = cmd \o piece /\ n = ScanEol(got)
  OBVIOUS
<1>4. /\ Read(piece)
      /\ \/ n > 0 /\ DoCmd(SubSeq(got, 1, n), Drop(got, n))
         \/ /\ n = 0 /\ Len(got) = LineBufSize
            /\ cmd' = <<>> /\ refused' = refused + 1 /\ Reply
            /\ UNCHANGED <<in_job, in_job_read, body, taken, answered, stored>>
         \/ /\ n = 0 /\ Len(got) < LineBufSize
            /\ cmd' = got
            /\ UNCHANGED <<state, in_job, in_job_read, body, outVars, histVars>>
      /\ script' = script /\ peer' = peer
  BY <1>2, <1>3
<1>5. /\ got \in Seq(Bytes) /\ Len(got) \in 1 .. LineBufSize
      /\ input' \in Seq(Bytes)
      /\ got \o input' = Ahead
      /\ Run(Ahead) /\ Ahead \in Seq(Bytes) /\ Len(Ahead) = Len(got) + Len(input')
      /\ Ahead[1] = got[1] /\ LineStart(Ahead[1]) /\ Handled(taken, Ahead[1])
  BY <1>1, <1>3, <1>4, Got
<1>6. \/ n = 0 /\ Len(got) < LineBufSize
      \/ n = 0 /\ Len(got) = LineBufSize /\ LineBufSize < ToEnd(Ahead[1]) /\ Len(Ahead) > 1
         /\ Len(got) <= Len(Ahead)
      \/ n \in Nat /\ n > 0 /\ n <= Len(got) /\ n = ToEnd(Ahead[1]) /\ Len(Ahead) > 1 /\ n <= Len(Ahead)
  <2>1. script \in Scripts
    BY <1>1 DEF InTypes
  <2>2. PICK s \in Seq(Bytes), rest \in Seq(Bytes) : s = Ahead /\ rest = input'
    BY <1>5
  <2>3. s = got \o rest /\ Run(s) /\ Len(s) = Len(got) + Len(rest) /\ s[1] = got[1]
    BY <1>5, <2>2
  <2>4. \/ n = 0 /\ Len(got) < LineBufSize
        \/ n = 0 /\ Len(got) = LineBufSize /\ LineBufSize < ToEnd(s[1]) /\ Len(s) > 1
           /\ Len(got) <= Len(s)
        \/ n \in Nat /\ n > 0 /\ n <= Len(got) /\ n = ToEnd(s[1]) /\ Len(s) > 1 /\ n <= Len(s)
    BY <1>3, <1>5, <2>1, <2>3, Cut, ZenonT(30)
  <2>. QED BY <2>2, <2>4
<1>7. CASE n = 0 /\ Len(got) < LineBufSize
  <2>1. Len(got) # LineBufSize /\ ~ (n > 0)
    BY <1>7, SizesAssumption
  <2>2. cmd' = got /\ UNCHANGED <<state, in_job, in_job_read, body, taken, stored>>
    BY <1>4, <2>1 DEF histVars
  <2>. QED BY <1>1, <1>4, <1>5, <1>7, <2>2, KeepsReading
<1>8. CASE /\ n = 0 /\ Len(got) = LineBufSize /\ LineBufSize < ToEnd(Ahead[1]) /\ Len(Ahead) > 1
           /\ Len(got) <= Len(Ahead)
  <2>1. ~ (Len(got) < LineBufSize) /\ ~ (n > 0)
    BY <1>8, SizesAssumption
  <2>2. cmd' = <<>> /\ state' = "sendword" /\ UNCHANGED <<in_job, in_job_read, body, taken, stored>>
    BY <1>4, <2>1 DEF Reply
  <2>. QED BY <1>1, <1>4, <1>5, <1>8, <2>2, RefusesLine
<1>9. CASE n \in Nat /\ n > 0 /\ n <= Len(got) /\ n = ToEnd(Ahead[1]) /\ Len(Ahead) > 1 /\ n <= Len(Ahead)
  <2>0. PICK extra : extra = Drop(got, n)
    OBVIOUS
  <2>1. PICK first : first = Ahead[1]
    OBVIOUS
  <2>2. DoCmd(SubSeq(got, 1, n), extra) /\ Head(SubSeq(got, 1, n)) = first
    <3>1. ~ (n = 0)
      BY <1>9
    <3>2. Head(SubSeq(got, 1, n)) = got[1]
      BY <1>5, <1>9, FirstOfLine
    <3>. QED BY <1>4, <1>5, <2>0, <2>1, <3>1, <3>2
  <2>3. PICK kind \in KindsAt(first) :
          /\ taken' = Append(taken, first)
          /\ \/ kind = "put" /\ DoPut(first.cmd, extra)
             \/ kind = "skip" /\ SkipAndReply(first.cmd, extra)
             \/ kind = "quit" /\ DoQuit(extra)
             \/ kind \in {"word", "refused", "job", "wait"} /\ DoSimple(kind, extra)
    BY <2>2, Zenon DEF DoCmd
  <2>4. LineRead(extra, n)
    <3>1. PICK x, L \in Nat : x = Len(got) /\ L = LineBufSize /\ x <= L
      BY <1>5, SizesAssumption
    <3>2. n \in 0 .. x /\ x - n < L /\ n <= L
      BY <1>9, <3>1
    <3>3. extra \in Seq(Bytes) /\ Len(extra) = x - n
      BY <1>5, <2>0, <3>1, <3>2, DropFacts
    <3>4. extra \o input' = Drop(Ahead, n)
      <4>1. PICK rest \in Seq(Bytes) : rest = input'
        BY <1>5
      <4>2. Drop(got, n) \o rest = Drop(got \o rest, n)
        BY <1>5, <3>1, <3>2, DropConcat
      <4>. QED BY <1>5, <2>0, <4>1, <4>2
    <3>. QED BY <1>4, <1>5, <1>9, <2>1, <2>3, <3>1, <3>2, <3>3, <3>4 DEF LineRead
  <2>5. /\ first.at = 1 => first.cmd \in 1 .. Len(script)
        /\ first.at = 1 => (script[first.cmd].body # 0 <=> script[first.cmd].kind \in {"put", "skip"})
    <3>1. first \in Bytes
      <4>1. 1 \in 1 .. Len(got)
        BY <1>5
      <4>. QED BY <1>5, <2>1, <4>1, ElementOfSeq
    <3>2. script \in Scripts
      BY <1>1 DEF InTypes
    <3>. QED BY <3>1, <3>2, InBytes, Commands
  <2>6. /\ first.at = 1 => kind = script[first.cmd].kind
        /\ first.at # 1 => kind \notin {"put", "skip"}
    BY DEF KindsAt
  <2>7. CASE kind \in {"word", "refused", "job", "wait"} /\ DoSimple(kind, extra)
    <3>1. first.at = 1 => script[first.cmd].body = 0
      BY <2>5, <2>6, <2>7
    <3>2. /\ FillExtraData(extra, in_job, in_job_read)
          /\ state' \in {"sendword", "sendjob", "wait"} /\ UNCHANGED <<in_job, stored>>
      BY <2>7 DEF DoSimple, Reply, ReplyJob
    <3>. QED BY <1>1, <2>1, <2>4, <3>1, <3>2, RunsSimple
  <2>8. CASE kind = "quit" /\ DoQuit(extra)
    BY <1>1, <2>4, <2>8, RunsQuit DEF DoQuit
  <2>9. CASE kind = "skip" /\ SkipAndReply(first.cmd, extra)
    <3>1. first.at = 1 /\ script[first.cmd].body # 0
      BY <2>5, <2>6, <2>9
    <3>2. /\ FillExtraData(extra, NoJob, script[first.cmd].body) /\ in_job' = NoJob /\ UNCHANGED stored
          /\ state' = IF in_job_read' = 0 THEN "sendword" ELSE "bitbucket"
      BY <2>9 DEF SkipAndReply
    <3>. QED BY <1>1, <2>1, <2>4, <3>1, <3>2, RunsSkip
  <2>10. CASE kind = "put" /\ DoPut(first.cmd, extra)
    <3>1. first.at = 1 /\ script[first.cmd].body # 0
      BY <2>5, <2>6, <2>10
    <3>2. CASE /\ Len(extra) < script[first.cmd].body /\ FillExtraData(extra, first.cmd, 0)
               /\ state' = "wantdata" /\ in_job' = first.cmd /\ UNCHANGED stored
      BY <1>1, <2>1, <2>4, <3>1, <3>2, RunsPutPart
    <3>3. CASE /\ Len(extra) >= script[first.cmd].body
               /\ TakeBody(SubSeq(extra, 1, script[first.cmd].body))
               /\ cmd' = Drop(extra, script[first.cmd].body) /\ state' = "sendword"
      BY <1>1, <2>1, <2>4, <3>1, <3>3, RunsPutWhole
    <3>. QED BY <2>10, <3>2, <3>3 DEF DoPut, Reply
  <2>. QED BY <2>3, <2>7, <2>8, <2>9, <2>10
<1>. QED BY <1>6, <1>7, <1>8, <1>9

\* What a handler that takes bytes of a body has: k of them, and the rest.
LEMMA Piece ==
  ASSUME InInv, cmd = <<>>, NEW room \in Nat, NEW piece \in Pieces(room), Read(piece)
  PROVE  \E k \in Nat :
           /\ k > 0 /\ k <= room /\ k <= Len(Ahead) /\ Ahead = input /\ Ahead \in Seq(Bytes)
           /\ piece \in Seq(Bytes) /\ Len(piece) = k
           /\ \A j \in 1 .. k : piece[j] = Ahead[j]
           /\ input' = Drop(Ahead, k) /\ input' \in Seq(Bytes)
           /\ <<>> \o input' = input'
<1>1. input \in Seq(Bytes) /\ cmd \in Seq(Bytes)
  BY DEF InInv, InTypes
<1>2. PICK z \in Nat : z = Len(input)
  BY <1>1, LenProperties
<1>3. PICK k \in 1 .. Min({room, z}) : piece = SubSeq(input, 1, k)
  BY <1>2 DEF Pieces
<1>4. k \in Nat /\ k > 0 /\ k <= room /\ k <= z /\ k \in 0 .. z
  BY <1>3, Taken
<1>5. /\ piece \in Seq(Bytes) /\ Len(piece) = k
      /\ \A j \in 1 .. k : piece[j] = input[j]
  BY <1>1, <1>2, <1>3, <1>4, FrontFacts
<1>6. input' = Drop(input, k) /\ input' \in Seq(Bytes)
  BY <1>1, <1>2, <1>4, <1>5, DropFacts DEF Read
<1>7. <<>> \o input' = input' /\ <<>> \o input = input
  BY <1>1, <1>6, ConcatEmptySeq
<1>8. Ahead = input
  BY <1>7 DEF Ahead
<1>. QED BY <1>1, <1>2, <1>4, <1>5, <1>6, <1>7, <1>8

\* STATE_WANTDATA.
LEMMA ReadBodyIn ==
  ASSUME InInv, ReadBody
  PROVE  InInv'
<1>1. /\ InTypes /\ Reading /\ InScript /\ state = "wantdata" /\ peer = "here" /\ cmd = <<>>
      /\ in_job # NoJob /\ in_job_read \in Nat /\ in_job_read < script[in_job].body
      /\ script \in Scripts /\ body \in Seq(Bytes)
  BY DEF InInv, InTypes, Reading, ReadBody, Handling
<1>2. PICK i \in 1 .. Len(script), c \in Nat, b \in Nat :
        i = in_job /\ c = in_job_read /\ b = script[i].body /\ c < b
  <2>1. in_job \in 1 .. Len(script)
    BY <1>1 DEF InTypes, NoJob
  <2>. QED BY <1>1, <2>1, Commands
<1>3. b - c \in Nat /\ b - c # 0
  BY <1>2
<1>4. PICK piece \in Pieces(b - c) :
        /\ Read(piece)
        /\ \/ c + Len(piece) = b /\ TakeBody(body \o piece) /\ Reply
           \/ /\ c + Len(piece) < b
              /\ body' = body \o piece /\ in_job_read' = c + Len(piece)
              /\ UNCHANGED <<state, in_job, outVars, stored>>
        /\ UNCHANGED <<script, peer, cmd, taken, refused, answered>>
  BY <1>2, <1>3 DEF ReadBody, NoRoom
<1>5. PICK k \in Nat :
        /\ k > 0 /\ k <= b - c /\ k <= Len(Ahead) /\ Ahead = input /\ Ahead \in Seq(Bytes)
        /\ piece \in Seq(Bytes) /\ Len(piece) = k
        /\ \A j \in 1 .. k : piece[j] = Ahead[j]
        /\ input' = Drop(Ahead, k) /\ input' \in Seq(Bytes)
        /\ <<>> \o input' = input'
  BY <1>1, <1>3, <1>4, Piece
<1>6. PICK t \in Seq(Bytes) : t = Ahead /\ Run(t)
  BY <1>1, <1>5 DEF InScript
<1>7. script' = script /\ Bytes' = Bytes /\ cmd' = <<>> /\ Ahead' = Drop(t, k) /\ taken' = taken
  BY <1>1, <1>4, <1>5, <1>6, SameScript DEF Ahead
<1>8. c + k \in Nat /\ c + k <= b
  BY <1>2, <1>5
<1>9. Len(t) > 0 => Proper(i) /\ t[1] = Byte(i, LineSize(i) + c + 1) /\ Handled(taken, t[1])
  BY <1>1, <1>2, <1>6 DEF InScript, HeadOK
<1>10. Len(t) > 0
  BY <1>5, <1>6
<1>11. /\ \A j \in 1 .. k : t[j] = Byte(i, LineSize(i) + (c + j))
       /\ Drop(t, k) \in Seq(Bytes) /\ Run(Drop(t, k))
       /\ Len(Drop(t, k)) > 0 =>
            /\ c + k < b => Drop(t, k)[1] = Byte(i, LineSize(i) + (c + k) + 1)
            /\ c + k = b => Drop(t, k)[1] = Byte(i + 1, 1) /\ LineStart(Drop(t, k)[1])
  <2>1. /\ k <= Len(t) /\ c + k <= script[i].body /\ c < script[i].body
        /\ Proper(i) /\ t[1] = Byte(i, LineSize(i) + c + 1)
    BY <1>2, <1>5, <1>6, <1>8, <1>9, <1>10
  <2>0. script \in Scripts /\ Run(t)
    BY <1>1, <1>6
  <2>2. ASSUME NEW j \in 1 .. k  PROVE t[j] = Byte(i, LineSize(i) + (c + j))
    BY <2>0, <2>1, InsideBody, ZenonT(30)
  <2>3. Drop(t, k) \in Seq(Bytes) /\ Run(Drop(t, k))
    BY <2>0, <2>1, InsideBody
  <2>4. ASSUME Len(Drop(t, k)) > 0, c + k < script[i].body
        PROVE  Drop(t, k)[1] = Byte(i, LineSize(i) + (c + k) + 1)
    BY <2>0, <2>1, <2>4, InsideBody
  <2>5. ASSUME Len(Drop(t, k)) > 0, c + k = script[i].body
        PROVE  Drop(t, k)[1] = Byte(i + 1, 1) /\ LineStart(Drop(t, k)[1])
    BY <2>0, <2>1, <2>5, InsideBody
  <2>. QED BY <1>2, <2>2, <2>3, <2>4, <2>5
<1>12. ASSUME Len(Drop(t, k)) > 0  PROVE Handled(taken, Drop(t, k)[1])
  <2>1. t[1] = AfterBody(i, c) /\ Drop(t, k)[1] = AfterBody(i, c + k)
    <3>1. c < script[i].body /\ (c + k < script[i].body \/ c + k = script[i].body)
      BY <1>2, <1>8
    <3>2. t[1] = Byte(i, LineSize(i) + c + 1)
      BY <1>9, <1>10, Zenon
    <3>3. t[1] = AfterBody(i, c)
      BY <3>1, <3>2, Zenon DEF AfterBody
    <3>4. CASE c + k < script[i].body
      <4>1. Drop(t, k)[1] = Byte(i, LineSize(i) + (c + k) + 1)
        BY <1>2, <1>11, <1>12, <3>4, Zenon
      <4>. QED BY <3>3, <3>4, <4>1, Zenon DEF AfterBody
    <3>5. CASE c + k = script[i].body
      <4>1. Drop(t, k)[1] = Byte(i + 1, 1)
        BY <1>2, <1>11, <1>12, <3>5, Zenon
      <4>2. ~ (c + k < script[i].body)
        BY <1>2, <1>8, <3>5
      <4>. QED BY <3>3, <4>1, <4>2, Zenon DEF AfterBody
    <3>. QED BY <3>1, <3>4, <3>5
  <2>2. script \in Scripts /\ taken \in Seq(Bytes) /\ c < script[i].body
    BY <1>1, <1>2 DEF InTypes
  <2>3. Handled(taken, AfterBody(i, c))
    BY <1>9, <1>10, <2>1
  <2>4. Handled(taken, AfterBody(i, c + k))
    BY <1>8, <2>2, <2>3, BodyTaken
  <2>. QED BY <2>1, <2>4
<1>13. /\ body \o piece \in Seq(Bytes) /\ Len(body \o piece) = c + k
       /\ \A j \in 1 .. c + k : (body \o piece)[j] = Byte(i, LineSize(i) + j)
  <2>1. Len(body) = c /\ \A j \in 1 .. c : body[j] = Byte(i, LineSize(i) + j)
    BY <1>1, <1>2 DEF InScript, Bodies
  <2>2. /\ body \o piece \in Seq(Bytes) /\ Len(body \o piece) = c + k
        /\ \A j \in 1 .. c + k : (body \o piece)[j] = IF j <= c THEN body[j] ELSE piece[j - c]
    <3>1. body \in Seq(Bytes) /\ piece \in Seq(Bytes)
      BY <1>1, <1>5
    <3>2. /\ body \o piece \in Seq(Bytes) /\ Len(body \o piece) = Len(body) + Len(piece)
          /\ \A j \in 1 .. Len(body) + Len(piece) :
               (body \o piece)[j] = IF j <= Len(body) THEN body[j] ELSE piece[j - Len(body)]
      BY <3>1, ConcatProperties
    <3>3. Len(body) = c /\ Len(piece) = k
      BY <1>5, <2>1
    <3>. QED BY <3>2, <3>3, Zenon
  <2>3. ASSUME NEW j \in 1 .. c + k  PROVE (body \o piece)[j] = Byte(i, LineSize(i) + j)
    <3>1. CASE j <= c
      BY <2>1, <2>2, <3>1
    <3>2. CASE ~ (j <= c)
      <4>1. j - c \in 1 .. k /\ c + (j - c) = j
        BY <3>2
      <4>2. piece[j - c] = t[j - c] /\ t[j - c] = Byte(i, LineSize(i) + (c + (j - c)))
        BY <1>5, <1>6, <1>11, <4>1
      <4>. QED BY <2>2, <3>2, <4>1, <4>2
    <3>. QED BY <3>1, <3>2
  <2>. QED BY <2>2, <2>3
<1>14. CASE c + k = b
  <2>1. TakeBody(body \o piece) /\ state' = "sendword"
    <3>1. ~ (c + Len(piece) < b)
      BY <1>2, <1>5, <1>14
    <3>. QED BY <1>4, <3>1 DEF Reply
  <2>2. in_job' = NoJob /\ in_job_read' = 0 /\ body' = <<>> /\ stored' = Append(stored, body \o piece)
    BY <2>1 DEF TakeBody
  <2>3. Append(stored, body \o piece) \in Seq(Seq(Bytes))
        /\ Bodies(NoJob, 0, <<>>, Append(stored, body \o piece))
    <3>1. PICK x \in Seq(Bytes) : x = body \o piece
      BY <1>13
    <3>2. stored \in Seq(Seq(Bytes)) /\ Bodies(in_job, in_job_read, body, stored)
      BY <1>1 DEF InTypes, InScript
    <3>3. /\ Len(x) = script[i].body
          /\ \A j \in 1 .. script[i].body : x[j] = Byte(i, LineSize(i) + j)
      BY <1>2, <1>13, <1>14, <3>1, Zenon
    <3>4. script \in Scripts /\ script[i].body # 0
      BY <1>1, <1>2
    <3>5. Append(stored, x) \in Seq(Seq(Bytes)) /\ Bodies(NoJob, 0, <<>>, Append(stored, x))
      BY <3>2, <3>3, <3>4, WholeBody
    <3>. QED BY <3>1, <3>5
  <2>4. InTypes'
    <3>1. 0 \in 0 .. Len(script) /\ <<>> \in Seq(Bytes) /\ Len(<<>>) <= LineBufSize
      BY <1>1, Commands, EmptySeq, SizesAssumption DEF InTypes
    <3>. QED BY <1>1, <1>5, <1>7, <2>2, <2>3, <3>1 DEF InTypes, NoJob
  <2>5. Reading'
    <3>1. Len(<<>>) < LineBufSize
      BY SizesAssumption
    <3>. QED BY <1>7, <2>1, <2>2, <3>1 DEF Reading
  <2>6. InScript'
    <3>1. HeadOK(Ahead', state', in_job', in_job_read', taken')
      BY <1>7, <1>11, <1>12, <1>14, <2>1, Zenon DEF HeadOK
    <3>. QED BY <1>1, <1>7, <1>11, <2>2, <2>3, <3>1, SameScript DEF InScript
  <2>. QED BY <2>4, <2>5, <2>6 DEF InInv
<1>15. CASE c + k < b
  <2>1. body' = body \o piece /\ in_job_read' = c + k /\ state' = state /\ in_job' = in_job /\ stored' = stored
    <3>1. ~ (c + Len(piece) = b)
      BY <1>2, <1>5, <1>15
    <3>. QED BY <1>4, <1>5, <3>1
  <2>2. InTypes'
    BY <1>1, <1>5, <1>7, <1>8, <1>13, <2>1 DEF InTypes
  <2>3. Reading'
    BY <1>1, <1>2, <1>7, <1>15, <2>1 DEF Reading
  <2>4. InScript'
    <3>1. HeadOK(Ahead', state', in_job', in_job_read', taken')
      <4>1. Len(Drop(t, k)) > 0 =>
              /\ Proper(i) /\ Drop(t, k)[1] = Byte(i, LineSize(i) + (c + k) + 1)
              /\ Handled(taken, Drop(t, k)[1])
        BY <1>9, <1>10, <1>11, <1>12, <1>15
      <4>. QED BY <1>1, <1>2, <1>7, <2>1, <4>1 DEF HeadOK
    <3>2. Bodies(in_job', in_job_read', body', stored')
      <4>1. Bodies(in_job, in_job_read, body, stored) /\ c + k <= script[i].body /\ script[i].body # 0
        BY <1>1, <1>2, <1>8 DEF InScript
      <4>. QED BY <1>2, <1>13, <2>1, <4>1 DEF Bodies
    <3>. QED BY <1>1, <1>7, <1>11, <3>1, <3>2, SameScript DEF InScript
  <2>. QED BY <2>2, <2>3, <2>4 DEF InInv
<1>. QED BY <1>8, <1>14, <1>15

\* STATE_BITBUCKET.
LEMMA ThrowAwayIn ==
  ASSUME InInv, ThrowAway
  PROVE  InInv'
<1>1. /\ InTypes /\ Reading /\ InScript /\ state = "bitbucket" /\ peer = "here" /\ cmd = <<>>
      /\ in_job = NoJob /\ in_job_read \in Nat /\ in_job_read > 0
      /\ script \in Scripts /\ taken \in Seq(Bytes)
  BY DEF InInv, InTypes, Reading, ThrowAway, Handling
<1>2. PICK r, room \in Nat : r = in_job_read /\ room = Min({r, BucketBufSize}) /\ room <= r /\ room # 0
  <2>1. PICK m, q \in Nat : m = BucketBufSize /\ m # 0 /\ q = in_job_read /\ q > 0
    BY <1>1, SizesAssumption
  <2>2. PICK y \in Nat : y = Min({q, m}) /\ y = IF q <= m THEN q ELSE m
    BY Taken
  <2>3. y <= q /\ y # 0
    BY <2>1, <2>2
  <2>. QED BY <2>1, <2>2, <2>3
<1>3. PICK piece \in Pieces(room) :
        /\ Read(piece) /\ in_job_read' = r - Len(piece)
        /\ IF in_job_read' = 0 THEN SkipDone ELSE UNCHANGED <<state, outVars>>
        /\ UNCHANGED <<script, peer, cmd, in_job, body, histVars>>
  BY <1>2 DEF ThrowAway, NoRoom
<1>4. PICK k \in Nat :
        /\ k > 0 /\ k <= room /\ k <= Len(Ahead) /\ Ahead = input /\ Ahead \in Seq(Bytes)
        /\ piece \in Seq(Bytes) /\ Len(piece) = k
        /\ input' = Drop(Ahead, k) /\ input' \in Seq(Bytes)
        /\ <<>> \o input' = input'
  BY <1>1, <1>3, Piece
<1>5. PICK t \in Seq(Bytes) : t = Ahead /\ Run(t) /\ Len(t) > 0
  BY <1>1, <1>4 DEF InScript
<1>6. script' = script /\ Bytes' = Bytes /\ cmd' = <<>> /\ Ahead' = Drop(t, k)
      /\ taken' = taken /\ stored' = stored /\ in_job' = NoJob /\ body' = body /\ peer' = peer
  BY <1>1, <1>3, <1>4, <1>5, SameScript DEF Ahead, histVars
<1>7. PICK u \in Bytes : u = t[1]
  <2>1. 1 \in 1 .. Len(t)
    BY <1>5
  <2>. QED BY <2>1, ElementOfSeq
<1>8. Proper(u.cmd) /\ u.at > LineSize(u.cmd) /\ r = Size(u.cmd) - u.at + 1 /\ Handled(taken, u)
  BY <1>1, <1>2, <1>5, <1>7 DEF InScript, HeadOK
<1>9. PICK i \in 1 .. Len(script), p \in Nat : i = u.cmd /\ p = u.at /\ u = Byte(i, p)
  BY <1>1, <1>7, InBytes
<1>10. PICK a, b \in Nat : a = LineSize(i) /\ b = script[i].body /\ Size(i) = a + b
  BY <1>1, <1>9, Commands
<1>11. PICK c \in Nat : c = p - a - 1 /\ c < b /\ r = b - c /\ p = a + c + 1
  <2>1. p > a /\ r = (a + b) - p + 1 /\ r > 0
    BY <1>1, <1>2, <1>8, <1>9, <1>10
  <2>. QED BY <2>1
<1>12. /\ c + k \in Nat /\ c + k <= b /\ r - k \in Nat /\ (r - k = 0 <=> c + k = b)
       /\ r - k # 0 => r - k > 0 /\ c + k < b
  BY <1>2, <1>4, <1>11
<1>13. t[1] = Byte(i, LineSize(i) + c + 1)
  BY <1>7, <1>9, <1>10, <1>11
<1>14. /\ Drop(t, k) \in Seq(Bytes) /\ Run(Drop(t, k))
       /\ Len(Drop(t, k)) > 0 =>
            /\ c + k < b => Drop(t, k)[1] = Byte(i, LineSize(i) + (c + k) + 1)
            /\ c + k = b => Drop(t, k)[1] = Byte(i + 1, 1) /\ LineStart(Drop(t, k)[1])
  <2>1. /\ k <= Len(t) /\ c + k <= script[i].body /\ c < script[i].body
        /\ Proper(i) /\ t[1] = Byte(i, LineSize(i) + c + 1)
    BY <1>4, <1>5, <1>8, <1>9, <1>10, <1>11, <1>12, <1>13
  <2>2. script \in Scripts /\ Run(t)
    BY <1>1, <1>5
  <2>3. Drop(t, k) \in Seq(Bytes) /\ Run(Drop(t, k))
    BY <2>1, <2>2, InsideBody
  <2>4. ASSUME Len(Drop(t, k)) > 0, c + k < script[i].body
        PROVE  Drop(t, k)[1] = Byte(i, LineSize(i) + (c + k) + 1)
    BY <2>1, <2>2, <2>4, InsideBody
  <2>5. ASSUME Len(Drop(t, k)) > 0, c + k = script[i].body
        PROVE  Drop(t, k)[1] = Byte(i + 1, 1) /\ LineStart(Drop(t, k)[1])
    BY <2>1, <2>2, <2>5, InsideBody
  <2>. QED BY <1>10, <2>3, <2>4, <2>5
<1>15. ASSUME Len(Drop(t, k)) > 0  PROVE Handled(taken, Drop(t, k)[1])
  <2>1. t[1] = AfterBody(i, c) /\ Drop(t, k)[1] = AfterBody(i, c + k)
    BY <1>10, <1>11, <1>12, <1>13, <1>14, <1>15 DEF AfterBody
  <2>2. script \in Scripts /\ taken \in Seq(Bytes) /\ c < script[i].body
    BY <1>1, <1>10, <1>11
  <2>3. Handled(taken, AfterBody(i, c))
    BY <1>7, <1>8, <2>1
  <2>4. Handled(taken, AfterBody(i, c + k))
    BY <1>12, <2>2, <2>3, BodyTaken
  <2>. QED BY <2>1, <2>4
<1>16. in_job_read' = r - k /\ state' = IF r - k = 0 THEN "sendword" ELSE "bitbucket"
  BY <1>1, <1>3, <1>4 DEF SkipDone, Reply
<1>17. InTypes'
  BY <1>1, <1>4, <1>6, <1>12, <1>16 DEF InTypes
<1>18. Reading'
  BY <1>1, <1>6, <1>12, <1>16, SizesAssumption DEF Reading
<1>19. HeadOK(Ahead', state', in_job', in_job_read', taken')
  <2>1. CASE r - k = 0
    BY <1>6, <1>12, <1>14, <1>15, <1>16, <2>1 DEF HeadOK
  <2>2. CASE r - k # 0
    <3>1. ASSUME Len(Drop(t, k)) > 0
          PROVE  /\ Proper(Drop(t, k)[1].cmd) /\ Drop(t, k)[1].at > LineSize(Drop(t, k)[1].cmd)
                 /\ r - k = Size(Drop(t, k)[1].cmd) - Drop(t, k)[1].at + 1
      <4>1. Drop(t, k)[1].cmd = i /\ Drop(t, k)[1].at = LineSize(i) + (c + k) + 1
        BY <1>12, <1>14, <2>2, <3>1, ByteParts
      <4>2. Proper(i)
        BY <1>8, <1>9
      <4>3. a + (c + k) + 1 > a /\ r - k = (a + b) - (a + (c + k) + 1) + 1
        <5>1. r = b - c
          BY <1>11
        <5>. QED BY <5>1
      <4>. QED BY <1>10, <4>1, <4>2, <4>3, Zenon
    <3>. QED BY <1>6, <1>15, <1>16, <2>2, <3>1 DEF HeadOK
  <2>. QED BY <2>1, <2>2
<1>20. InScript'
  <2>1. Bodies(in_job', in_job_read', body', stored')
    BY <1>1, <1>6, NoBody DEF InScript
  <2>. QED BY <1>1, <1>6, <1>14, <1>19, <2>1, SameScript DEF InScript
<1>. QED BY <1>17, <1>18, <1>20 DEF InInv

\* The steps that read nothing.
LEMMA ReadsNothing ==
  ASSUME InInv, UNCHANGED <<script, input, cmd, in_job, body, taken, stored>>,
         \/ state' = "closed" /\ in_job_read' = in_job_read
         \/ /\ state' = state /\ in_job_read' = in_job_read
            /\ peer' = "noticed" \/ peer # "noticed"
         \/ /\ state = "bitbucket" /\ state' = state /\ in_job_read' = in_job_read + 1
            /\ peer' = "noticed"
         \/ /\ {state, state'} \cap {"wantdata", "bitbucket", "closed"} = {}
            /\ in_job_read' = in_job_read /\ peer' = peer
  PROVE  InInv'
<1>1. InTypes /\ Reading /\ InScript /\ in_job_read \in Nat /\ script' = script /\ Bytes' = Bytes
  BY SameScript DEF InInv, InTypes
<1>2. InTypes'
  BY <1>1 DEF InTypes
<1>3. Reading'
  BY <1>1 DEF Reading
<1>4. Ahead' = Ahead
  BY DEF Ahead
<1>5. state' # "closed" => Run(Ahead)
  BY <1>1 DEF InScript
<1>6. Bodies(in_job', in_job_read', body', stored')
  <2>1. CASE in_job_read' = in_job_read
    BY <1>1, <2>1 DEF InScript
  <2>2. CASE state = "bitbucket"
    BY <1>1, <2>2, NoBody DEF InScript, Reading
  <2>. QED BY <2>1, <2>2
<1>7. state' # "closed" /\ peer' # "noticed" => HeadOK(Ahead, state', in_job', in_job_read', taken')
  <2>1. CASE state' = state /\ in_job_read' = in_job_read /\ peer # "noticed"
    BY <1>1, <2>1 DEF InScript
  <2>2. CASE /\ state \notin {"wantdata", "bitbucket", "closed"}
             /\ state' \notin {"wantdata", "bitbucket", "closed"} /\ peer' = peer
    BY <1>1, <2>2 DEF InScript, HeadOK
  <2>. QED BY <2>1, <2>2
<1>8. InScript'
  BY <1>1, <1>4, <1>5, <1>6, <1>7, SameScript DEF InScript
<1>. QED BY <1>2, <1>3, <1>8 DEF InInv

\* Every step keeps what is known of what is read.
LEMMA InStep ==
  ASSUME InInv, [Next]_ioVars
  PROVE  InInv'
<1>1. CASE ReadCommand
  BY <1>1, ReadCommandIn
<1>2. CASE ReadBody
  BY <1>2, ReadBodyIn
<1>3. CASE ThrowAway
  BY <1>3, ThrowAwayIn
<1>4. CASE WriteReply
  <2>1. /\ UNCHANGED <<script, input, cmd, in_job, body, taken, stored>> /\ in_job_read' = in_job_read
        /\ peer' = peer /\ state \in {"sendword", "sendjob"}
        /\ \E r : Sent(r)
    BY <1>4 DEF WriteReply, Handling, inVars
  <2>2. state' = state \/ state' = "wantcommand"
    BY <2>1 DEF Sent
  <2>. QED BY <2>1, <2>2, ReadsNothing
<1>5. CASE WaitEnds
  <2>1. /\ UNCHANGED <<script, input, cmd, in_job, body, taken, stored>> /\ in_job_read' = in_job_read
        /\ peer' = peer /\ state = "wait" /\ state' \in {"sendword", "sendjob"}
    BY <1>5 DEF WaitEnds, Handling, inVars, histVars, Reply, ReplyJob
  <2>. QED BY <2>1, ReadsNothing
<1>6. CASE PeerCloses
  BY <1>6, ReadsNothing DEF PeerCloses, inVars, histVars
<1>7. CASE HangUp
  BY <1>7, ReadsNothing DEF HangUp, Close, inVars, histVars
<1>8. CASE FailedCall
  BY <1>8, ReadsNothing DEF FailedCall, Close, inVars, histVars
<1>9. CASE UNCHANGED ioVars
  <2>1. /\ UNCHANGED <<script, input, cmd, in_job, body, taken, stored>> /\ in_job_read' = in_job_read
        /\ peer' = peer /\ state' = state
    BY <1>9 DEF ioVars, inVars, histVars
  <2>. QED BY <2>1, ReadsNothing
<1>. QED BY <1>1, <1>2, <1>3, <1>4, <1>5, <1>6, <1>7, <1>8, <1>9 DEF Next, Handler

(* What a step does with the reply.                                             *)

\* reply_line, reply_job.
LEMMA StartsReply ==
  ASSUME OutTypes, NEW what \in {"line", "job"}, StartReply(what), peer' = peer,
         state' = "sendword" => what = "line", state' = "sendjob" => what = "job",
         state' \in {"bitbucket", "sendword", "sendjob"},
         answered' = answered, refused' \in Nat
  PROVE  OutTypes' /\ Writing' /\ SentExactly'
<1>1. /\ reply' = what /\ reply_sent' = 0 /\ sent' = 0
      /\ out_job_sent' = IF what = "job" THEN 0 ELSE out_job_sent
  BY DEF StartReply
<1>2. WordLen \in Nat \ {0} /\ JobLen \in Nat \ {0}
  BY SizesAssumption
<1>3. out_job_sent' \in 0 .. JobLen /\ (state' = "sendjob" => out_job_sent' = 0)
  BY <1>1, <1>2 DEF OutTypes
<1>4. OutTypes'
  BY <1>1, <1>2, <1>3 DEF OutTypes
<1>5. Writing'
  BY <1>1, <1>2, <1>3 DEF Writing
<1>6. SentExactly'
  BY <1>1, <1>3 DEF SentExactly
<1>. QED BY <1>4, <1>5, <1>6

\* The steps that leave the reply alone.
LEMMA KeepsReply ==
  ASSUME OutTypes, Writing, SentExactly, UNCHANGED <<reply, reply_sent, out_job_sent, sent>>,
         answered' = answered, refused' = refused,
         peer' \in {"here", "gone", "noticed"}, peer' = "noticed" \/ peer # "noticed",
         state' = state \/ state' \in {"wantdata", "bitbucket", "wait", "closed"}
  PROVE  OutTypes' /\ Writing' /\ SentExactly'
BY DEF OutTypes, Writing, SentExactly

\* write and writev take r bytes.
LEMMA WritesReply ==
  ASSUME OutInv, WriteReply
  PROVE  OutInv'
<1>1. /\ OutTypes /\ Writing /\ OneReplyPerLine /\ SentExactly
      /\ peer = "here" /\ state \in {"sendword", "sendjob"}
      /\ peer' = peer /\ reply' = reply /\ taken' = taken /\ refused' = refused
  BY DEF OutInv, WriteReply, Handling
<1>2. PICK W, J, s, o, w, a \in Nat :
        /\ W = WordLen /\ J = JobLen /\ W # 0 /\ J # 0 /\ s = reply_sent /\ o = out_job_sent
        /\ w = sent /\ a = answered /\ s <= W /\ o <= J
  BY <1>1, SizesAssumption DEF OutTypes, Writing
<1>3. PICK r \in 1 .. (W - s + (IF state = "sendjob" THEN J - o ELSE 0)) : Sent(r)
  BY <1>2 DEF WriteReply
<1>4. /\ r \in Nat /\ r > 0
      /\ state = "sendword" => r <= W - s
      /\ state = "sendjob" => r <= (W - s) + (J - o)
  BY <1>1, <1>2, <1>3
<1>5. PICK line \in Nat : line = Min({s + r, W}) /\ line = (IF s + r <= W THEN s + r ELSE W)
  BY <1>4, Taken
<1>6. PICK job \in Nat :
        /\ job = IF state = "sendjob" THEN o + s + r - line ELSE o
        /\ job <= J
  <2>1. line <= s + r /\ (line = s + r \/ line = W)
    BY <1>4, <1>5
  <2>2. CASE state = "sendjob"
    <3>1. o + s + r - line \in Nat /\ o + s + r - line <= J
      BY <1>2, <1>4, <2>1, <2>2
    <3>. QED BY <2>2, <3>1
  <2>3. CASE state # "sendjob"
    BY <1>2, <2>3
  <2>. QED BY <2>2, <2>3
<1>7. /\ sent' = w + r /\ out_job_sent' = job
      /\ IF SendDone(line, job)
         THEN /\ state' = "wantcommand" /\ reply_sent' = 0 /\ answered' = a + 1
         ELSE /\ reply_sent' = line /\ state' = state /\ answered' = a
  BY <1>2, <1>3, <1>5, <1>6 DEF Sent
<1>8. line <= W /\ (state = "sendword" => line = s + r)
  BY <1>2, <1>4, <1>5
<1>9. CASE state = "sendword"
  <2>1. reply = "line" /\ w = s /\ w + r = line
    BY <1>1, <1>2, <1>8, <1>9 DEF Writing, SentExactly
  <2>2. CASE line = W
    <3>1. state' = "wantcommand" /\ reply_sent' = 0 /\ answered' = a + 1
      BY <1>2, <1>7, <1>9, <2>2 DEF SendDone
    <3>2. OutTypes'
      BY <1>1, <1>2, <1>6, <1>7, <3>1, <1>4 DEF OutTypes
    <3>3. Writing'
      BY <3>1 DEF Writing
    <3>4. SentExactly'
      BY <1>1, <1>2, <1>7, <2>1, <2>2, <3>1 DEF SentExactly
    <3>5. OneReplyPerLine'
      BY <1>1, <1>2, <1>9, <3>1 DEF OneReplyPerLine
    <3>. QED BY <3>2, <3>3, <3>4, <3>5 DEF OutInv
  <2>3. CASE line # W
    <3>1. state' = state /\ reply_sent' = line /\ answered' = a
      BY <1>2, <1>7, <1>9, <2>3 DEF SendDone
    <3>2. OutTypes'
      BY <1>1, <1>2, <1>4, <1>6, <1>7, <1>8, <3>1 DEF OutTypes
    <3>3. Writing'
      BY <1>1, <1>2, <1>8, <1>9, <2>1, <2>3, <3>1 DEF Writing
    <3>4. SentExactly'
      BY <1>1, <1>7, <1>9, <2>1, <3>1 DEF SentExactly
    <3>5. OneReplyPerLine'
      BY <1>1, <1>2, <3>1 DEF OneReplyPerLine
    <3>. QED BY <3>2, <3>3, <3>4, <3>5 DEF OutInv
  <2>. QED BY <2>2, <2>3
<1>10. CASE state = "sendjob"
  <2>1. /\ reply = "job" /\ w = s + o /\ w + r = line + job
        /\ o > 0 => s = W
    BY <1>1, <1>2, <1>6, <1>10 DEF Writing, SentExactly
  <2>2. job > 0 => line = W
    <3>1. o > 0 => line = W
      BY <1>4, <1>5, <2>1
    <3>2. s + r <= W => job = o
      BY <1>5, <1>6, <1>10
    <3>. QED BY <1>5, <3>1, <3>2
  <2>3. CASE job = J
    <3>1. state' = "wantcommand" /\ reply_sent' = 0 /\ answered' = a + 1
      BY <1>2, <1>7, <1>10, <2>3 DEF SendDone
    <3>2. OutTypes'
      BY <1>1, <1>2, <1>4, <1>6, <1>7, <3>1 DEF OutTypes
    <3>3. Writing'
      BY <3>1 DEF Writing
    <3>4. SentExactly'
      <4>1. line = W /\ w + r = W + J
        BY <1>2, <2>1, <2>2, <2>3
      <4>. QED BY <1>1, <1>2, <1>7, <2>1, <3>1, <4>1 DEF SentExactly
    <3>5. OneReplyPerLine'
      BY <1>1, <1>2, <1>10, <3>1 DEF OneReplyPerLine
    <3>. QED BY <3>2, <3>3, <3>4, <3>5 DEF OutInv
  <2>4. CASE job # J
    <3>1. state' = state /\ reply_sent' = line /\ answered' = a
      BY <1>2, <1>7, <1>10, <2>4 DEF SendDone
    <3>2. OutTypes'
      BY <1>1, <1>2, <1>4, <1>6, <1>7, <1>8, <3>1 DEF OutTypes
    <3>3. Writing'
      BY <1>1, <1>2, <1>6, <1>7, <1>10, <2>1, <2>2, <2>4, <3>1 DEF Writing
    <3>4. SentExactly'
      BY <1>1, <1>7, <1>10, <2>1, <3>1 DEF SentExactly
    <3>5. OneReplyPerLine'
      BY <1>1, <1>2, <3>1 DEF OneReplyPerLine
    <3>. QED BY <3>2, <3>3, <3>4, <3>5 DEF OutInv
  <2>. QED BY <2>3, <2>4
<1>. QED BY <1>1, <1>9, <1>10

\* A line is taken or refused, and answered or not yet.
LEMMA ReadCommandOut ==
  ASSUME InInv, OutInv, ReadCommand
  PROVE  OutInv'
<1>1. /\ OutTypes /\ Writing /\ OneReplyPerLine /\ SentExactly
      /\ state = "wantcommand" /\ peer = "here" /\ taken \in Seq(Bytes)
      /\ refused \in Nat /\ answered \in Nat
  BY DEF InInv, InTypes, OutInv, OutTypes, ReadCommand, Handling
<1>2. PICK z \in Nat : z = Len(taken) /\ z + refused = answered
  <2>1. PICK z \in Nat : z = Len(taken)
    BY <1>1, LenProperties
  <2>. QED BY <1>1, <2>1 DEF OneReplyPerLine
<1>3. CASE NoRoom(LineBufSize - Len(cmd))
  <2>1. /\ UNCHANGED <<reply, reply_sent, out_job_sent, sent>> /\ answered' = answered
        /\ refused' = refused /\ peer' = peer /\ state' = "closed"
    BY <1>3 DEF NoRoom, Close, outVars, histVars
  <2>2. OutTypes' /\ Writing' /\ SentExactly'
    BY <1>1, <2>1, KeepsReply
  <2>. QED BY <2>1, <2>2 DEF OutInv, OneReplyPerLine
<1>4. CASE ~ NoRoom(LineBufSize - Len(cmd))
  <2>1. PICK piece, got, n :
          /\ \/ n > 0 /\ DoCmd(SubSeq(got, 1, n), Drop(got, n))
             \/ refused' = refused + 1 /\ Reply /\ taken' = taken /\ answered' = answered
             \/ UNCHANGED <<state, outVars, histVars>>
          /\ peer' = peer
    BY <1>4 DEF ReadCommand
  <2>2. CASE UNCHANGED <<state, outVars, histVars>>
    <3>1. /\ UNCHANGED <<reply, reply_sent, out_job_sent, sent>> /\ answered' = answered
          /\ refused' = refused /\ peer' = peer /\ state' = state /\ taken' = taken
      BY <2>1, <2>2 DEF outVars, histVars
    <3>2. OutTypes' /\ Writing' /\ SentExactly'
      BY <1>1, <3>1, KeepsReply
    <3>. QED BY <1>1, <3>1, <3>2 DEF OutInv, OneReplyPerLine
  <2>3. CASE refused' = refused + 1 /\ Reply /\ taken' = taken /\ answered' = answered
    <3>1. StartReply("line") /\ state' = "sendword" /\ refused' \in Nat
      BY <1>1, <2>3 DEF Reply
    <3>2. OutTypes' /\ Writing' /\ SentExactly'
      BY <1>1, <2>1, <2>3, <3>1, StartsReply
    <3>3. z + (refused + 1) = answered + 1
      BY <1>1, <1>2
    <3>4. OneReplyPerLine'
      BY <1>2, <2>3, <3>1, <3>3 DEF OneReplyPerLine
    <3>. QED BY <3>2, <3>4 DEF OutInv
  <2>4. CASE n > 0 /\ DoCmd(SubSeq(got, 1, n), Drop(got, n))
    <3>1. PICK first, extra, kind :
            /\ taken' = Append(taken, first)
            /\ \/ DoPut(first.cmd, extra)
               \/ SkipAndReply(first.cmd, extra)
               \/ DoQuit(extra)
               \/ DoSimple(kind, extra)
            /\ refused' = refused /\ answered' = answered
      BY <2>4 DEF DoCmd
    <3>2. Len(taken') = z + 1
      BY <1>1, <1>2, <3>1
    <3>3. /\ state' # "wantcommand" /\ OutTypes' /\ Writing' /\ SentExactly'
      <4>1. CASE /\ state' \in {"wantdata", "wait", "closed"}
                 /\ UNCHANGED <<reply, reply_sent, out_job_sent, sent>>
        <5>1. OutTypes' /\ Writing' /\ SentExactly'
          BY <1>1, <2>1, <3>1, <4>1, KeepsReply
        <5>. QED BY <4>1, <5>1
      <4>2. CASE StartReply("line") /\ state' \in {"sendword", "bitbucket"}
        <5>1. OutTypes' /\ Writing' /\ SentExactly'
          BY <1>1, <2>1, <3>1, <4>2, StartsReply
        <5>. QED BY <4>2, <5>1
      <4>3. CASE StartReply("job") /\ state' = "sendjob"
        <5>1. OutTypes' /\ Writing' /\ SentExactly'
          BY <1>1, <2>1, <3>1, <4>3, StartsReply
        <5>. QED BY <4>3, <5>1
      <4>4. CASE DoPut(first.cmd, extra)
        BY <4>1, <4>2, <4>4 DEF DoPut, Reply, outVars
      <4>5. CASE SkipAndReply(first.cmd, extra)
        BY <4>2, <4>5 DEF SkipAndReply
      <4>6. CASE DoQuit(extra)
        BY <4>1, <4>6 DEF DoQuit, outVars
      <4>7. CASE DoSimple(kind, extra)
        BY <4>1, <4>2, <4>3, <4>7 DEF DoSimple, Reply, ReplyJob, outVars
      <4>. QED BY <3>1, <4>4, <4>5, <4>6, <4>7
    <3>4. z + 1 + refused = answered + 1
      BY <1>1, <1>2
    <3>5. OneReplyPerLine'
      BY <3>1, <3>2, <3>3, <3>4 DEF OneReplyPerLine
    <3>. QED BY <3>3, <3>5 DEF OutInv
  <2>. QED BY <2>1, <2>2, <2>3, <2>4
<1>. QED BY <1>3, <1>4

\* The steps that neither take a line nor end a reply.
LEMMA SameLines ==
  ASSUME OneReplyPerLine, taken' = taken, refused' = refused, answered' = answered,
         \/ /\ state # "closed"
            /\ state # "wantcommand"
            /\ state' # "wantcommand"
         \/ state' = "closed"
         \/ state' = state
  PROVE  OneReplyPerLine'
BY DEF OneReplyPerLine

\* Every step keeps what is known of the reply.
LEMMA OutStep ==
  ASSUME InInv, OutInv, [Next]_ioVars
  PROVE  OutInv'
<1>1. /\ OutTypes /\ Writing /\ OneReplyPerLine /\ SentExactly
      /\ peer \in {"here", "gone", "noticed"} /\ refused \in Nat
  BY DEF OutInv, OutTypes
<1>2. CASE ReadCommand
  BY <1>2, ReadCommandOut
<1>3. CASE WriteReply
  BY <1>3, WritesReply
<1>4. CASE ReadBody
  <2>1. /\ state = "wantdata" /\ peer' = peer /\ peer = "here"
        /\ taken' = taken /\ refused' = refused /\ answered' = answered
        /\ \/ /\ UNCHANGED <<reply, reply_sent, out_job_sent, sent>>
              /\ state' = state \/ state' = "closed"
           \/ StartReply("line") /\ state' = "sendword"
    BY <1>4 DEF ReadBody, Handling, NoRoom, Close, Reply, outVars, histVars
  <2>2. OutTypes' /\ Writing' /\ SentExactly'
    BY <1>1, <2>1, KeepsReply, StartsReply
  <2>. QED BY <1>1, <2>1, <2>2, SameLines DEF OutInv
<1>5. CASE ThrowAway
  <2>1. /\ state = "bitbucket" /\ peer' = peer /\ peer = "here"
        /\ taken' = taken /\ refused' = refused /\ answered' = answered
        /\ \/ /\ UNCHANGED <<reply, reply_sent, out_job_sent, sent>>
              /\ state' = state \/ state' = "closed"
           \/ StartReply("line") /\ state' = "sendword"
    BY <1>5 DEF ThrowAway, Handling, NoRoom, Close, SkipDone, Reply, outVars, histVars
  <2>2. OutTypes' /\ Writing' /\ SentExactly'
    BY <1>1, <2>1, KeepsReply, StartsReply
  <2>. QED BY <1>1, <2>1, <2>2, SameLines DEF OutInv
<1>6. CASE WaitEnds
  <2>1. /\ state = "wait" /\ peer' = peer
        /\ taken' = taken /\ refused' = refused /\ answered' = answered
        /\ \/ StartReply("line") /\ state' = "sendword"
           \/ StartReply("job") /\ state' = "sendjob"
    BY <1>6 DEF WaitEnds, Handling, Reply, ReplyJob, histVars
  <2>2. OutTypes' /\ Writing' /\ SentExactly'
    BY <1>1, <2>1, StartsReply
  <2>. QED BY <1>1, <2>1, <2>2, SameLines DEF OutInv
<1>7. CASE \/ HangUp \/ PeerCloses \/ UNCHANGED ioVars
  <2>1. /\ UNCHANGED <<reply, reply_sent, out_job_sent, sent>>
        /\ taken' = taken /\ refused' = refused /\ answered' = answered
        /\ state' = state \/ state' = "closed"
        /\ peer' \in {"here", "gone", "noticed"} /\ (peer' = "noticed" \/ peer # "noticed")
    BY <1>1, <1>7 DEF HangUp, PeerCloses, Close, ioVars, outVars, histVars
  <2>2. OutTypes' /\ Writing' /\ SentExactly'
    BY <1>1, <2>1, KeepsReply
  <2>. QED BY <1>1, <2>1, <2>2, SameLines DEF OutInv
<1>8. CASE FailedCall
  <2>1. /\ peer = "gone" /\ peer' = "noticed"
        /\ taken' = taken /\ refused' = refused /\ answered' = answered
        /\ reply' = reply /\ out_job_sent' = out_job_sent /\ sent' = sent
        /\ state' = state \/ state' = "closed"
        /\ \/ reply_sent' = reply_sent
           \/ reply_sent' = reply_sent - 1
    BY <1>8 DEF FailedCall, Close, outVars, histVars
  <2>2. reply_sent \in 0 .. WordLen /\ WordLen \in Nat
    BY <1>1, <2>1, SizesAssumption DEF OutTypes, Writing
  <2>3. reply_sent' \in -1 .. WordLen
    BY <2>1, <2>2
  <2>4. OutTypes' /\ Writing' /\ SentExactly'
    BY <1>1, <2>1, <2>3 DEF OutTypes, Writing, SentExactly
  <2>. QED BY <1>1, <2>1, <2>4, SameLines DEF OutInv
<1>. QED BY <1>2, <1>3, <1>4, <1>5, <1>6, <1>7, <1>8 DEF Next, Handler

(* What the client sends.                                                       *)

\* The bytes of one command.
LEMMA TextRun ==
  ASSUME script \in Scripts, NEW i \in 1 .. Len(script)
  PROVE  /\ Run(Text(i)) /\ Len(Text(i)) = Size(i) /\ Size(i) \in Nat /\ Size(i) > 0
         /\ Text(i)[1] = Byte(i, 1) /\ Text(i)[Size(i)] = Byte(i, Size(i))
<1>1. Size(i) \in Nat /\ Size(i) > 0
  <2>1. PICK a, b \in Nat : Size(i) = a + b /\ a > 2
    BY Commands
  <2>. QED BY <2>1
<1>2. Text(i) \in Seq(Bytes) /\ Len(Text(i)) = Size(i)
  <2>1. \A k \in 1 .. Size(i) : Byte(i, k) \in Bytes
    BY DEF Bytes
  <2>. QED BY <1>1, <2>1 DEF Text
<1>3. \A k \in 1 .. Size(i) : Text(i)[k] = Byte(i, k)
  BY DEF Text
<1>4. ASSUME NEW k \in 1 .. Size(i) - 1  PROVE Text(i)[k + 1] = After(Text(i)[k])
  <2>1. k \in 1 .. Size(i) /\ k + 1 \in 1 .. Size(i) /\ k < Size(i)
    BY <1>1
  <2>2. After(Byte(i, k)) = Byte(i, k + 1)
    BY <2>1, ByteParts DEF After
  <2>. QED BY <1>3, <2>1, <2>2
<1>5. 1 \in 1 .. Size(i) /\ Size(i) \in 1 .. Size(i)
  BY <1>1
<1>. QED BY <1>1, <1>2, <1>3, <1>4, <1>5 DEF Run

\* Two pieces that follow each other.
LEMMA RunConcat ==
  ASSUME NEW s, NEW t, Run(s), Run(t), Len(s) > 0, Len(t) > 0, t[1] = After(s[Len(s)])
  PROVE  /\ Run(s \o t) /\ Len(s \o t) > 0 /\ (s \o t)[1] = s[1]
         /\ (s \o t)[Len(s \o t)] = t[Len(t)]
<1>1. s \in Seq(Bytes) /\ t \in Seq(Bytes)
  BY DEF Run
<1>2. PICK x, y \in Nat : x = Len(s) /\ y = Len(t) /\ x > 0 /\ y > 0
  BY <1>1, LenProperties
<1>3. /\ s \o t \in Seq(Bytes) /\ Len(s \o t) = x + y
      /\ \A k \in 1 .. x + y : (s \o t)[k] = IF k <= x THEN s[k] ELSE t[k - x]
  BY <1>1, <1>2, ConcatProperties
<1>4. /\ \A k \in 1 .. x - 1 : s[k + 1] = After(s[k])
      /\ \A k \in 1 .. y - 1 : t[k + 1] = After(t[k])
  BY <1>2 DEF Run
<1>5. ASSUME NEW k \in 1 .. x + y - 1  PROVE (s \o t)[k + 1] = After((s \o t)[k])
  <2>1. CASE k < x
    <3>1. /\ k \in 1 .. x - 1 /\ k \in 1 .. x + y /\ k + 1 \in 1 .. x + y /\ k <= x /\ k + 1 <= x
      BY <1>2, <2>1
    <3>. QED BY <1>3, <1>4, <3>1
  <2>2. CASE k = x
    <3>1. k \in 1 .. x + y /\ k + 1 \in 1 .. x + y /\ k <= x /\ ~ (k + 1 <= x) /\ (k + 1) - x = 1
      BY <1>2, <2>2
    <3>2. (s \o t)[k] = s[x] /\ (s \o t)[k + 1] = t[1]
      BY <1>3, <2>2, <3>1
    <3>. QED BY <1>2, <3>2
  <2>3. CASE k > x
    <3>1. /\ k - x \in 1 .. y - 1 /\ k \in 1 .. x + y /\ k + 1 \in 1 .. x + y /\ ~ (k <= x) /\ ~ (k + 1 <= x)
          /\ (k + 1) - x = (k - x) + 1
      BY <1>2, <2>3
    <3>. QED BY <1>3, <1>4, <3>1
  <2>. QED BY <1>2, <2>1, <2>2, <2>3
<1>6. Run(s \o t)
  BY <1>3, <1>5, SMTT(30) DEF Run
<1>7. 1 \in 1 .. x + y /\ 1 <= x /\ x + y \in 1 .. x + y /\ ~ (x + y <= x) /\ (x + y) - x = y /\ x + y > 0
  BY <1>2
<1>. QED BY <1>2, <1>3, <1>6, <1>7

\* The commands of the script, one after the other, from the first byte of the first.
LEMMA WholeScript ==
  ASSUME script \in Scripts
  PROVE  LET s == FlattenSeq([i \in DOMAIN script |-> Text(i)])
         IN  Run(s) /\ (Len(s) > 0 => Len(script) > 0 /\ s[1] = Byte(1, 1))
<1>. DEFINE seqs == [i \in DOMAIN script |-> Text(i)]
<1>1. PICK m \in Nat : m = Len(script) /\ DOMAIN script = 1 .. m
  BY Commands, ScriptsAssumption, LenProperties
<1>2. Len(seqs) = m /\ \A i \in 1 .. m : seqs[i] = Text(i)
  BY <1>1
<1>3. CASE m = 0
  <2>1. seqs = <<>> /\ Len(seqs) = 0
    BY <1>1, <1>2, <1>3
  <2>2. FlattenSeq(seqs) = <<>>
    BY <2>1 DEF FlattenSeq
  <2>3. Run(<<>>) /\ Len(<<>>) = 0
    BY EmptySeq DEF Run
  <2>. QED BY <2>2, <2>3
<1>4. CASE m # 0
  <2>. HIDE DEF seqs
  <2>1. PICK f : /\ f = [i \in 1 .. m |-> IF i = 1 THEN seqs[i] ELSE f[i - 1] \o seqs[i]]
                 /\ FlattenSeq(seqs) = f[m]
    BY <1>2, <1>4, FlattenDef
  <2>. DEFINE OK(n) == /\ Run(f[n]) /\ Len(f[n]) > 0 /\ f[n][1] = Byte(1, 1)
                       /\ f[n][Len(f[n])] = Byte(n, Size(n))
              S == {n \in Nat : n + 1 \in 1 .. m => OK(n + 1)}
  <2>2. f[1] = Text(1) /\ \A n \in Nat : (n + 1) + 1 \in 1 .. m => f[(n + 1) + 1] = f[n + 1] \o Text((n + 1) + 1)
    <3>1. 1 \in 1 .. m
      BY <1>4
    <3>2. f[1] = Text(1)
      BY <1>2, <2>1, <3>1
    <3>3. ASSUME NEW n \in Nat, (n + 1) + 1 \in 1 .. m
          PROVE  f[(n + 1) + 1] = f[n + 1] \o Text((n + 1) + 1)
      <4>1. (n + 1) + 1 # 1 /\ ((n + 1) + 1) - 1 = n + 1
        OBVIOUS
      <4>. QED BY <1>2, <2>1, <3>3, <4>1
    <3>. QED BY <3>2, <3>3
  <2>3. 0 \in S
    <3>1. 1 \in 1 .. Len(script) /\ 0 + 1 = 1
      BY <1>1, <1>4
    <3>2. OK(1)
      BY <2>2, <3>1, TextRun
    <3>. QED BY <3>1, <3>2
  <2>4. ASSUME NEW n \in Nat, n \in S  PROVE n + 1 \in S
    <3>1. SUFFICES ASSUME (n + 1) + 1 \in 1 .. m  PROVE OK((n + 1) + 1)
      OBVIOUS
    <3>2. n + 1 \in 1 .. m /\ n + 1 \in 1 .. Len(script) /\ (n + 1) + 1 \in 1 .. Len(script)
      BY <1>1, <3>1
    <3>3. OK(n + 1)
      BY <2>4, <3>2
    <3>4. PICK t : /\ t = Text((n + 1) + 1) /\ Run(t) /\ Len(t) > 0
                   /\ t[1] = Byte((n + 1) + 1, 1)
                   /\ t[Len(t)] = Byte((n + 1) + 1, Size((n + 1) + 1))
      BY <3>2, TextRun
    <3>5. Byte((n + 1) + 1, 1) = After(Byte(n + 1, Size(n + 1)))
      <4>1. ~ (Size(n + 1) < Size(n + 1))
        BY <3>2, TextRun
      <4>. QED BY <4>1, ByteParts DEF After
    <3>6. f[(n + 1) + 1] = f[n + 1] \o t
      BY <2>2, <3>1, <3>4
    <3>7. t[1] = After(f[n + 1][Len(f[n + 1])])
      BY <3>3, <3>4, <3>5
    <3>8. /\ Run(f[n + 1] \o t) /\ Len(f[n + 1] \o t) > 0 /\ (f[n + 1] \o t)[1] = f[n + 1][1]
          /\ (f[n + 1] \o t)[Len(f[n + 1] \o t)] = t[Len(t)]
      BY <3>3, <3>4, <3>7, RunConcat
    <3>. QED BY <3>3, <3>4, <3>6, <3>8
  <2>. HIDE DEF S
  <2>5. Nat \subseteq S
    BY <2>3, <2>4, AllNaturals
  <2>6. OK(m)
    <3>1. m - 1 \in S /\ (m - 1) + 1 = m /\ m \in 1 .. m
      BY <1>4, <2>5
    <3>. QED BY <3>1 DEF S
  <2>7. m > 0
    BY <1>4
  <2>. QED BY <1>1, <2>1, <2>6, <2>7 DEF seqs
<1>. QED BY <1>3, <1>4

(* The theorems.                                                                *)

\* The invariant holds when a client connects.
LEMMA ConnStarts ==
  ASSUME Init
  PROVE  IOInv
<1>1. /\ script \in Scripts /\ cmd = <<>> /\ body = <<>> /\ taken = <<>> /\ stored = <<>>
      /\ state = "wantcommand" /\ peer = "here" /\ in_job = 0 /\ in_job_read = 0
      /\ reply = "line" /\ reply_sent = 0 /\ out_job_sent = 0
      /\ refused = 0 /\ answered = 0 /\ sent = 0
  BY DEF Init, NoJob
<1>2. /\ LineBufSize \in Nat /\ LineBufSize > 2 /\ WordLen \in Nat \ {0} /\ JobLen \in Nat \ {0}
      /\ Len(script) \in Nat
  BY <1>1, Commands, SizesAssumption
<1>3. Run(input) /\ (Len(input) > 0 => Len(script) > 0 /\ input[1] = Byte(1, 1))
  BY <1>1, WholeScript DEF Init
<1>4. input \in Seq(Bytes) /\ Ahead = input
  BY <1>1, <1>3, ConcatEmptySeq DEF Run, Ahead
<1>5. InTypes
  BY <1>1, <1>2, <1>4 DEF InTypes
<1>6. Reading
  BY <1>1, <1>2 DEF Reading, NoJob
<1>7. HeadOK(input, "wantcommand", in_job, in_job_read, <<>>)
  <2>1. SUFFICES ASSUME Len(input) > 0  PROVE LineStart(input[1]) /\ Handled(<<>>, input[1])
    BY DEF HeadOK
  <2>2. 1 \in 1 .. Len(script) /\ input[1] = Byte(1, 1)
    BY <1>2, <1>3, <2>1
  <2>3. input[1].cmd = 1 /\ input[1].at = 1
    BY <2>2, ByteParts
  <2>4. StartsLine(1, 1)
    BY <1>1, <2>2, BeforeFacts, StartsFirst
  <2>5. \A i \in 1 .. Len(script) : ~ Passed(i, input[1])
    BY <1>2, <2>3 DEF Passed
  <2>. QED BY <2>3, <2>4, <2>5 DEF LineStart, Handled
<1>8. InOrder(taken) /\ Strays(taken) /\ Bodies(in_job, in_job_read, body, stored)
  BY <1>1 DEF InOrder, Strays, Bodies, NoJob
<1>9. InScript
  BY <1>1, <1>3, <1>4, <1>7, <1>8 DEF InScript
<1>10. OutTypes /\ Writing
  BY <1>1, <1>2 DEF OutTypes, Writing
<1>11. OneReplyPerLine /\ SentExactly
  BY <1>1 DEF OneReplyPerLine, SentExactly
<1>. QED BY <1>5, <1>6, <1>9, <1>10, <1>11 DEF IOInv, InInv, OutInv

\* The invariant that all the theorems of this module rest on.
LEMMA ConnInvariant == Spec => []IOInv
<1>1. Init => IOInv
  BY ConnStarts
<1>2. IOInv /\ [Next]_ioVars => IOInv'
  <2>1. SUFFICES ASSUME IOInv, [Next]_ioVars  PROVE IOInv'
    OBVIOUS
  <2>2. InInv /\ OutInv
    BY <2>1 DEF IOInv
  <2>3. InInv'
    BY <2>1, <2>2, InStep
  <2>4. OutInv'
    BY <2>1, <2>2, OutStep
  <2>. QED BY <2>3, <2>4 DEF IOInv
<1>. QED BY <1>1, <1>2, PTL DEF Spec

\* The counts of handle_client stay in their ranges, and cmd in its buffer.
THEOREM ConnTypes == Spec => []TypeOK
<1>1. IOInv => TypeOK
  BY DEF IOInv, InInv, OutInv, InTypes, OutTypes, TypeOK
<1>. QED BY <1>1, ConnInvariant, PTL

\* do_cmd runs the commands of a script in the order they were sent, each once, and
\* leaves out none that fits the buffer, in whatever pieces the bytes are read.
THEOREM CommandsRunInOrder == Spec => []CommandsInOrder
<1>1. IOInv => CommandsInOrder
  BY DEF IOInv, InInv, InScript, InOrder, CommandsInOrder
<1>. QED BY <1>1, ConnInvariant, PTL

\* What do_cmd runs and is not a command was left over by a line that did not fit.
THEOREM StraysOfLongLines == Spec => []StrayLines
<1>1. IOInv => StrayLines
  BY DEF IOInv, InInv, InScript, Strays, StrayLines
<1>. QED BY <1>1, ConnInvariant, PTL

\* fill_extra_data and STATE_WANTDATA give a job the bytes that were sent with it.
THEOREM BodiesAreExact == Spec => []BodyExact
<1>1. ASSUME IOInv  PROVE BodyExact
  <2>1. /\ script \in Scripts /\ body \in Seq(Bytes) /\ stored \in Seq(Seq(Bytes))
        /\ Bodies(in_job, in_job_read, body, stored)
    BY <1>1 DEF IOInv, InInv, InTypes, InScript
  <2>2. ASSUME NEW k \in DOMAIN stored  PROVE stored[k] = Body(stored[k][1].cmd)
    <3>1. PICK i \in 1 .. Len(script) : script[i].body # 0 /\ stored[k] = Body(i)
      BY <2>1 DEF Bodies
    <3>2. 1 \in 1 .. script[i].body
      BY <2>1, <3>1, Commands
    <3>3. Body(i)[1] = Byte(i, LineSize(i) + 1)
      BY <2>1, <3>2, BodyBytes
    <3>4. stored[k][1].cmd = i
      BY <3>1, <3>3, ByteParts
    <3>. QED BY <3>1, <3>4
  <2>3. ASSUME in_job # NoJob  PROVE Len(body) = in_job_read /\ IsPrefix(body, Body(in_job))
    <3>1. PICK i \in 1 .. Len(script) : i = in_job
      BY <2>1, <2>3 DEF Bodies
    <3>2. PICK c, b \in Nat : c = Len(body) /\ b = script[i].body
      BY <2>1, Commands, LenProperties
    <3>3. c = in_job_read /\ c <= b /\ \A k \in 1 .. c : body[k] = Byte(i, LineSize(i) + k)
      BY <2>1, <2>3, <3>1, <3>2 DEF Bodies
    <3>4. PICK whole \in Seq(Bytes) :
            /\ whole = Body(i) /\ Len(whole) = b
            /\ \A k \in 1 .. b : whole[k] = Byte(i, LineSize(i) + k)
      BY <2>1, <3>2, BodyBytes
    <3>5. c \in 0 .. Len(whole) /\ c \in 0 .. Len(body)
      BY <3>2, <3>3, <3>4
    <3>6. /\ SubSeq(body, 1, c) \in Seq(Bytes) /\ Len(SubSeq(body, 1, c)) = c
          /\ \A k \in 1 .. c : SubSeq(body, 1, c)[k] = body[k]
      BY <2>1, <3>5, FrontFacts
    <3>7. /\ SubSeq(whole, 1, c) \in Seq(Bytes) /\ Len(SubSeq(whole, 1, c)) = c
          /\ \A k \in 1 .. c : SubSeq(whole, 1, c)[k] = whole[k]
      BY <3>5, FrontFacts
    <3>8. \A k \in 1 .. c : SubSeq(body, 1, c)[k] = SubSeq(whole, 1, c)[k]
      <4>1. \A k \in 1 .. c : k \in 1 .. b
        BY <3>3
      <4>. QED BY <3>3, <3>4, <3>6, <3>7, <4>1
    <3>9. SubSeq(body, 1, c) = SubSeq(whole, 1, c)
      BY <3>6, <3>7, <3>8, SeqEqual
    <3>10. IsPrefix(body, whole)
      BY <3>2, <3>3, <3>4, <3>9 DEF IsPrefix
    <3>. QED BY <3>1, <3>2, <3>3, <3>4, <3>10
  <2>. QED BY <2>2, <2>3 DEF BodyExact
<1>. QED BY <1>1, ConnInvariant, PTL

\* conn_reset ends one reply for every line that was taken or refused.
THEOREM RepliesCounted == Spec => []OneReplyPerLine
<1>1. IOInv => OneReplyPerLine
  BY DEF IOInv, OutInv
<1>. QED BY <1>1, ConnInvariant, PTL

\* reply_sent and out_job_sent stand for what write and writev have sent.
THEOREM BytesSentCounted == Spec => []SentExactly
<1>1. IOInv => SentExactly
  BY DEF IOInv, OutInv
<1>. QED BY <1>1, ConnInvariant, PTL

\* No handler offers read a buffer of no bytes and takes its 0 for the end: the
\* server closes only on a client that is gone or has said quit.
THEOREM NoHangUpOnClient == Spec => ClosedByClient
<1>. DEFINE Quits == state # "closed" /\ state' = "closed" =>
                       peer # "here" \/ (taken' # taken /\ "quit" \in KindsAt(Last(taken')))
<1>1. ASSUME IOInv, Next  PROVE Quits
  <2>1. SUFFICES ASSUME state # "closed", state' = "closed", peer = "here"
                 PROVE  taken' # taken /\ "quit" \in KindsAt(Last(taken'))
    OBVIOUS
  <2>2. Reading /\ taken \in Seq(Bytes) /\ script \in Scripts /\ cmd \in Seq(Bytes)
        /\ in_job \in 0 .. Len(script) /\ in_job_read \in Nat
    BY <1>1 DEF IOInv, InInv, InTypes
  <2>3. CASE ReadCommand
    <3>1. PICK x, m \in Nat : x = Len(cmd) /\ m = LineBufSize /\ x < m
      BY <2>1, <2>2, SizesAssumption, LenProperties DEF Reading
    <3>2. LineBufSize - Len(cmd) # 0
      BY <3>1
    <3>3. PICK got, n : \/ DoCmd(SubSeq(got, 1, n), Drop(got, n))
                        \/ Reply
                        \/ state' = state
      BY <2>3, <3>2 DEF ReadCommand, NoRoom
    <3>4. DoCmd(SubSeq(got, 1, n), Drop(got, n))
      BY <2>1, <3>3 DEF Reply
    <3>5. PICK first, extra, kind :
            /\ taken' = Append(taken, first) /\ kind \in KindsAt(first)
            /\ \/ DoPut(first.cmd, extra)
               \/ SkipAndReply(first.cmd, extra)
               \/ kind = "quit"
               \/ DoSimple(kind, extra)
      BY <3>4 DEF DoCmd
    <3>6. "quit" \in KindsAt(first)
      BY <2>1, <3>5 DEF DoPut, SkipAndReply, DoSimple, Reply, ReplyJob
    <3>7. Len(Append(taken, first)) = Len(taken) + 1 /\ Append(taken, first)[Len(taken) + 1] = first
          /\ Len(taken) \in Nat
      BY <2>2, LenProperties
    <3>8. taken' # taken /\ Last(taken') = first
      BY <3>5, <3>7 DEF Last
    <3>. QED BY <3>6, <3>8
  <2>4. CASE ReadBody
    <3>1. state = "wantdata" /\ in_job # NoJob /\ in_job_read < script[in_job].body
      BY <2>1, <2>2, <2>4 DEF ReadBody, Handling, Reading
    <3>2. PICK b \in Nat : b = script[in_job].body
      <4>1. in_job \in 1 .. Len(script)
        BY <2>2, <3>1 DEF NoJob
      <4>. QED BY <2>2, <4>1, Commands
    <3>3. script[in_job].body - in_job_read # 0
      BY <2>2, <3>1, <3>2
    <3>4. state' \in {"wantdata", "sendword"}
      BY <2>4, <3>1, <3>3 DEF ReadBody, NoRoom, Reply
    <3>. QED BY <2>1, <3>4
  <2>5. CASE ThrowAway
    <3>1. PICK r, m \in Nat : r = in_job_read /\ m = BucketBufSize /\ r > 0 /\ m # 0
      BY <2>1, <2>2, <2>5, SizesAssumption DEF ThrowAway, Handling, Reading
    <3>2. PICK y \in Nat : y = Min({r, m}) /\ y = IF r <= m THEN r ELSE m
      BY Taken
    <3>3. Min({in_job_read, BucketBufSize}) # 0
      BY <3>1, <3>2
    <3>4. state' \in {"bitbucket", "sendword"}
      BY <2>5, <3>3 DEF ThrowAway, Handling, NoRoom, SkipDone, Reply
    <3>. QED BY <2>1, <3>4
  <2>6. CASE WriteReply
    BY <2>1, <2>6 DEF WriteReply, Sent
  <2>7. CASE HangUp \/ FailedCall
    BY <2>1, <2>7 DEF HangUp, FailedCall
  <2>8. CASE WaitEnds \/ PeerCloses
    BY <2>1, <2>8 DEF WaitEnds, Reply, ReplyJob, PeerCloses
  <2>. QED BY <1>1, <2>3, <2>4, <2>5, <2>6, <2>7, <2>8 DEF Next, Handler
<1>2. IOInv /\ [Next]_ioVars => [Quits]_ioVars
  BY <1>1
<1>. QED BY <1>2, ConnInvariant, PTL DEF Spec, ClosedByClient

=============================================================================

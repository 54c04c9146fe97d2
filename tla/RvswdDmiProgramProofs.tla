------------------------ MODULE RvswdDmiProgramProofs ------------------------
(***************************************************************************)
(* Every program of RvswdDmi can be annotated so that each of its accesses *)
(* obeys the rules of RvswdDmiAccessProofs: from what an operation starts  *)
(* with (First) to what it promises (Final), with what the labels expect   *)
(* known wherever a failed access goes to them.                            *)
(*                                                                         *)
(* The annotations are built as the programs are: one lemma for each piece *)
(* that the code calls as a function, put together with CarriesThen and,   *)
(* where a piece holds the label of another, CarriesConcat.  A piece is    *)
(* stated for any facts R it leaves alone (Frame), so that its callers     *)
(* keep theirs.                                                            *)
(***************************************************************************)
EXTENDS RvswdDmiAccessProofs

-----------------------------------------------------------------------------
(* Annotated programs.                                                     *)

\* An access leads from what A says to what B says.
Passes(f, op, x, A, B) == \E C, D : Covers(A, C) /\ Flow(f, op, x, C, D) /\ Covers(D, B)

\* The label a failed access goes to is a later one of the program, or one of L,
\* the labels of what follows.
HasLabel(p, l) == \E j \in 1 .. Len(p) : p[j].do = "label" /\ p[j].reg = l
Lands(p, i, L) ==
  \/ p[i].fail \in {"return"} \cup L
  \/ \E j \in i .. Len(p) : p[j].do = "label" /\ p[j].reg = p[i].fail

\* h is what is known before each access of the program p.
Annotates(h, f, op, L, A, p, B) ==
  /\ Covers(A, h[1]) /\ Covers(h[Len(p) + 1], B)
  /\ \A i \in 1 .. Len(p) : Passes(f, op, p[i], h[i], h[i + 1]) /\ Lands(p, i, L)
\* The program p leads from what A says to what B says.
Carries(f, op, L, A, p, B) == (\E S : p \in Seq(S)) /\ \E h : Annotates(h, f, op, L, A, p, B)

\* To cover is transitive.
LEMMA CoversAll ==
  ASSUME NEW A, NEW B, NEW C, Covers(A, B), Covers(B, C)
  PROVE  Covers(A, C)
BY DEF Covers

\* Every annotation covers itself.
LEMMA CoversSelf ==
  ASSUME NEW A
  PROVE  Covers(A, A)
BY DEF Covers

\* An access may be given more and asked for less.
LEMMA PassesCovers ==
  ASSUME NEW f, NEW op, NEW x, NEW A, NEW B, NEW C, NEW D,
         Covers(A, B), Passes(f, op, x, B, C), Covers(C, D)
  PROVE  Passes(f, op, x, A, D)
<1>1. PICK E1, E2 : Covers(B, E1) /\ Flow(f, op, x, E1, E2) /\ Covers(E2, C)  BY DEF Passes
<1>2. Covers(A, E1) /\ Covers(E2, D)  BY <1>1, CoversAll
<1> QED BY <1>1, <1>2 DEF Passes

\* The rule of an access is a passage.
LEMMA FlowPasses ==
  ASSUME NEW f, NEW op, NEW x, NEW A, NEW B, Flow(f, op, x, A, B)
  PROVE  Passes(f, op, x, A, B)
BY CoversSelf DEF Passes

\* A program of one access.
LEMMA CarriesOne ==
  ASSUME NEW f, NEW op, NEW L, NEW x, NEW A, NEW B, Passes(f, op, x, A, B),
         x.fail \in {"return"} \cup L
  PROVE  Carries(f, op, L, A, <<x>>, B)
<1> DEFINE h == [i \in 1 .. 2 |-> IF i = 1 THEN A ELSE B]
           p == <<x>>
<1>1. p \in Seq({x}) /\ Len(p) = 1 /\ p[1] = x  OBVIOUS
<1>2. h[1] = A /\ h[2] = B  OBVIOUS
<1>3. Len(p) + 1 = 2 /\ \A i \in 1 .. Len(p) : i = 1 /\ p[i] = x /\ i + 1 = 2
  BY <1>1
<1> HIDE DEF h, p
<1>4. \A i \in 1 .. Len(p) : Passes(f, op, p[i], h[i], h[i + 1]) /\ Lands(p, i, L)
  BY <1>2, <1>3 DEF Lands
<1>5. Carries(f, op, L, A, p, B)
  BY <1>1, <1>2, <1>3, <1>4, CoversSelf DEF Carries, Annotates
<1> QED BY <1>5 DEF p

\* The empty program.
LEMMA CarriesNone ==
  ASSUME NEW f, NEW op, NEW L, NEW A, NEW B, Covers(A, B)
  PROVE  Carries(f, op, L, A, <<>>, B)
<1> DEFINE h == [i \in 1 .. 1 |-> A]
           p == <<>>
<1>1. p \in Seq({}) /\ Len(p) = 0  OBVIOUS
<1>2. h[1] = A  OBVIOUS
<1> HIDE DEF h, p
<1>3. 1 .. Len(p) = {} /\ Len(p) + 1 = 1  BY <1>1
<1>4. Carries(f, op, L, A, p, B)
  BY <1>1, <1>2, <1>3, CoversSelf DEF Carries, Annotates
<1> QED BY <1>4 DEF p

\* A program may be given more and asked for less.
LEMMA CarriesCovers ==
  ASSUME NEW f, NEW op, NEW L, NEW p, NEW A, NEW B, NEW C, NEW D,
         Covers(A, B), Carries(f, op, L, B, p, C), Covers(C, D)
  PROVE  Carries(f, op, L, A, p, D)
BY CoversAll DEF Carries, Annotates

\* Programs one after the other: labels of the second are reached from the first.
LEMMA CarriesConcat ==
  ASSUME NEW f, NEW op, NEW L, NEW M, NEW A, NEW B, NEW C, NEW p, NEW q,
         Carries(f, op, M, A, p, B), Carries(f, op, L, B, q, C),
         \A l \in M : l \in L \/ HasLabel(q, l)
  PROVE  Carries(f, op, L, A, p \o q, C)
<1>1. PICK S, T : p \in Seq(S) /\ q \in Seq(T)  BY DEF Carries
<1>2. p \in Seq(S \cup T) /\ q \in Seq(S \cup T)  BY <1>1, SeqMonotonic
<1> DEFINE r == p \o q
<1>3. /\ r \in Seq(S \cup T) /\ Len(r) = Len(p) + Len(q)
      /\ \A i \in 1 .. Len(p) + Len(q) :
           r[i] = IF i <= Len(p) THEN p[i] ELSE q[i - Len(p)]
  BY <1>2, ConcatProperties
<1>4. PICK h : Annotates(h, f, op, M, A, p, B)  BY DEF Carries
<1>5. PICK k : Annotates(k, f, op, L, B, q, C)  BY DEF Carries
<1> DEFINE l == [i \in 1 .. Len(p) + Len(q) + 1 |-> IF i <= Len(p) THEN h[i] ELSE k[i - Len(p)]]
<1>6. Len(p) \in Nat /\ Len(q) \in Nat  BY <1>1, LenProperties
<1>7. \A i \in 1 .. Len(p) : l[i] = h[i] /\ (i + 1 <= Len(p) => l[i + 1] = h[i + 1])
  BY <1>6
<1>8. \A i \in Len(p) + 1 .. Len(p) + Len(q) :
        /\ i - Len(p) \in 1 .. Len(q)
        /\ l[i] = k[i - Len(p)] /\ l[i + 1] = k[(i - Len(p)) + 1]
  BY <1>6
<1>9. l[Len(p) + 1] = k[1] /\ l[Len(p) + Len(q) + 1] = k[Len(q) + 1]
  BY <1>6
<1>10. Covers(h[Len(p) + 1], k[1])  BY <1>4, <1>5, CoversAll DEF Annotates
<1>11. Covers(A, l[1])
  <2>1. CASE Len(p) = 0
    <3>1. l[1] = k[1] /\ h[Len(p) + 1] = h[1]  BY <1>9, <2>1
    <3> HIDE DEF l
    <3> QED BY <1>4, <1>10, <3>1, CoversAll DEF Annotates
  <2>2. CASE Len(p) # 0
    <3>1. l[1] = h[1]  BY <1>6, <1>7, <2>2
    <3> HIDE DEF l
    <3> QED BY <1>4, <3>1 DEF Annotates
  <2> QED BY <2>1, <2>2
<1> HIDE DEF l, r
<1>12. ASSUME NEW i \in 1 .. Len(r)
       PROVE  Passes(f, op, r[i], l[i], l[i + 1]) /\ Lands(r, i, L)
  <2>1. CASE i \in 1 .. Len(p)
    <3>1. r[i] = p[i]  BY <1>3, <1>6, <2>1
    <3>2. Passes(f, op, p[i], h[i], h[i + 1]) /\ Lands(p, i, M)  BY <1>4, <2>1 DEF Annotates
    <3>3. Passes(f, op, p[i], h[i], l[i + 1])
      <4>1. CASE i + 1 <= Len(p)  BY <1>7, <2>1, <3>2, <4>1
      <4>2. CASE i = Len(p)
        <5>1. l[i + 1] = k[1] /\ h[i + 1] = h[Len(p) + 1]  BY <1>9, <4>2
        <5> QED BY <1>10, <3>2, <5>1, PassesCovers, CoversSelf
      <4> QED BY <1>6, <2>1, <4>1, <4>2
    <3>4. Lands(r, i, L)
      <4>1. CASE p[i].fail = "return"  BY <3>1, <4>1 DEF Lands
      <4>2. CASE \E j \in i .. Len(p) : p[j].do = "label" /\ p[j].reg = p[i].fail
        <5>1. PICK j \in i .. Len(p) : p[j].do = "label" /\ p[j].reg = p[i].fail  BY <4>2
        <5>2. r[j] = p[j] /\ j \in i .. Len(r)  BY <1>3, <1>6, <2>1, <5>1
        <5> QED BY <3>1, <5>1, <5>2 DEF Lands
      <4>3. CASE p[i].fail \in M
        <5>1. CASE p[i].fail \in L  BY <3>1, <5>1 DEF Lands
        <5>2. CASE HasLabel(q, p[i].fail)
          <6>1. PICK j \in 1 .. Len(q) : q[j].do = "label" /\ q[j].reg = p[i].fail
            BY <5>2 DEF HasLabel
          <6>2. /\ j + Len(p) \in i .. Len(r) /\ j + Len(p) \in 1 .. Len(p) + Len(q)
                /\ ~(j + Len(p) <= Len(p)) /\ (j + Len(p)) - Len(p) = j
            BY <1>3, <1>6, <2>1, <6>1
          <6>3. r[j + Len(p)] = q[j]  BY <1>3, <6>2
          <6> QED BY <3>1, <6>1, <6>2, <6>3 DEF Lands
        <5> QED BY <4>3, <5>1, <5>2
      <4> QED BY <3>2, <4>1, <4>2, <4>3 DEF Lands
    <3> QED BY <1>7, <2>1, <3>1, <3>3, <3>4
  <2>2. CASE i \in Len(p) + 1 .. Len(p) + Len(q)
    <3> DEFINE m == i - Len(p)
    <3>1. r[i] = q[m]  BY <1>3, <1>6, <2>2
    <3>2. m \in 1 .. Len(q) /\ l[i] = k[m] /\ l[i + 1] = k[m + 1]  BY <1>8, <2>2
    <3> HIDE DEF m
    <3>3. Passes(f, op, q[m], k[m], k[m + 1]) /\ Lands(q, m, L)  BY <1>5, <3>2 DEF Annotates
    <3>4. Lands(r, i, L)
      <4>1. CASE q[m].fail \in {"return"} \cup L  BY <3>1, <4>1 DEF Lands
      <4>2. CASE \E j \in m .. Len(q) : q[j].do = "label" /\ q[j].reg = q[m].fail
        <5>1. PICK j \in m .. Len(q) : q[j].do = "label" /\ q[j].reg = q[m].fail  BY <4>2
        <5>2. /\ j + Len(p) \in i .. Len(r) /\ j + Len(p) \in 1 .. Len(p) + Len(q)
              /\ ~(j + Len(p) <= Len(p)) /\ (j + Len(p)) - Len(p) = j
          BY <1>3, <1>6, <2>2, <3>2, <5>1 DEF m
        <5>3. r[j + Len(p)] = q[j]  BY <1>3, <5>2
        <5> QED BY <3>1, <5>1, <5>2, <5>3 DEF Lands
      <4> QED BY <3>3, <4>1, <4>2 DEF Lands
    <3> QED BY <3>1, <3>2, <3>3, <3>4
  <2> QED BY <1>3, <1>6, <2>1, <2>2
<1>13. Covers(l[Len(r) + 1], C)
  <2>1. Len(r) + 1 = Len(p) + Len(q) + 1  BY <1>3
  <2> QED BY <1>5, <1>9, <2>1 DEF Annotates
<1>14. Carries(f, op, L, A, r, C)
  BY <1>3, <1>11, <1>12, <1>13 DEF Carries, Annotates
<1> QED BY <1>14 DEF r

\* Two programs without labels between them, one after the other.
LEMMA CarriesThen ==
  ASSUME NEW f, NEW op, NEW L, NEW A, NEW B, NEW C, NEW p, NEW q,
         Carries(f, op, L, A, p, B), Carries(f, op, L, B, q, C)
  PROVE  Carries(f, op, L, A, p \o q, C)
BY CarriesConcat

\* The labels a program has, and those it may leave open.
LEMMA CarriesMore ==
  ASSUME NEW f, NEW op, NEW L, NEW M, NEW A, NEW B, NEW p, Carries(f, op, L, A, p, B), L \subseteq M
  PROVE  Carries(f, op, M, A, p, B)
<1>1. PICK S : p \in Seq(S)  BY DEF Carries
<1>2. PICK h : Annotates(h, f, op, L, A, p, B)  BY DEF Carries
<1>3. \A i \in 1 .. Len(p) : Lands(p, i, L) => Lands(p, i, M)  BY DEF Lands
<1>4. Annotates(h, f, op, M, A, p, B)  BY <1>2, <1>3 DEF Annotates
<1> QED BY <1>1, <1>4 DEF Carries

\* A label is one.
LEMMA LabelHas ==
  ASSUME NEW l
  PROVE  HasLabel(Label(l), l)
<1>1. Len(Label(l)) = 1 /\ Label(l)[1].do = "label" /\ Label(l)[1].reg = l  BY DEF Label, Access
<1>2. 1 \in 1 .. Len(Label(l))  BY <1>1
<1> QED BY <1>1, <1>2 DEF HasLabel

\* A label of a part is a label of the whole.
LEMMA LabelAfter ==
  ASSUME NEW S, NEW T, NEW p \in Seq(S), NEW q \in Seq(T), NEW l, HasLabel(p, l) \/ HasLabel(q, l)
  PROVE  HasLabel(p \o q, l)
<1>2. p \in Seq(S \cup T) /\ q \in Seq(S \cup T)  BY SeqMonotonic
<1> DEFINE r == p \o q
<1>3. /\ Len(r) = Len(p) + Len(q) /\ Len(p) \in Nat /\ Len(q) \in Nat
      /\ \A i \in 1 .. Len(p) + Len(q) :
           r[i] = IF i <= Len(p) THEN p[i] ELSE q[i - Len(p)]
  BY <1>2, ConcatProperties, LenProperties
<1> HIDE DEF r
<1>4. CASE HasLabel(p, l)
  <2>1. PICK j \in 1 .. Len(p) : p[j].do = "label" /\ p[j].reg = l  BY <1>4 DEF HasLabel
  <2>2. r[j] = p[j] /\ j \in 1 .. Len(r)  BY <1>3, <2>1
  <2>3. HasLabel(r, l)  BY <2>1, <2>2 DEF HasLabel
  <2> QED BY <2>3 DEF r
<1>5. CASE HasLabel(q, l)
  <2>1. PICK j \in 1 .. Len(q) : q[j].do = "label" /\ q[j].reg = l  BY <1>5 DEF HasLabel
  <2>2. /\ j + Len(p) \in 1 .. Len(r) /\ j + Len(p) \in 1 .. Len(p) + Len(q)
        /\ ~(j + Len(p) <= Len(p)) /\ (j + Len(p)) - Len(p) = j
    BY <1>3, <2>1
  <2>3. r[j + Len(p)] = q[j]  BY <1>3, <2>2
  <2>4. HasLabel(r, l)  BY <2>1, <2>2, <2>3 DEF HasLabel
  <2> QED BY <2>4 DEF r
<1> QED BY <1>4, <1>5

-----------------------------------------------------------------------------
(* The accesses, and what they lead to.                                    *)

\* What a position of a program knows: S whatever the error, P when there is none.
At(S, P) == [s |-> S, p |-> P]
\* An annotation that says the same whatever the error.
Both(S) == At(S, S)

\* A failed access may return, or go to the clean-up of the streaming write.
Exit(op, l, S) ==
  /\ op # "resume"
  /\ \/ l = "return" /\ Yes("calm") \in S
     \/ l \in {"retry", "abandon"} /\ Yes("sure") \in S

\* An access leads to what it gives.
LEMMA PassesWhen ==
  ASSUME NEW f, NEW op, NEW x, NEW A, NEW B, Asks(f, op, x, A), Exits(f, op, x, A),
         Yes("sure") \in B.s => Yes("sure") \in A.s,
         \A g \in B.s : Gives(f, x, A, g, TRUE), \A g \in B.p : Gives(f, x, A, g, FALSE)
  PROVE  Passes(f, op, x, A, B)
<1>1. Flow(f, op, x, A, B)  BY DEF Flow
<1> QED BY <1>1, FlowPasses

\* What has to be known for an access to fail safely.
LEMMA Escapes ==
  ASSUME NEW f, NEW op, NEW x, NEW A, Exit(op, x.fail, A.s), Yes("kept") \in A.s,
         x.do \in Jumps, ~(x.do = "write" /\ x.reg = "ABSTRACTAUTO" /\ x.fail = "return"),
         x.fail # "return" =>
            IF x.do \in Settling
              THEN Gives(f, x, A, Yes("sure"), TRUE) /\ Gives(f, x, A, Yes("kept"), TRUE)
            ELSE {Idling, Yes("steady")} \subseteq A.s
  PROVE  Exits(f, op, x, A)
<1>1. CASE x.fail = "return"
  BY <1>1 DEF Exits, Exit, Returns
<1>2. CASE x.fail # "return"
  <2>1. E(f, op, x.fail) = {Yes("sure"), Yes("kept"), Yes("steady"), Idling, Yes("told")}
    BY <1>2 DEF E, Exit
  <2>2. \A g \in {Yes("sure"), Yes("kept"), Yes("steady"), Idling} : g[1] # "diag"
    BY DEF Yes, Idling
  <2>3. \A g \in {Yes("sure"), Yes("kept"), Yes("steady"), Idling, Yes("told")} : Fails(f, x, A, g)
    BY <1>2, <2>2 DEF Fails, Exit
  <2> QED BY <1>2, <2>1, <2>3 DEF Exits
<1> QED BY <1>1, <1>2

\* A write.
LEMMA WritePasses ==
  ASSUME NEW f, NEW op, NEW reg, NEW v, NEW l, NEW A, NEW B, NEW x, x = Access("write", reg, v, l),
         Yes("kept") \in A.s, Exit(op, l, A.s), WriteAsks(f, op, x, A),
         ~(reg = "ABSTRACTAUTO" /\ l = "return"),
         Yes("sure") \in B.s => Yes("sure") \in A.s,
         \A g \in B.s : WriteGives(f, x, A, g, TRUE), \A g \in B.p : WriteGives(f, x, A, g, FALSE),
         l # "return"
           => WriteGives(f, x, A, Yes("sure"), TRUE) /\ WriteGives(f, x, A, Yes("kept"), TRUE)
  PROVE  Passes(f, op, x, A, B)
<1>1. x.do = "write" /\ x.reg = reg /\ x.val = v /\ x.fail = l  BY DEF Access
<1>2. \A g : \A sure \in BOOLEAN : WriteGives(f, x, A, g, sure) => Gives(f, x, A, g, sure)
  BY <1>1 DEF Gives
<1>3. Asks(f, op, x, A)  BY <1>1 DEF Asks
<1>4. Exits(f, op, x, A)  BY <1>1, <1>2, Escapes DEF Jumps, Settling
<1> QED BY <1>2, <1>3, <1>4, PassesWhen

\* A word for the module, while autoexec is off.
LEMMA Data0Passes ==
  ASSUME NEW f, NEW op, NEW v, NEW l, NEW A, NEW B,
         Yes("kept") \in A.s, Exit(op, l, A.s), Mute \in A.s,
         Yes("sure") \in B.s => Yes("sure") \in A.s,
         \A g \in B.s : g = Fine \/ Data0(f, v, A, g, TRUE),
         \A g \in B.p : g = Fine \/ Data0(f, v, A, g, FALSE)
  PROVE  Passes(f, op, Access("write", "DATA0", v, l), A, B)
<1> DEFINE x == Access("write", "DATA0", v, l)
<1>1. x.reg = "DATA0" /\ x.val = v /\ x = Access("write", "DATA0", v, l)  BY DEF Access
<1> HIDE DEF x
<1>2. WriteAsks(f, op, x, A)  BY <1>1 DEF WriteAsks
<1>3. \A g : \A sure \in BOOLEAN : g = Fine \/ Data0(f, v, A, g, sure)
        => WriteGives(f, x, A, g, sure)
  BY <1>1 DEF WriteGives
<1>4. \A g \in {Yes("sure"), Yes("kept")} : g[1] \notin {"data0", "loose", "steady"} \cup Report
  BY DEF Yes, Report
<1>5. l # "return" => Data0(f, v, A, Yes("sure"), TRUE) /\ Data0(f, v, A, Yes("kept"), TRUE)
  BY <1>4 DEF Data0, Keep, From, Exit
<1>6. (\A g \in B.s : WriteGives(f, x, A, g, TRUE)) /\
        (\A g \in B.p : WriteGives(f, x, A, g, FALSE))
  BY <1>3
<1>7. l # "return"
        => WriteGives(f, x, A, Yes("sure"), TRUE) /\ WriteGives(f, x, A, Yes("kept"), TRUE)
  BY <1>3, <1>5
<1>8. ~("DATA0" = "ABSTRACTAUTO" /\ l = "return")  OBVIOUS
<1>9. Passes(f, op, x, A, B)
  BY <1>1, <1>2, <1>6, <1>7, <1>8, WritePasses, Zenon
<1> QED BY <1>9 DEF x

\* A word that autoexec stores.
LEMMA StreamPasses ==
  ASSUME NEW f, NEW op, NEW v, NEW l, NEW A, NEW B,
         Yes("kept") \in A.s, Exit(op, l, A.s), StreamReady(A),
         Yes("sure") \in B.s => Yes("sure") \in A.s,
         \A g \in B.s : g = Fine \/ Stream(v, A, g, TRUE),
         \A g \in B.p : g = Fine \/ Stream(v, A, g, FALSE)
  PROVE  Passes(f, op, Access("write", "DATA0", v, l), A, B)
<1> DEFINE x == Access("write", "DATA0", v, l)
<1>1. x.reg = "DATA0" /\ x.val = v /\ x = Access("write", "DATA0", v, l)  BY DEF Access
<1> HIDE DEF x
<1>2. WriteAsks(f, op, x, A)  BY <1>1 DEF WriteAsks
<1>3. \A g : \A sure \in BOOLEAN : g = Fine \/ Stream(v, A, g, sure) => WriteGives(f, x, A, g, sure)
  BY <1>1 DEF WriteGives
<1>4. \A g \in {Yes("sure"), Yes("kept")} : g[1]
        \notin {"data0", "loose", "data1", "aim", "x8", "x9", "a2", "busy", "steady"} \cup Report
  BY DEF Yes, Report
<1>5. l # "return" => Stream(v, A, Yes("sure"), TRUE) /\ Stream(v, A, Yes("kept"), TRUE)
  BY <1>4 DEF Stream, Keep, From, Exit
<1>6. (\A g \in B.s : WriteGives(f, x, A, g, TRUE)) /\
        (\A g \in B.p : WriteGives(f, x, A, g, FALSE))
  BY <1>3
<1>7. l # "return"
        => WriteGives(f, x, A, Yes("sure"), TRUE) /\ WriteGives(f, x, A, Yes("kept"), TRUE)
  BY <1>3, <1>5
<1>8. ~("DATA0" = "ABSTRACTAUTO" /\ l = "return")  OBVIOUS
<1>9. Passes(f, op, x, A, B)
  BY <1>1, <1>2, <1>6, <1>7, <1>8, WritePasses, Zenon
<1> QED BY <1>9 DEF x

\* The address of the next access.
LEMMA Data1Passes ==
  ASSUME NEW f, NEW op, NEW v, NEW l, NEW A, NEW B,
         Yes("kept") \in A.s, Exit(op, l, A.s),
         Yes("sure") \in B.s => Yes("sure") \in A.s,
         \A g \in B.s : g = Fine \/ Data1(v, A, g, TRUE),
         \A g \in B.p : g = Fine \/ Data1(v, A, g, FALSE)
  PROVE  Passes(f, op, Access("write", "DATA1", v, l), A, B)
<1> DEFINE x == Access("write", "DATA1", v, l)
<1>1. x.reg = "DATA1" /\ x.val = v /\ x = Access("write", "DATA1", v, l)  BY DEF Access
<1> HIDE DEF x
<1>2. WriteAsks(f, op, x, A)  BY <1>1 DEF WriteAsks
<1>3. \A g : \A sure \in BOOLEAN : g = Fine \/ Data1(v, A, g, sure) => WriteGives(f, x, A, g, sure)
  BY <1>1 DEF WriteGives
<1>4. \A g \in {Yes("sure"), Yes("kept")} : g[1] \notin {"data1", "aim"} \cup Report
  BY DEF Yes, Report
<1>5. l # "return" => Data1(v, A, Yes("sure"), TRUE) /\ Data1(v, A, Yes("kept"), TRUE)
  BY <1>4 DEF Data1, Keep, From, Exit
<1>6. (\A g \in B.s : WriteGives(f, x, A, g, TRUE)) /\
        (\A g \in B.p : WriteGives(f, x, A, g, FALSE))
  BY <1>3
<1>7. l # "return"
        => WriteGives(f, x, A, Yes("sure"), TRUE) /\ WriteGives(f, x, A, Yes("kept"), TRUE)
  BY <1>3, <1>5
<1>8. ~("DATA1" = "ABSTRACTAUTO" /\ l = "return")  OBVIOUS
<1>9. Passes(f, op, x, A, B)
  BY <1>1, <1>2, <1>6, <1>7, <1>8, WritePasses, Zenon
<1> QED BY <1>9 DEF x

\* A program for the program buffer.
LEMMA ProgPasses ==
  ASSUME NEW f, NEW op, NEW v, NEW l, NEW A, NEW B,
         Yes("kept") \in A.s, Exit(op, l, A.s),
         Yes("sure") \in B.s => Yes("sure") \in A.s,
         \A g \in B.s : g = Fine \/ Progbuf(v, A, g, TRUE),
         \A g \in B.p : g = Fine \/ Progbuf(v, A, g, FALSE)
  PROVE  Passes(f, op, Access("write", "PROGBUF", v, l), A, B)
<1> DEFINE x == Access("write", "PROGBUF", v, l)
<1>1. x.reg = "PROGBUF" /\ x.val = v /\ x = Access("write", "PROGBUF", v, l)  BY DEF Access
<1> HIDE DEF x
<1>2. WriteAsks(f, op, x, A)  BY <1>1 DEF WriteAsks
<1>3. \A g : \A sure \in BOOLEAN : g = Fine \/ Progbuf(v, A, g, sure)
        => WriteGives(f, x, A, g, sure)
  BY <1>1 DEF WriteGives
<1>4. \A g \in {Yes("sure"), Yes("kept")} : g[1] \notin {"prog", "sync"} \cup Report
  BY DEF Yes, Report
<1>5. l # "return" => Progbuf(v, A, Yes("sure"), TRUE) /\ Progbuf(v, A, Yes("kept"), TRUE)
  BY <1>4 DEF Progbuf, Keep, From, Exit
<1>6. (\A g \in B.s : WriteGives(f, x, A, g, TRUE)) /\
        (\A g \in B.p : WriteGives(f, x, A, g, FALSE))
  BY <1>3
<1>7. l # "return"
        => WriteGives(f, x, A, Yes("sure"), TRUE) /\ WriteGives(f, x, A, Yes("kept"), TRUE)
  BY <1>3, <1>5
<1>8. ~("PROGBUF" = "ABSTRACTAUTO" /\ l = "return")  OBVIOUS
<1>9. Passes(f, op, x, A, B)
  BY <1>1, <1>2, <1>6, <1>7, <1>8, WritePasses, Zenon
<1> QED BY <1>9 DEF x

\* The error of the module is cleared.
LEMMA ClearPasses ==
  ASSUME NEW f, NEW op, NEW v, NEW l, NEW A, NEW B,
         Yes("kept") \in A.s, Exit(op, l, A.s),
         Yes("sure") \in B.s => Yes("sure") \in A.s,
         \A g \in B.s : g = Fine \/ ClearError(A, g, TRUE),
         \A g \in B.p : g = Fine \/ ClearError(A, g, FALSE)
  PROVE  Passes(f, op, Access("write", "ABSTRACTCS", v, l), A, B)
<1> DEFINE x == Access("write", "ABSTRACTCS", v, l)
<1>1. x.reg = "ABSTRACTCS" /\ x.val = v /\ x = Access("write", "ABSTRACTCS", v, l)  BY DEF Access
<1> HIDE DEF x
<1>2. WriteAsks(f, op, x, A)  BY <1>1 DEF WriteAsks
<1>3. \A g : \A sure \in BOOLEAN : g = Fine \/ ClearError(A, g, sure)
        => WriteGives(f, x, A, g, sure)
  BY <1>1 DEF WriteGives
<1>4. \A g \in {Yes("sure"), Yes("kept")} : g[1] \notin Report
  BY DEF Yes, Report
<1>5. l # "return" => ClearError(A, Yes("sure"), TRUE) /\ ClearError(A, Yes("kept"), TRUE)
  BY <1>4 DEF ClearError, Keep, From, Exit
<1>6. (\A g \in B.s : WriteGives(f, x, A, g, TRUE)) /\
        (\A g \in B.p : WriteGives(f, x, A, g, FALSE))
  BY <1>3
<1>7. l # "return"
        => WriteGives(f, x, A, Yes("sure"), TRUE) /\ WriteGives(f, x, A, Yes("kept"), TRUE)
  BY <1>3, <1>5
<1>8. ~("ABSTRACTCS" = "ABSTRACTAUTO" /\ l = "return")  OBVIOUS
<1>9. Passes(f, op, x, A, B)
  BY <1>1, <1>2, <1>6, <1>7, <1>8, WritePasses, Zenon
<1> QED BY <1>9 DEF x

\* A command.
LEMMA CommandPasses ==
  ASSUME NEW f, NEW op, NEW v, NEW l, NEW A, NEW B,
         Yes("kept") \in A.s, Exit(op, l, A.s), CommandAsks(f, v, A),
         l # "return"
           => CommandGives(v, A, Yes("sure"), TRUE) /\ CommandGives(v, A, Yes("kept"), TRUE),
         Yes("sure") \in B.s => Yes("sure") \in A.s,
         \A g \in B.s : g = Fine \/ CommandGives(v, A, g, TRUE),
         \A g \in B.p : g = Fine \/ CommandGives(v, A, g, FALSE)
  PROVE  Passes(f, op, Access("write", "COMMAND", v, l), A, B)
<1> DEFINE x == Access("write", "COMMAND", v, l)
<1>1. x.reg = "COMMAND" /\ x.val = v /\ x = Access("write", "COMMAND", v, l)  BY DEF Access
<1> HIDE DEF x
<1>2. WriteAsks(f, op, x, A)  BY <1>1 DEF WriteAsks
<1>3. \A g : \A sure \in BOOLEAN : g = Fine \/ CommandGives(v, A, g, sure)
        => WriteGives(f, x, A, g, sure)
  BY <1>1 DEF WriteGives
<1>4. \A g \in {Yes("sure"), Yes("kept")} : g[1] \notin Report
  BY DEF Yes, Report
<1>5. l # "return" => CommandGives(v, A, Yes("sure"), TRUE) /\ CommandGives(v, A, Yes("kept"), TRUE)
  BY <1>4 DEF CommandGives, Keep, From, Exit
<1>6. (\A g \in B.s : WriteGives(f, x, A, g, TRUE)) /\
        (\A g \in B.p : WriteGives(f, x, A, g, FALSE))
  BY <1>3
<1>7. l # "return"
        => WriteGives(f, x, A, Yes("sure"), TRUE) /\ WriteGives(f, x, A, Yes("kept"), TRUE)
  BY <1>3, <1>5
<1>8. ~("COMMAND" = "ABSTRACTAUTO" /\ l = "return")  OBVIOUS
<1>9. Passes(f, op, x, A, B)
  BY <1>1, <1>2, <1>6, <1>7, <1>8, WritePasses, Zenon
<1> QED BY <1>9 DEF x

\* Accesses other than writes.
LEMMA StatusPasses ==
  ASSUME NEW f, NEW op, NEW l, NEW A, NEW B,
         Yes("kept") \in A.s, Exit(op, l, A.s),
         l # "return" => {Idling, Yes("steady")} \subseteq A.s,
         Yes("sure") \in B.s => Yes("sure") \in A.s,
         \A g \in B.s \cup B.p : g = Fine \/ (g \in A.s \cup A.p /\ g[1] \notin Report)
  PROVE  Passes(f, op, Access("abstractcs", "", "", l), A, B)
<1> DEFINE x == Access("abstractcs", "", "", l)
<1>1. x.do = "abstractcs" /\ x.fail = l  BY DEF Access
<1> HIDE DEF x
<1>2. Asks(f, op, x, A)  BY <1>1 DEF Asks
<1>3. Exits(f, op, x, A)  BY <1>1, Escapes DEF Jumps, Settling
<1>4. \A g \in B.s \cup B.p : \A sure \in BOOLEAN : Gives(f, x, A, g, sure)
  BY <1>1 DEF Gives, Keep
<1>5. Passes(f, op, x, A, B)  BY <1>2, <1>3, <1>4, PassesWhen
<1> QED BY <1>5 DEF x

\* A read whose value does not matter keeps what is known.
LEMMA ProbePasses ==
  ASSUME NEW f, NEW op, NEW l, NEW A, NEW B,
         Yes("kept") \in A.s, Exit(op, l, A.s),
         l # "return" => {Idling, Yes("steady")} \subseteq A.s,
         Yes("sure") \in B.s => Yes("sure") \in A.s,
         \A g \in B.s \cup B.p : g = Fine \/ (g \in A.s /\ g[1] \notin Report)
  PROVE  Passes(f, op, Access("probe", "", "", l), A, B)
<1> DEFINE x == Access("probe", "", "", l)
<1>1. x.do = "probe" /\ x.fail = l  BY DEF Access
<1> HIDE DEF x
<1>2. Asks(f, op, x, A)  BY <1>1 DEF Asks
<1>3. Exits(f, op, x, A)  BY <1>1, Escapes DEF Jumps, Settling
<1>4. \A g \in B.s \cup B.p : \A sure \in BOOLEAN : Gives(f, x, A, g, sure)
  BY <1>1 DEF Gives, Keep, From
<1>5. Passes(f, op, x, A, B)  BY <1>2, <1>3, <1>4, PassesWhen
<1> QED BY <1>5 DEF x

\* A wait leaves the module idle.
LEMMA WaitPasses ==
  ASSUME NEW f, NEW op, NEW l, NEW A, NEW B,
         Yes("kept") \in A.s, Exit(op, l, A.s),
         Yes("sure") \in B.s => Yes("sure") \in A.s,
         \A g \in B.s : g \in {Idling, Yes("steady"), Fine} \/ (g \in A.s /\ g[1] \notin Report),
         \A g \in B.p : g \in {Idling, Yes("steady"), Fine} \/
           (g \in A.s \cup A.p /\ g[1] \notin Report)
  PROVE  Passes(f, op, Access("wait", "", "", l), A, B)
<1> DEFINE x == Access("wait", "", "", l)
<1>1. x.do = "wait" /\ x.fail = l  BY DEF Access
<1> HIDE DEF x
<1>2. Asks(f, op, x, A)  BY <1>1 DEF Asks
<1>3. \A g \in {Yes("sure"), Yes("kept")} : g[1] \notin Report  BY DEF Yes, Report
<1>4. l # "return" => Gives(f, x, A, Yes("sure"), TRUE) /\ Gives(f, x, A, Yes("kept"), TRUE)
  BY <1>1, <1>3 DEF Gives, Keep, From, Exit
<1>5. Exits(f, op, x, A)  BY <1>1, <1>4, Escapes DEF Jumps, Settling
<1>6. (\A g \in B.s : Gives(f, x, A, g, TRUE)) /\ (\A g \in B.p : Gives(f, x, A, g, FALSE))
  BY <1>1 DEF Gives, Keep, From
<1>7. Passes(f, op, x, A, B)  BY <1>2, <1>5, <1>6, PassesWhen
<1> QED BY <1>7 DEF x

\* After a check for errors what held without one holds.
LEMMA CheckPasses ==
  ASSUME NEW f, NEW op, NEW l, NEW A, NEW B,
         {Yes("kept"), Fine} \subseteq A.s, Exit(op, l, A.s),
         l # "return" => {Idling, Yes("steady")} \subseteq A.s,
         Yes("sure") \in B.s => Yes("sure") \in A.s,
         B.s \cup B.p \subseteq A.s \cup A.p
  PROVE  Passes(f, op, Access("check", "", "", l), A, B)
<1> DEFINE x == Access("check", "", "", l)
<1>1. x.do = "check" /\ x.fail = l  BY DEF Access
<1> HIDE DEF x
<1>2. Asks(f, op, x, A)  BY <1>1 DEF Asks
<1>3. Exits(f, op, x, A)  BY <1>1, Escapes DEF Jumps, Settling
<1>4. \A g \in B.s \cup B.p : \A sure \in BOOLEAN : Gives(f, x, A, g, sure)
  BY <1>1 DEF Gives
<1>5. Passes(f, op, x, A, B)  BY <1>2, <1>3, <1>4, PassesWhen
<1> QED BY <1>5 DEF x

\* A read of DATA0 gives the value it held.
LEMMA ValuePasses ==
  ASSUME NEW f, NEW op, NEW l, NEW A, NEW B,
         {Yes("kept"), Mute} \subseteq A.s, Exit(op, l, A.s),
         Yes("sure") \in B.s => Yes("sure") \in A.s,
         \A g \in B.s : g = Fine \/ ReadGives(A, g, TRUE),
         \A g \in B.p : g = Fine \/ ReadGives(A, g, FALSE)
  PROVE  Passes(f, op, Access("read", "", "", l), A, B)
<1> DEFINE x == Access("read", "", "", l)
<1>1. x.do = "read" /\ x.fail = l  BY DEF Access
<1> HIDE DEF x
<1>2. Asks(f, op, x, A)  BY <1>1 DEF Asks
<1>3. \A g \in {Yes("sure"), Yes("kept")} : g[1] \notin {"value", "answer", "steady"} \cup Report
  BY DEF Yes, Report
<1>4. l # "return" => Gives(f, x, A, Yes("sure"), TRUE) /\ Gives(f, x, A, Yes("kept"), TRUE)
  BY <1>1, <1>3 DEF Gives, ReadGives, Keep, From, Exit
<1>5. Exits(f, op, x, A)  BY <1>1, <1>4, Escapes DEF Jumps, Settling
<1>6. (\A g \in B.s : Gives(f, x, A, g, TRUE)) /\ (\A g \in B.p : Gives(f, x, A, g, FALSE))
  BY <1>1 DEF Gives, ReadGives
<1>7. Passes(f, op, x, A, B)  BY <1>2, <1>5, <1>6, PassesWhen
<1> QED BY <1>7 DEF x

\* A wait for the halt gives a halted hart, and a loader that was started is done.
LEMMA HartPasses ==
  ASSUME NEW f, NEW op, NEW A, NEW B, NEW s,
         Yes("kept") \in A.s, Exit(op, "return", A.s),
         Yes("sure") \in B.s => Yes("sure") \in A.s,
         \A g \in B.s \cup B.p : \/ g = Fine
                                 \/ g \in A.s /\ g[1] \notin Report
                                 \/ s = "halted" /\ g = Yes("halted")
                                 \/ s = "halted" /\ g = Yes("done") /\ Yes("started") \in A.s
  PROVE  Passes(f, op, Access("hart", s, "", "return"), A, B)
<1> DEFINE x == Access("hart", s, "", "return")
<1>1. x.do = "hart" /\ x.reg = s /\ x.fail = "return"  BY DEF Access
<1> HIDE DEF x
<1>2. Asks(f, op, x, A)  BY <1>1 DEF Asks
<1>3. Exits(f, op, x, A)  BY <1>1, Escapes DEF Jumps, Settling
<1>4. \A g \in B.s \cup B.p : \A sure \in BOOLEAN : Gives(f, x, A, g, sure)
  BY <1>1 DEF Gives, Keep, From
<1>5. Passes(f, op, x, A, B)  BY <1>2, <1>3, <1>4, PassesWhen
<1> QED BY <1>5 DEF x

\* rvswd_debug_write_register
LEMMA WriteRegCarries ==
  ASSUME NEW f, NEW op, NEW L, NEW r \in Regs, NEW v, NEW l, l \in {"return"} \cup L, NEW S, NEW T,
         {Yes("kept"), Mute} \subseteq S, Exit(op, l, S),
         Idling \in S \/ (f = "V20X" /\ l = "return" /\ r \in Arguments4 \cup {"x10"}),
         l # "return" => {Yes("off"), Yes("steady"), Idling} \subseteq S,
         \A g \in T : \/ g \in {Fine, Yes("halted"), Idling, Yes("steady"), <<r, v>>}
                      \/ g \in S /\ g[1] \notin {"data0", "loose", "steady"} \cup SetTouched(r)
  PROVE  Carries(f, op, L, Both(S), WriteReg(r, v, l), Both(T))
<1> DEFINE W1 == {"data0", "loose", "steady"} \cup SetTouched(r)
           R == {g \in S : g[1] \notin W1}
           X == IF l = "return" THEN {} ELSE {Idling, Yes("steady")}
           D == IF Idling \in S THEN {<<"data0", v>>} ELSE {<<"loose", v>>}
           Q == {<<r, v>>, Yes("halted"), Idling, Yes("steady")}
           S1 == R \cup X \cup D
           S2 == R \cup X
           A1 == Both(S1)
           A2 == At(S2, Q)
           a == Access("write", "DATA0", v, l)
           b == Access("write", "ABSTRACTCS", "clear", l)
           c == Access("write", "COMMAND", SetReg(r), l)
           d == Access("abstractcs", "", "", l)
<1>1. \A g \in R : g \in S /\ g[1] \notin W1  OBVIOUS
<1>2. Report \subseteq W1 /\
        W1 \subseteq {"data0", "loose", "steady", "last", "started", "done", "free", r} \cup Report
  BY DEF SetTouched
<1>3. {Yes("kept"), Mute} \subseteq R
  <2>1. \A g \in {Yes("kept"), Mute} : g[1] \notin W1  BY <1>2 DEF Yes, Mute, Regs, Report
  <2> QED BY <2>1
<1>4. Exit(op, l, R)
  <2>1. \A g \in {Yes("calm"), Yes("sure")} : g[1] \notin W1  BY <1>2 DEF Yes, Regs, Report
  <2> QED BY <2>1 DEF Exit
<1>5. l # "return" => X \subseteq S /\ Yes("off") \in S  BY DEF X
<1>6. Yes("sure") \in S1 \cup S2 \cup Q \cup T => Yes("sure") \in R
  <2>0. Yes("sure") \notin {Fine, <<r, v>>, Yes("halted"), Idling, Yes("steady")}
    BY DEF Yes, Idling, Fine, Regs
  <2>1. Yes("sure") \notin X \cup D \cup Q  BY <2>0 DEF Yes
  <2>2. Yes("sure")[1] \notin W1  BY <1>2 DEF Yes, Regs, Report
  <2> QED BY <2>0, <2>1, <2>2
<1>7. {"data0", "loose", "steady"} \cup Report \subseteq W1 /\ SetTouched(r) \subseteq W1  BY <1>2
<1>8. \A g \in T : g = Fine \/ (g \in S2 \cup Q /\ g[1] \notin Report)
  <2>1. \A g \in Q : g[1] \notin Report  BY DEF Yes, Idling, Regs, Report
  <2> QED BY <1>2, <2>1
<1>81. \A g \in X : g \in {Idling, Yes("steady")} /\ g \in S /\ g[1] \notin SetTouched(r) /\
         l # "return"
  <2>1. \A g \in {Idling, Yes("steady")} : g[1] \notin SetTouched(r)
    BY DEF Yes, Idling, Regs, SetTouched, Report
  <2> QED BY <1>5, <2>1
<1>82. \A g \in D : (Idling \in S /\ g = <<"data0", v>>) \/
         (Idling \notin S /\ g = <<"loose", v>>)  OBVIOUS
<1>83. <<r, v>>[1] = r /\ <<r, v>>[2] = v  OBVIOUS
<1> HIDE DEF W1, R, X, D
<1>9. Passes(f, op, a, Both(S), A1)
  <2>1. Both(S).s = S /\ Both(S).p = S /\ A1.s = S1 /\ A1.p = S1  BY DEF Both, At
  <2>2. \A g \in S1 : \A sure \in BOOLEAN : Data0(f, v, Both(S), g, sure)
    <3>1. ASSUME NEW g \in R  PROVE \A sure \in BOOLEAN : Data0(f, v, Both(S), g, sure)
      BY <1>1, <1>7, <2>1 DEF Data0, Keep, From
    <3>2. ASSUME NEW g \in X  PROVE \A sure \in BOOLEAN : Data0(f, v, Both(S), g, sure)
      <4>1. CASE g = Yes("steady")  BY <1>5, <1>81, <2>1, <4>1 DEF Data0
      <4>2. CASE g = Idling
        <5>1. g[1] \notin {"data0", "loose", "steady"} \cup Report  BY <4>2 DEF Idling, Report
        <5> QED BY <1>81, <2>1, <5>1 DEF Data0, Keep, From
      <4> QED BY <1>81, <4>1, <4>2
    <3>3. ASSUME NEW g \in D  PROVE \A sure \in BOOLEAN : Data0(f, v, Both(S), g, sure)
      BY <1>82, <2>1 DEF Data0
    <3> QED BY <3>1, <3>2, <3>3
  <2>3. Yes("sure") \in A1.s => Yes("sure") \in Both(S).s  BY <1>1, <1>6, <2>1
  <2> HIDE DEF A1, S1
  <2> QED BY <2>1, <2>2, <2>3, Data0Passes
<1>10. Passes(f, op, b, A1, A1)
  <2>1. A1.s = S1 /\ A1.p = S1  BY DEF Both, At
  <2>2. \A g \in S1 : \A sure \in BOOLEAN : ClearError(A1, g, sure)
    <3>1. \A g \in S1 : g[1] \notin Report
      <4>1. \A g \in R : g[1] \notin Report  BY <1>1, <1>2
      <4>2. \A g \in X : g[1] \notin Report  BY <1>81 DEF Idling, Yes, Report
      <4>3. \A g \in D : g[1] \notin Report  BY <1>82 DEF Report
      <4> QED BY <4>1, <4>2, <4>3
    <3> QED BY <2>1, <3>1 DEF ClearError, Keep
  <2>3. Yes("kept") \in A1.s /\ Exit(op, l, A1.s)  BY <1>3, <1>4, <2>1 DEF Exit
  <2> HIDE DEF A1, S1
  <2> QED BY <2>1, <2>2, <2>3, ClearPasses
<1>11. Passes(f, op, c, A1, A2)
  <2>1. A1.s = S1 /\ A1.p = S1 /\ A2.s = S2 /\ A2.p = Q  BY DEF Both, At
  <2>2. Yes("kept") \in A1.s /\ Exit(op, l, A1.s)  BY <1>3, <1>4, <2>1 DEF Exit
  <2>3. CommandAsks(f, SetReg(r), A1)  BY DEF CommandAsks
  <2>4. \A g : \A sure \in BOOLEAN : SetGives(r, A1, g, sure)
          => CommandGives(SetReg(r), A1, g, sure)
    BY DEF CommandGives
  <2>5. \A g \in S2 : SetGives(r, A1, g, TRUE)
    <3>1. \A g \in R : g[1] \notin SetTouched(r)  BY <1>1, <1>7
    <3> QED BY <1>81, <2>1, <3>1 DEF SetGives, Keep, From
  <2>6. \A g \in Q : SetGives(r, A1, g, FALSE)
    <3>1. SetGives(r, A1, <<r, v>>, FALSE)
      <4>1. \/ <<"data0", v>> \in From(A1, FALSE)
            \/ r \in Arguments4 \cup {"x10"} /\ <<"loose", v>> \in From(A1, FALSE)
        BY <2>1 DEF From, D
      <4> QED BY <1>83, <4>1 DEF SetGives
    <3> QED BY <3>1 DEF SetGives
  <2>7. Yes("sure") \in A2.s => Yes("sure") \in A1.s  BY <1>6, <2>1
  <2>8. l # "return" => SetGives(r, A1, Yes("sure"), TRUE) /\ SetGives(r, A1, Yes("kept"), TRUE)
    <3>1. l # "return" => {Yes("sure"), Yes("kept")} \subseteq S2  BY <1>3, <1>4 DEF Exit
    <3> QED BY <2>5, <3>1
  <2> HIDE DEF A1, A2, S1, S2, Q
  <2> QED BY <2>1, <2>2, <2>3, <2>4, <2>5, <2>6, <2>7, <2>8, CommandPasses
<1>12. Passes(f, op, d, A2, Both(T))
  <2>1. A2.s = S2 /\ A2.p = Q /\ Both(T).s = T /\ Both(T).p = T  BY DEF Both, At
  <2>2. Yes("kept") \in A2.s /\ Exit(op, l, A2.s)  BY <1>3, <1>4, <2>1 DEF Exit
  <2>3. l # "return" => {Idling, Yes("steady")} \subseteq A2.s  BY <2>1 DEF X
  <2>4. Yes("sure") \in Both(T).s => Yes("sure") \in A2.s  BY <1>6, <2>1
  <2> HIDE DEF A2, S2, Q
  <2> QED BY <1>8, <2>1, <2>2, <2>3, <2>4, StatusPasses
<1>13. a.fail = l /\ b.fail = l /\ c.fail = l /\ d.fail = l  BY DEF Access
<1> HIDE DEF A1, A2, S1, S2, Q, a, b, c, d
<1>14. Carries(f, op, L, Both(S), <<a>>, A1)  BY <1>9, <1>13, CarriesOne
<1>15. Carries(f, op, L, A1, <<b>>, A1)  BY <1>10, <1>13, CarriesOne
<1>16. Carries(f, op, L, A1, <<c>>, A2)  BY <1>11, <1>13, CarriesOne
<1>17. Carries(f, op, L, A2, <<d>>, Both(T))  BY <1>12, <1>13, CarriesOne
<1>18. Carries(f, op, L, Both(S), <<a>> \o <<b>>, A1)  BY <1>14, <1>15, CarriesThen
<1>19. Carries(f, op, L, Both(S), <<a>> \o <<b>> \o <<c>>, A2)  BY <1>16, <1>18, CarriesThen
<1>20. Carries(f, op, L, Both(S), <<a>> \o <<b>> \o <<c>> \o <<d>>, Both(T))
  BY <1>17, <1>19, CarriesThen
<1> QED BY <1>20 DEF WriteReg, W, Clear, Status, a, b, c, d

-----------------------------------------------------------------------------
(* Pieces of programs and what they leave alone.                           *)

\* R is what a piece of a program leaves alone, Z names what it may change.
Frame(op, l, R, Z) ==
  /\ Exit(op, l, R) /\ {Yes("kept"), Mute} \subseteq R /\ Report \subseteq Z
  /\ \A g \in R : g[1] \notin Z

\* A word is written.
LEMMA Data0Frame ==
  ASSUME NEW f, NEW op, NEW L, NEW v, NEW l, l \in {"return"} \cup L, NEW R, NEW Z,
         Frame(op, l, R, Z),
         {"data0", "loose", "steady"} \cup Report \subseteq Z, NEW N, NEW M, NEW T, NEW Q,
         Yes("sure") \notin T,
         \A g \in T : g = Fine \/
           (g \in N /\ g[1] \notin {"data0", "loose", "steady"} \cup Report) \/
             (g = <<"data0", v>> /\ Idling \in R \cup N)
                      \/ (g = <<"loose", v>> /\ (Idling \in R \cup N \/ f = "V20X"))
                      \/ (g = Yes("steady") /\ Yes("off") \in R \cup N /\ g \in R \cup N),
         \A g \in Q : (g \in N \cup M /\ g[1] \notin {"data0", "loose", "steady"} \cup Report) \/
           g \in {<<"data0", v>>, <<"loose", v>>, Idling}
  PROVE  Carries(f, op, L, At(R \cup N, M), W("DATA0", v, l), At(R \cup T, Q))
<1> DEFINE A == At(R \cup N, M)
           B == At(R \cup T, Q)
           x == Access("write", "DATA0", v, l)
<1>1. A.s = R \cup N /\ A.p = M /\ B.s = R \cup T /\ B.p = Q  BY DEF At
<1>2. x.fail = l  BY DEF Access
<1> HIDE DEF A, B, x
<1>3. Exit(op, l, R) /\ Report \subseteq Z /\ (\A g \in R : g[1] \notin Z)  BY DEF Frame
<1>4. Yes("kept") \in A.s /\ Exit(op, l, A.s) /\ (Yes("sure") \in B.s => Yes("sure") \in A.s)
      /\ Mute \in A.s
  BY <1>1 DEF Frame, Exit
<1>5. \A g \in R : Data0(f, v, A, g, TRUE)
  BY <1>1, <1>3 DEF Data0, Keep, From
<1>6. \A g \in T : g = Fine \/ Data0(f, v, A, g, TRUE)
  BY <1>1 DEF Data0, Keep, From
<1>7. \A g \in Q : g = Fine \/ Data0(f, v, A, g, FALSE)
  BY <1>1 DEF Data0, Keep, From
<1>8. (\A g \in B.s : g = Fine \/ Data0(f, v, A, g, TRUE)) /\ \A g \in B.p : g = Fine \/
        Data0(f, v, A, g, FALSE)
  BY <1>1, <1>5, <1>6, <1>7
<1>9. Passes(f, op, Access("write", "DATA0", v, l), A, B)
  BY <1>4, <1>8, Data0Passes
<1>10. Passes(f, op, x, A, B)  BY <1>9 DEF x
<1> QED BY <1>2, <1>10, CarriesOne DEF W, A, B, x

\* The address of an access is written.
LEMMA Data1Frame ==
  ASSUME NEW f, NEW op, NEW L, NEW v, NEW l, l \in {"return"} \cup L, NEW R, NEW Z,
         Frame(op, l, R, Z),
         {"data1", "aim"} \cup Report \subseteq Z, NEW N, NEW M, NEW T, NEW Q, Yes("sure") \notin T,
         \A g \in T : g = Fine \/ (g \in N /\ g[1] \notin {"data1", "aim"} \cup Report) \/
           (g = <<"data1", v>> /\ Idling \in R \cup N)
                      \/ (g = Yes("aim") /\ v \notin {"a0", "a3"} /\
                          (Idling \in R \cup N \/ g \in N)),
         \A g \in Q : (g \in N \cup M /\ g[1] \notin {"data1", "aim"} \cup Report) \/
           g \in {<<"data1", v>>, Idling}
  PROVE  Carries(f, op, L, At(R \cup N, M), W("DATA1", v, l), At(R \cup T, Q))
<1> DEFINE A == At(R \cup N, M)
           B == At(R \cup T, Q)
           x == Access("write", "DATA1", v, l)
<1>1. A.s = R \cup N /\ A.p = M /\ B.s = R \cup T /\ B.p = Q  BY DEF At
<1>2. x.fail = l  BY DEF Access
<1> HIDE DEF A, B, x
<1>3. Exit(op, l, R) /\ Report \subseteq Z /\ (\A g \in R : g[1] \notin Z)  BY DEF Frame
<1>4. Yes("kept") \in A.s /\ Exit(op, l, A.s) /\ (Yes("sure") \in B.s => Yes("sure") \in A.s)
      /\ Mute \in A.s
  BY <1>1 DEF Frame, Exit
<1>5. \A g \in R : Data1(v, A, g, TRUE)
  BY <1>1, <1>3 DEF Data1, Keep, From
<1>6. \A g \in T : g = Fine \/ Data1(v, A, g, TRUE)
  BY <1>1 DEF Data1, Keep, From
<1>7. \A g \in Q : g = Fine \/ Data1(v, A, g, FALSE)
  BY <1>1 DEF Data1, Keep, From
<1>8. (\A g \in B.s : g = Fine \/ Data1(v, A, g, TRUE)) /\ \A g \in B.p : g = Fine \/
        Data1(v, A, g, FALSE)
  BY <1>1, <1>5, <1>6, <1>7
<1>9. Passes(f, op, Access("write", "DATA1", v, l), A, B)
  BY <1>4, <1>8, Data1Passes
<1>10. Passes(f, op, x, A, B)  BY <1>9 DEF x
<1> QED BY <1>2, <1>10, CarriesOne DEF W, A, B, x

\* A program is loaded.
LEMMA ProgFrame ==
  ASSUME NEW f, NEW op, NEW L, NEW v, NEW l, l \in {"return"} \cup L, NEW R, NEW Z,
         Frame(op, l, R, Z),
         {"prog", "sync"} \cup Report \subseteq Z, NEW N, NEW M, NEW T, NEW Q, Yes("sure") \notin T,
         \A g \in T : g = Fine \/ (g \in N /\ g[1] \notin {"prog", "sync"} \cup Report) \/
           (g = <<"prog", v>> /\ Idling \in R \cup N)
                      \/ (g = Yes("sync") /\ <<"mode", "none">> \in R \cup N),
         \A g \in Q : (g \in N \cup M /\ g[1] \notin {"prog", "sync"} \cup Report) \/
           g \in {<<"prog", v>>, Idling}
  PROVE  Carries(f, op, L, At(R \cup N, M), W("PROGBUF", v, l), At(R \cup T, Q))
<1> DEFINE A == At(R \cup N, M)
           B == At(R \cup T, Q)
           x == Access("write", "PROGBUF", v, l)
<1>1. A.s = R \cup N /\ A.p = M /\ B.s = R \cup T /\ B.p = Q  BY DEF At
<1>2. x.fail = l  BY DEF Access
<1> HIDE DEF A, B, x
<1>3. Exit(op, l, R) /\ Report \subseteq Z /\ (\A g \in R : g[1] \notin Z)  BY DEF Frame
<1>4. Yes("kept") \in A.s /\ Exit(op, l, A.s) /\ (Yes("sure") \in B.s => Yes("sure") \in A.s)
      /\ Mute \in A.s
  BY <1>1 DEF Frame, Exit
<1>5. \A g \in R : Progbuf(v, A, g, TRUE)
  BY <1>1, <1>3 DEF Progbuf, Keep, From
<1>6. \A g \in T : g = Fine \/ Progbuf(v, A, g, TRUE)
  BY <1>1 DEF Progbuf, Keep, From
<1>7. \A g \in Q : g = Fine \/ Progbuf(v, A, g, FALSE)
  BY <1>1 DEF Progbuf, Keep, From
<1>8. (\A g \in B.s : g = Fine \/ Progbuf(v, A, g, TRUE)) /\ \A g \in B.p : g = Fine \/
        Progbuf(v, A, g, FALSE)
  BY <1>1, <1>5, <1>6, <1>7
<1>9. Passes(f, op, Access("write", "PROGBUF", v, l), A, B)
  BY <1>4, <1>8, ProgPasses
<1>10. Passes(f, op, x, A, B)  BY <1>9 DEF x
<1> QED BY <1>2, <1>10, CarriesOne DEF W, A, B, x

\* The error is cleared.
LEMMA ClearFrame ==
  ASSUME NEW f, NEW op, NEW L, NEW l, l \in {"return"} \cup L, NEW R, NEW Z, Frame(op, l, R, Z),
         Report \subseteq Z, NEW N, NEW M, NEW T, NEW Q, Yes("sure") \notin T,
         \A g \in T : g = Fine \/ (g \in N /\ g[1] \notin Report),
         \A g \in Q : (g \in N /\ g[1] \notin Report) \/ g \in {Idling, Yes("steady")}
  PROVE  Carries(f, op, L, At(R \cup N, M), W("ABSTRACTCS", "clear", l), At(R \cup T, Q))
<1> DEFINE A == At(R \cup N, M)
           B == At(R \cup T, Q)
           x == Access("write", "ABSTRACTCS", "clear", l)
<1>1. A.s = R \cup N /\ A.p = M /\ B.s = R \cup T /\ B.p = Q  BY DEF At
<1>2. x.fail = l  BY DEF Access
<1> HIDE DEF A, B, x
<1>3. Exit(op, l, R) /\ Report \subseteq Z /\ (\A g \in R : g[1] \notin Z)  BY DEF Frame
<1>4. Yes("kept") \in A.s /\ Exit(op, l, A.s) /\ (Yes("sure") \in B.s => Yes("sure") \in A.s)
      /\ Mute \in A.s
  BY <1>1 DEF Frame, Exit
<1>5. \A g \in R : ClearError(A, g, TRUE)
  BY <1>1, <1>3 DEF ClearError, Keep, From
<1>6. \A g \in T : g = Fine \/ ClearError(A, g, TRUE)
  BY <1>1 DEF ClearError, Keep, From
<1>7. \A g \in Q : g = Fine \/ ClearError(A, g, FALSE)
  BY <1>1 DEF ClearError, Keep, From
<1>8. (\A g \in B.s : g = Fine \/ ClearError(A, g, TRUE)) /\ \A g \in B.p : g = Fine \/
        ClearError(A, g, FALSE)
  BY <1>1, <1>5, <1>6, <1>7
<1>9. Passes(f, op, Access("write", "ABSTRACTCS", "clear", l), A, B)
  BY <1>4, <1>8, ClearPasses
<1>10. Passes(f, op, x, A, B)  BY <1>9 DEF x
<1> QED BY <1>2, <1>10, CarriesOne DEF W, A, B, x

\* A register is set.
LEMMA SetFrame ==
  ASSUME NEW f, NEW op, NEW L, NEW r \in Regs, NEW l, l \in {"return"} \cup L, NEW R, NEW Z,
         Frame(op, l, R, Z),
         SetTouched(r) \subseteq Z, NEW N, NEW M, NEW T, NEW Q, Yes("sure") \notin T,
         \A g \in T : g = Fine \/ (g \in N /\ g[1] \notin SetTouched(r)),
         \A g \in Q : (g \in N \cup M /\ g[1] \notin SetTouched(r)) \/
           g \in {Yes("halted"), Idling, Yes("steady")}
                      \/ (g[1] = r /\ <<"data0", g[2]>> \in N \cup M)
  PROVE  Carries(f, op, L, At(R \cup N, M), W("COMMAND", SetReg(r), l), At(R \cup T, Q))
<1> DEFINE A == At(R \cup N, M)
           B == At(R \cup T, Q)
           x == Access("write", "COMMAND", SetReg(r), l)
<1>1. A.s = R \cup N /\ A.p = M /\ B.s = R \cup T /\ B.p = Q  BY DEF At
<1>2. x.fail = l  BY DEF Access
<1> HIDE DEF A, B, x
<1>3. Exit(op, l, R) /\ Report \subseteq Z /\ (\A g \in R : g[1] \notin Z)  BY DEF Frame
<1>4. Yes("kept") \in A.s /\ Exit(op, l, A.s) /\ (Yes("sure") \in B.s => Yes("sure") \in A.s)
      /\ Mute \in A.s
  BY <1>1 DEF Frame, Exit
<1>5. \A g \in R : SetGives(r, A, g, TRUE)
  BY <1>1, <1>3 DEF SetGives, Keep, From, SetTouched
<1>6. \A g \in T : g = Fine \/ SetGives(r, A, g, TRUE)
  BY <1>1 DEF SetGives, Keep, From, SetTouched
<1>7. \A g \in Q : g = Fine \/ SetGives(r, A, g, FALSE)
  BY <1>1 DEF SetGives, Keep, From, SetTouched
<1>8. (\A g \in B.s : g = Fine \/ SetGives(r, A, g, TRUE)) /\ \A g \in B.p : g = Fine \/
        SetGives(r, A, g, FALSE)
  BY <1>1, <1>5, <1>6, <1>7
<1>9. CommandAsks(f, SetReg(r), A)  BY DEF CommandAsks
<1>10. \A g : \A sure \in BOOLEAN : SetGives(r, A, g, sure) => CommandGives(SetReg(r), A, g, sure)
  BY <1>1, <1>9 DEF CommandGives
<1>11. l # "return"
         => CommandGives(SetReg(r), A, Yes("sure"), TRUE) /\
           CommandGives(SetReg(r), A, Yes("kept"), TRUE)
  <2>1. l # "return" => {Yes("sure"), Yes("kept")} \subseteq R  BY DEF Frame, Exit
  <2> QED BY <1>5, <1>10, <2>1
<1>12. (\A g \in B.s : g = Fine \/ CommandGives(SetReg(r), A, g, TRUE)) /\
         \A g \in B.p : g = Fine \/ CommandGives(SetReg(r), A, g, FALSE)
  BY <1>8, <1>10
<1>13. Passes(f, op, Access("write", "COMMAND", SetReg(r), l), A, B)
  BY <1>4, <1>9, <1>11, <1>12, CommandPasses
<1>14. Passes(f, op, x, A, B)  BY <1>13 DEF x
<1> QED BY <1>2, <1>14, CarriesOne DEF W, A, B, x

\* A register is fetched.
LEMMA GetFrame ==
  ASSUME NEW f, NEW op, NEW L, NEW r \in Regs, NEW l, l \in {"return"} \cup L, NEW R, NEW Z,
         Frame(op, l, R, Z),
         {"data0", "loose", "last"} \cup Report \subseteq Z, NEW N, NEW M, NEW T, NEW Q,
         Yes("sure") \notin T,
         \A g \in T : g = Fine \/ (g \in N /\ g[1] \notin {"data0", "loose", "last"} \cup Report),
         \A g \in Q : (g \in N \cup M /\ g[1] \notin {"data0", "loose", "last"} \cup Report) \/
           g \in {Yes("halted"), Idling, Yes("steady")}
                      \/ (g[1] = "data0" /\ r = "x8" /\ <<r, g[2]>> \in N \cup M)
                      \/ (g = <<"data0", "result">> /\ r = "x10" /\ Yes("done") \in N \cup M)
  PROVE  Carries(f, op, L, At(R \cup N, M), W("COMMAND", GetReg(r), l), At(R \cup T, Q))
<1> DEFINE A == At(R \cup N, M)
           B == At(R \cup T, Q)
           x == Access("write", "COMMAND", GetReg(r), l)
<1>1. A.s = R \cup N /\ A.p = M /\ B.s = R \cup T /\ B.p = Q  BY DEF At
<1>2. x.fail = l  BY DEF Access
<1> HIDE DEF A, B, x
<1>3. Exit(op, l, R) /\ Report \subseteq Z /\ (\A g \in R : g[1] \notin Z)  BY DEF Frame
<1>4. Yes("kept") \in A.s /\ Exit(op, l, A.s) /\ (Yes("sure") \in B.s => Yes("sure") \in A.s)
      /\ Mute \in A.s
  BY <1>1 DEF Frame, Exit
<1>5. \A g \in R : GetGives(r, A, g, TRUE)
  BY <1>1, <1>3 DEF GetGives, Keep, From
<1>6. \A g \in T : g = Fine \/ GetGives(r, A, g, TRUE)
  BY <1>1 DEF GetGives, Keep, From
<1>7. \A g \in Q : g = Fine \/ GetGives(r, A, g, FALSE)
  BY <1>1 DEF GetGives, Keep, From
<1>8. (\A g \in B.s : g = Fine \/ GetGives(r, A, g, TRUE)) /\ \A g \in B.p : g = Fine \/
        GetGives(r, A, g, FALSE)
  BY <1>1, <1>5, <1>6, <1>7
<1>9. CommandAsks(f, GetReg(r), A)  BY DEF CommandAsks
<1>10. \A g : \A sure \in BOOLEAN : GetGives(r, A, g, sure) => CommandGives(GetReg(r), A, g, sure)
  BY <1>1, <1>9 DEF CommandGives
<1>11. l # "return"
         => CommandGives(GetReg(r), A, Yes("sure"), TRUE) /\
           CommandGives(GetReg(r), A, Yes("kept"), TRUE)
  <2>1. l # "return" => {Yes("sure"), Yes("kept")} \subseteq R  BY DEF Frame, Exit
  <2> QED BY <1>5, <1>10, <2>1
<1>12. (\A g \in B.s : g = Fine \/ CommandGives(GetReg(r), A, g, TRUE)) /\
         \A g \in B.p : g = Fine \/ CommandGives(GetReg(r), A, g, FALSE)
  BY <1>8, <1>10
<1>13. Passes(f, op, Access("write", "COMMAND", GetReg(r), l), A, B)
  BY <1>4, <1>9, <1>11, <1>12, CommandPasses
<1>14. Passes(f, op, x, A, B)  BY <1>13 DEF x
<1> QED BY <1>2, <1>14, CarriesOne DEF W, A, B, x

\* A word of the memory is fetched.
LEMMA FetchFrame ==
  ASSUME NEW f, NEW op, NEW L, NEW l, l \in {"return"} \cup L, NEW R, NEW Z, Frame(op, l, R, Z),
         {"data0", "loose"} \cup Ran \subseteq Z, NEW N, NEW M, NEW T, NEW Q, Yes("sure") \notin T,
         \A g \in T : g = Fine \/ (g \in N /\ g[1] \notin {"data0", "loose"} \cup Ran),
         \A g \in Q : (g \in N \cup M /\ g[1] \notin {"data0", "loose"} \cup Ran) \/
           (g = <<"data0", "a1">> /\ {<<"data1", "a1">>, <<"a1", "a1">>} \subseteq R \cup N \cup M)
  PROVE  Carries(f, op, L, At(R \cup N, M), W("COMMAND", ReadMem, l), At(R \cup T, Q))
<1> DEFINE A == At(R \cup N, M)
           B == At(R \cup T, Q)
           x == Access("write", "COMMAND", ReadMem, l)
<1>1. A.s = R \cup N /\ A.p = M /\ B.s = R \cup T /\ B.p = Q  BY DEF At
<1>2. x.fail = l  BY DEF Access
<1> HIDE DEF A, B, x
<1>3. Exit(op, l, R) /\ Report \subseteq Z /\ (\A g \in R : g[1] \notin Z)  BY DEF Frame
<1>4. Yes("kept") \in A.s /\ Exit(op, l, A.s) /\ (Yes("sure") \in B.s => Yes("sure") \in A.s)
      /\ Mute \in A.s
  BY <1>1 DEF Frame, Exit
<1>5. \A g \in R : FetchGives(A, g, TRUE)
  BY <1>1, <1>3 DEF FetchGives, Keep, From, Ran
<1>6. \A g \in T : g = Fine \/ FetchGives(A, g, TRUE)
  BY <1>1 DEF FetchGives, Keep, From, Ran
<1>7. \A g \in Q : g = Fine \/ FetchGives(A, g, FALSE)
  BY <1>1 DEF FetchGives, Keep, From, Ran
<1>8. (\A g \in B.s : g = Fine \/ FetchGives(A, g, TRUE)) /\ \A g \in B.p : g = Fine \/
        FetchGives(A, g, FALSE)
  BY <1>1, <1>5, <1>6, <1>7
<1>9. CommandAsks(f, ReadMem, A)  BY DEF CommandAsks
<1>10. \A g : \A sure \in BOOLEAN : FetchGives(A, g, sure) => CommandGives(ReadMem, A, g, sure)
  BY <1>1, <1>9 DEF CommandGives
<1>11. l # "return"
         => CommandGives(ReadMem, A, Yes("sure"), TRUE) /\
           CommandGives(ReadMem, A, Yes("kept"), TRUE)
  <2>1. l # "return" => {Yes("sure"), Yes("kept")} \subseteq R  BY DEF Frame, Exit
  <2> QED BY <1>5, <1>10, <2>1
<1>12. (\A g \in B.s : g = Fine \/ CommandGives(ReadMem, A, g, TRUE)) /\ \A g \in B.p : g = Fine \/
         CommandGives(ReadMem, A, g, FALSE)
  BY <1>8, <1>10
<1>13. Passes(f, op, Access("write", "COMMAND", ReadMem, l), A, B)
  BY <1>4, <1>9, <1>11, <1>12, CommandPasses
<1>14. Passes(f, op, x, A, B)  BY <1>13 DEF x
<1> QED BY <1>2, <1>14, CarriesOne DEF W, A, B, x

\* A word of the memory is stored.
LEMMA StoreFrame ==
  ASSUME NEW f, NEW op, NEW L, NEW l, l \in {"return"} \cup L, NEW R, NEW Z, Frame(op, l, R, Z),
         Blocks \cup Ran \subseteq Z, NEW N, NEW M, NEW T, NEW Q, Yes("sure") \notin T,
         Yes("aim") \in R \cup N, f = "X03X" => Yes("unlocked") \in R,
         \A g \in T : g = Fine \/ (g \in N /\ g[1] \notin Blocks \cup Ran),
         \A g \in Q : (g \in N \cup M /\ g[1] \notin Blocks \cup Ran)
                      \/ (g[1] \in Blocks /\ <<"data1", g[1]>> \in N \cup M /\
                          <<"data0", g[2]>> \in N \cup M)
                      \/ (g \in N \cup M /\ g[1] \in Blocks /\
                          \E b \in Blocks \ {g[1]} : <<"data1", b>> \in N \cup M)
  PROVE  Carries(f, op, L, At(R \cup N, M), W("COMMAND", WriteMem, l), At(R \cup T, Q))
<1> DEFINE A == At(R \cup N, M)
           B == At(R \cup T, Q)
           x == Access("write", "COMMAND", WriteMem, l)
<1>1. A.s = R \cup N /\ A.p = M /\ B.s = R \cup T /\ B.p = Q  BY DEF At
<1>2. x.fail = l  BY DEF Access
<1> HIDE DEF A, B, x
<1>3. Exit(op, l, R) /\ Report \subseteq Z /\ (\A g \in R : g[1] \notin Z)  BY DEF Frame
<1>4. Yes("kept") \in A.s /\ Exit(op, l, A.s) /\ (Yes("sure") \in B.s => Yes("sure") \in A.s)
      /\ Mute \in A.s
  BY <1>1 DEF Frame, Exit
<1>5. \A g \in R : StoreGives(A, g, TRUE)
  BY <1>1, <1>3 DEF StoreGives, Keep, From, Ran
<1>6. \A g \in T : g = Fine \/ StoreGives(A, g, TRUE)
  BY <1>1 DEF StoreGives, Keep, From, Ran
<1>7. \A g \in Q : g = Fine \/ StoreGives(A, g, FALSE)
  BY <1>1 DEF StoreGives, Keep, From, Ran
<1>8. (\A g \in B.s : g = Fine \/ StoreGives(A, g, TRUE)) /\ \A g \in B.p : g = Fine \/
        StoreGives(A, g, FALSE)
  BY <1>1, <1>5, <1>6, <1>7
<1>9. CommandAsks(f, WriteMem, A)  BY <1>1 DEF CommandAsks
<1>10. \A g : \A sure \in BOOLEAN : StoreGives(A, g, sure) => CommandGives(WriteMem, A, g, sure)
  BY <1>1, <1>9 DEF CommandGives
<1>11. l # "return"
         => CommandGives(WriteMem, A, Yes("sure"), TRUE) /\
           CommandGives(WriteMem, A, Yes("kept"), TRUE)
  <2>1. l # "return" => {Yes("sure"), Yes("kept")} \subseteq R  BY DEF Frame, Exit
  <2> QED BY <1>5, <1>10, <2>1
<1>12. (\A g \in B.s : g = Fine \/ CommandGives(WriteMem, A, g, TRUE)) /\ \A g \in B.p : g = Fine \/
         CommandGives(WriteMem, A, g, FALSE)
  BY <1>8, <1>10
<1>13. Passes(f, op, Access("write", "COMMAND", WriteMem, l), A, B)
  BY <1>4, <1>9, <1>11, <1>12, CommandPasses
<1>14. Passes(f, op, x, A, B)  BY <1>13 DEF x
<1> QED BY <1>2, <1>14, CarriesOne DEF W, A, B, x

\* The program buffer stores a word.
LEMMA RunStoreFrame ==
  ASSUME NEW f, NEW op, NEW L, NEW l, l \in {"return"} \cup L, NEW R, NEW Z, Frame(op, l, R, Z),
         {"x8"} \cup Ran \subseteq Z, NEW N, NEW M, NEW T, NEW Q, Yes("sure") \notin T,
         NEW b \in Blocks \cup {"peripheral"}, <<"x9", b>> \in N \cup M,
         <<"prog", "store">> \in R \cup N,
         \A g \in R : g[1] # b, f = "X03X" => Yes("unlocked") \in R,
         \A g \in T : g = Fine \/ (g \in N /\ g[1] \notin {"x8"} \cup Blocks \cup Ran) \/
           (g \in N /\ g[1] \in Blocks \ {b}),
         \A g \in Q : (g \in N \cup M /\ g[1] \notin {"x8"} \cup Blocks \cup Ran) \/
           (g \in N \cup M /\ g[1] \in Blocks \ {b})
                      \/ (g[1] = b /\ b \in Blocks /\ <<"data0", g[2]>> \in N \cup M)
  PROVE  Carries(f, op, L, At(R \cup N, M), W("COMMAND", SetRun("x8"), l), At(R \cup T, Q))
<1> DEFINE A == At(R \cup N, M)
           B == At(R \cup T, Q)
           x == Access("write", "COMMAND", SetRun("x8"), l)
<1>1. A.s = R \cup N /\ A.p = M /\ B.s = R \cup T /\ B.p = Q  BY DEF At
<1>2. x.fail = l  BY DEF Access
<1> HIDE DEF A, B, x
<1>3. Exit(op, l, R) /\ Report \subseteq Z /\ (\A g \in R : g[1] \notin Z)  BY DEF Frame
<1>4. Yes("kept") \in A.s /\ Exit(op, l, A.s) /\ (Yes("sure") \in B.s => Yes("sure") \in A.s)
      /\ Mute \in A.s
  BY <1>1 DEF Frame, Exit
<1>5. \A g \in R : RunStoreGives(A, g, TRUE)
  BY <1>1, <1>3 DEF RunStoreGives, Keep, From, Ran
<1>6. \A g \in T : g = Fine \/ RunStoreGives(A, g, TRUE)
  BY <1>1 DEF RunStoreGives, Keep, From, Ran
<1>7. \A g \in Q : g = Fine \/ RunStoreGives(A, g, FALSE)
  BY <1>1 DEF RunStoreGives, Keep, From, Ran
<1>8. (\A g \in B.s : g = Fine \/ RunStoreGives(A, g, TRUE)) /\ \A g \in B.p : g = Fine \/
        RunStoreGives(A, g, FALSE)
  BY <1>1, <1>5, <1>6, <1>7
<1>9. CommandAsks(f, SetRun("x8"), A) /\ <<"prog", "store">> \in A.s  BY <1>1 DEF CommandAsks
<1>10. \A g : \A sure \in BOOLEAN : RunStoreGives(A, g, sure)
         => CommandGives(SetRun("x8"), A, g, sure)
  BY <1>1, <1>9 DEF CommandGives
<1>11. l # "return"
         => CommandGives(SetRun("x8"), A, Yes("sure"), TRUE) /\
           CommandGives(SetRun("x8"), A, Yes("kept"), TRUE)
  <2>1. l # "return" => {Yes("sure"), Yes("kept")} \subseteq R  BY DEF Frame, Exit
  <2> QED BY <1>5, <1>10, <2>1
<1>12. (\A g \in B.s : g = Fine \/ CommandGives(SetRun("x8"), A, g, TRUE)) /\
         \A g \in B.p : g = Fine \/ CommandGives(SetRun("x8"), A, g, FALSE)
  BY <1>8, <1>10
<1>13. Passes(f, op, Access("write", "COMMAND", SetRun("x8"), l), A, B)
  BY <1>4, <1>9, <1>11, <1>12, CommandPasses
<1>14. Passes(f, op, x, A, B)  BY <1>13 DEF x
<1> QED BY <1>2, <1>14, CarriesOne DEF W, A, B, x

\* The program buffer loads a word.
LEMMA RunLoadFrame ==
  ASSUME NEW f, NEW op, NEW L, NEW l, l \in {"return"} \cup L, NEW R, NEW Z, Frame(op, l, R, Z),
         {"x8"} \cup Ran \subseteq Z, NEW N, NEW M, NEW T, NEW Q, Yes("sure") \notin T,
         <<"prog", "load">> \in R \cup N,
         \A g \in T : g = Fine \/ (g \in N /\ g[1] \notin {"x8"} \cup Ran),
         \A g \in Q : (g \in N \cup M /\ g[1] \notin {"x8"} \cup Ran) \/
           (g = <<"x8", "a1">> /\ {<<"data0", "a1">>, <<"a1", "a1">>} \subseteq R \cup N \cup M)
  PROVE  Carries(f, op, L, At(R \cup N, M), W("COMMAND", SetRun("x8"), l), At(R \cup T, Q))
<1> DEFINE A == At(R \cup N, M)
           B == At(R \cup T, Q)
           x == Access("write", "COMMAND", SetRun("x8"), l)
<1>1. A.s = R \cup N /\ A.p = M /\ B.s = R \cup T /\ B.p = Q  BY DEF At
<1>2. x.fail = l  BY DEF Access
<1> HIDE DEF A, B, x
<1>3. Exit(op, l, R) /\ Report \subseteq Z /\ (\A g \in R : g[1] \notin Z)  BY DEF Frame
<1>4. Yes("kept") \in A.s /\ Exit(op, l, A.s) /\ (Yes("sure") \in B.s => Yes("sure") \in A.s)
      /\ Mute \in A.s
  BY <1>1 DEF Frame, Exit
<1>5. \A g \in R : RunLoadGives(A, g, TRUE)
  BY <1>1, <1>3 DEF RunLoadGives, Keep, From, Ran
<1>6. \A g \in T : g = Fine \/ RunLoadGives(A, g, TRUE)
  BY <1>1 DEF RunLoadGives, Keep, From, Ran
<1>7. \A g \in Q : g = Fine \/ RunLoadGives(A, g, FALSE)
  BY <1>1 DEF RunLoadGives, Keep, From, Ran
<1>8. (\A g \in B.s : g = Fine \/ RunLoadGives(A, g, TRUE)) /\ \A g \in B.p : g = Fine \/
        RunLoadGives(A, g, FALSE)
  BY <1>1, <1>5, <1>6, <1>7
<1>9. CommandAsks(f, SetRun("x8"), A) /\ <<"prog", "load">> \in A.s  BY <1>1 DEF CommandAsks
<1>10. \A g : \A sure \in BOOLEAN : RunLoadGives(A, g, sure)
         => CommandGives(SetRun("x8"), A, g, sure)
  BY <1>1, <1>9 DEF CommandGives
<1>11. l # "return"
         => CommandGives(SetRun("x8"), A, Yes("sure"), TRUE) /\
           CommandGives(SetRun("x8"), A, Yes("kept"), TRUE)
  <2>1. l # "return" => {Yes("sure"), Yes("kept")} \subseteq R  BY DEF Frame, Exit
  <2> QED BY <1>5, <1>10, <2>1
<1>12. (\A g \in B.s : g = Fine \/ CommandGives(SetRun("x8"), A, g, TRUE)) /\
         \A g \in B.p : g = Fine \/ CommandGives(SetRun("x8"), A, g, FALSE)
  BY <1>8, <1>10
<1>13. Passes(f, op, Access("write", "COMMAND", SetRun("x8"), l), A, B)
  BY <1>4, <1>9, <1>11, <1>12, CommandPasses
<1>14. Passes(f, op, x, A, B)  BY <1>13 DEF x
<1> QED BY <1>2, <1>14, CarriesOne DEF W, A, B, x

\* The program buffer enables the code mode.
LEMMA RunCodeFrame ==
  ASSUME NEW f, NEW op, NEW L, NEW l, l \in {"return"} \cup L, NEW R, NEW Z, Frame(op, l, R, Z),
         Ran \subseteq Z, NEW N, NEW M, NEW T, NEW Q, Yes("sure") \notin T,
         <<"prog", "code">> \in R \cup N,
         \A g \in T : g = Fine \/ (g \in N /\ g[1] \notin Ran),
         \A g \in Q : (g \in N \cup M /\ g[1] \notin Ran)
  PROVE  Carries(f, op, L, At(R \cup N, M), W("COMMAND", Run, l), At(R \cup T, Q))
<1> DEFINE A == At(R \cup N, M)
           B == At(R \cup T, Q)
           x == Access("write", "COMMAND", Run, l)
<1>1. A.s = R \cup N /\ A.p = M /\ B.s = R \cup T /\ B.p = Q  BY DEF At
<1>2. x.fail = l  BY DEF Access
<1> HIDE DEF A, B, x
<1>3. Exit(op, l, R) /\ Report \subseteq Z /\ (\A g \in R : g[1] \notin Z)  BY DEF Frame
<1>4. Yes("kept") \in A.s /\ Exit(op, l, A.s) /\ (Yes("sure") \in B.s => Yes("sure") \in A.s)
      /\ Mute \in A.s
  BY <1>1 DEF Frame, Exit
<1>5. \A g \in R : RunCodeGives(A, g, TRUE)
  BY <1>1, <1>3 DEF RunCodeGives, Keep, From, Ran
<1>6. \A g \in T : g = Fine \/ RunCodeGives(A, g, TRUE)
  BY <1>1 DEF RunCodeGives, Keep, From, Ran
<1>7. \A g \in Q : g = Fine \/ RunCodeGives(A, g, FALSE)
  BY <1>1 DEF RunCodeGives, Keep, From, Ran
<1>8. (\A g \in B.s : g = Fine \/ RunCodeGives(A, g, TRUE)) /\ \A g \in B.p : g = Fine \/
        RunCodeGives(A, g, FALSE)
  BY <1>1, <1>5, <1>6, <1>7
<1>9. CommandAsks(f, Run, A) /\ <<"prog", "code">> \in A.s  BY <1>1 DEF CommandAsks
<1>10. \A g : \A sure \in BOOLEAN : RunCodeGives(A, g, sure) => CommandGives(Run, A, g, sure)
  BY <1>1, <1>9 DEF CommandGives
<1>11. l # "return"
         => CommandGives(Run, A, Yes("sure"), TRUE) /\ CommandGives(Run, A, Yes("kept"), TRUE)
  <2>1. l # "return" => {Yes("sure"), Yes("kept")} \subseteq R  BY DEF Frame, Exit
  <2> QED BY <1>5, <1>10, <2>1
<1>12. (\A g \in B.s : g = Fine \/ CommandGives(Run, A, g, TRUE)) /\ \A g \in B.p : g = Fine \/
         CommandGives(Run, A, g, FALSE)
  BY <1>8, <1>10
<1>13. Passes(f, op, Access("write", "COMMAND", Run, l), A, B)
  BY <1>4, <1>9, <1>11, <1>12, CommandPasses
<1>14. Passes(f, op, x, A, B)  BY <1>13 DEF x
<1> QED BY <1>2, <1>14, CarriesOne DEF W, A, B, x

\* The program buffer gives the port a word of the page.
LEMMA RunPageFrame ==
  ASSUME NEW f, NEW op, NEW L, NEW l, l \in {"return"} \cup L, NEW R, NEW Z, Frame(op, l, R, Z),
         {"page"} \cup Ran \subseteq Z, NEW N, NEW M, NEW T, NEW Q, Yes("sure") \notin T,
         <<"prog", "page">> \in R \cup N, {<<"port", "program">>, <<"pn", 3>>} \subseteq R \cup N,
         {<<"page", "erased">>, <<"data0", "w1">>} \subseteq N \/
           {<<"page", "half">>, <<"data0", "w2">>} \subseteq N,
         \A g \in T : g = Fine \/ (g \in N /\ g[1] \notin {"page"} \cup Ran),
         \A g \in Q : (g \in N \cup M /\ g[1] \notin {"page"} \cup Ran)
                      \/ (g = <<"page", "half">> /\ <<"page", "erased">> \in N)
                      \/ (g = <<"page", "filled">> /\ <<"page", "half">> \in N)
  PROVE  Carries(f, op, L, At(R \cup N, M), W("COMMAND", SetRun("x14"), l), At(R \cup T, Q))
<1> DEFINE A == At(R \cup N, M)
           B == At(R \cup T, Q)
           x == Access("write", "COMMAND", SetRun("x14"), l)
<1>1. A.s = R \cup N /\ A.p = M /\ B.s = R \cup T /\ B.p = Q  BY DEF At
<1>2. x.fail = l  BY DEF Access
<1> HIDE DEF A, B, x
<1>3. Exit(op, l, R) /\ Report \subseteq Z /\ (\A g \in R : g[1] \notin Z)  BY DEF Frame
<1>4. Yes("kept") \in A.s /\ Exit(op, l, A.s) /\ (Yes("sure") \in B.s => Yes("sure") \in A.s)
      /\ Mute \in A.s
  BY <1>1 DEF Frame, Exit
<1>5. \A g \in R : RunPageGives(A, g, TRUE)
  BY <1>1, <1>3 DEF RunPageGives, Keep, From, Ran
<1>6. \A g \in T : g = Fine \/ RunPageGives(A, g, TRUE)
  BY <1>1 DEF RunPageGives, Keep, From, Ran
<1>7. \A g \in Q : g = Fine \/ RunPageGives(A, g, FALSE)
  BY <1>1 DEF RunPageGives, Keep, From, Ran
<1>8. (\A g \in B.s : g = Fine \/ RunPageGives(A, g, TRUE)) /\ \A g \in B.p : g = Fine \/
        RunPageGives(A, g, FALSE)
  BY <1>1, <1>5, <1>6, <1>7
<1>9. CommandAsks(f, SetRun("x14"), A) /\ <<"prog", "page">> \in A.s  BY <1>1 DEF CommandAsks
<1>10. \A g : \A sure \in BOOLEAN : RunPageGives(A, g, sure)
         => CommandGives(SetRun("x14"), A, g, sure)
  BY <1>1, <1>9 DEF CommandGives
<1>11. l # "return"
         => CommandGives(SetRun("x14"), A, Yes("sure"), TRUE) /\
           CommandGives(SetRun("x14"), A, Yes("kept"), TRUE)
  <2>1. l # "return" => {Yes("sure"), Yes("kept")} \subseteq R  BY DEF Frame, Exit
  <2> QED BY <1>5, <1>10, <2>1
<1>12. (\A g \in B.s : g = Fine \/ CommandGives(SetRun("x14"), A, g, TRUE)) /\
         \A g \in B.p : g = Fine \/ CommandGives(SetRun("x14"), A, g, FALSE)
  BY <1>8, <1>10
<1>13. Passes(f, op, Access("write", "COMMAND", SetRun("x14"), l), A, B)
  BY <1>4, <1>9, <1>11, <1>12, CommandPasses
<1>14. Passes(f, op, x, A, B)  BY <1>13 DEF x
<1> QED BY <1>2, <1>14, CarriesOne DEF W, A, B, x

\* rvswd_debug_wait_abstract_idle and the check of cmderr.
LEMMA IdleFrame ==
  ASSUME NEW f, NEW op, NEW L, NEW l, l \in {"return"} \cup L, NEW R, NEW Z, Frame(op, l, R, Z),
         NEW N, NEW M, NEW T, Yes("sure") \notin T,
         \A g \in T : g \in {Idling, Yes("steady"), Fine} \/ (g \in N \cup M /\ g[1] \notin Report)
  PROVE  Carries(f, op, L, At(R \cup N, M), Idle(l), Both(R \cup T))
<1> DEFINE A == At(R \cup N, M)
           I == {Idling, Yes("steady"), Fine}
           C == At(R \cup I, T)
           B == Both(R \cup T)
           x == Access("wait", "", "", l)
           y == Access("check", "", "", l)
<1>1. /\ A.s = R \cup N /\ A.p = M /\ C.s = R \cup I /\ C.p = T /\ B.s = R \cup T /\ B.p = R \cup T
      /\ x.fail = l /\ y.fail = l
  BY DEF At, Both, Access
<1>2. Yes("kept") \in R /\ Exit(op, l, R) /\ \A g \in R : g[1] \notin Report  BY DEF Frame
<1>3. Yes("sure") \notin I  BY DEF Yes, Idling, Fine
<1>4. Passes(f, op, x, A, C)
  <2>1. Yes("kept") \in A.s /\ Exit(op, l, A.s) /\ (Yes("sure") \in C.s => Yes("sure") \in A.s)
    BY <1>1, <1>2, <1>3 DEF Exit
  <2>2. \A g \in C.s : g \in {Idling, Yes("steady"), Fine} \/ (g \in A.s /\ g[1] \notin Report)
    BY <1>1, <1>2
  <2>3. \A g \in C.p : g \in {Idling, Yes("steady"), Fine} \/
          (g \in A.s \cup A.p /\ g[1] \notin Report)
    BY <1>1
  <2> HIDE DEF A, C
  <2> QED BY <2>1, <2>2, <2>3, WaitPasses
<1>5. Passes(f, op, y, C, B)
  <2>1. {Yes("kept"), Fine} \subseteq C.s /\ Exit(op, l, C.s) /\
          {Idling, Yes("steady")} \subseteq C.s
    BY <1>1, <1>2 DEF Exit
  <2>2. (Yes("sure") \in B.s => Yes("sure") \in C.s) /\ B.s \cup B.p \subseteq C.s \cup C.p
    BY <1>1
  <2> HIDE DEF C, B
  <2> QED BY <2>1, <2>2, CheckPasses
<1> HIDE DEF A, B, C, x, y
<1>6. Carries(f, op, L, A, <<x>>, C) /\ Carries(f, op, L, C, <<y>>, B)
  BY <1>1, <1>4, <1>5, CarriesOne
<1> QED BY <1>6, CarriesThen DEF Idle, Wait, Check, x, y, A, B

\* One look at cmderr.
LEMMA StatusFrame ==
  ASSUME NEW f, NEW op, NEW L, NEW l, l \in {"return"} \cup L, NEW R, NEW Z, Frame(op, l, R, Z),
         NEW N, NEW M, NEW T, Yes("sure") \notin T,
         l # "return" => {Idling, Yes("steady")} \subseteq N,
         \A g \in T : g = Fine \/ (g \in N \cup M /\ g[1] \notin Report)
  PROVE  Carries(f, op, L, At(R \cup N, M), Status(l), Both(R \cup T))
<1> DEFINE A == At(R \cup N, M)
           B == Both(R \cup T)
           x == Access("abstractcs", "", "", l)
<1>1. A.s = R \cup N /\ A.p = M /\ B.s = R \cup T /\ B.p = R \cup T /\ x.fail = l
  BY DEF At, Both, Access
<1>2. Yes("kept") \in R /\ Exit(op, l, R) /\ \A g \in R : g[1] \notin Report  BY DEF Frame
<1> HIDE DEF A, B
<1>3. Yes("kept") \in A.s /\ Exit(op, l, A.s) /\ (Yes("sure") \in B.s => Yes("sure") \in A.s)
  BY <1>1, <1>2 DEF Exit
<1>4. l # "return" => {Idling, Yes("steady")} \subseteq A.s  BY <1>1
<1>5. \A g \in B.s \cup B.p : g = Fine \/ (g \in A.s \cup A.p /\ g[1] \notin Report)  BY <1>1, <1>2
<1>6. Passes(f, op, x, A, B)  BY <1>3, <1>4, <1>5, StatusPasses
<1> HIDE DEF x
<1> QED BY <1>1, <1>6, CarriesOne DEF Status, x, A, B

\* The value of DATA0.
LEMMA ReadFrame ==
  ASSUME NEW f, NEW op, NEW L, NEW l, l \in {"return"} \cup L, NEW R, NEW Z, Frame(op, l, R, Z),
         {"value", "answer", "steady"} \subseteq Z, NEW N, NEW M, NEW T, NEW Q,
         Yes("sure") \notin T,
         \A g \in T : \/ g = Fine
                      \/ g \in N /\ g[1] \notin {"value", "answer", "steady"} \cup Report
                      \/ g[1] = "value" /\ <<"data0", g[2]>> \in N
                      \/ g = Yes("answer") /\ <<"data0", "a1">> \in N \cup M,
         \A g \in Q : \/ g \in N \cup M /\ g[1] \notin {"value", "answer", "steady"} \cup Report
                      \/ g[1] = "value" /\ <<"data0", g[2]>> \in N \cup M
                      \/ g = Idling
  PROVE  Carries(f, op, L, At(R \cup N, M), Read(l), At(R \cup T, Q))
<1> DEFINE A == At(R \cup N, M)
           B == At(R \cup T, Q)
           x == Access("read", "", "", l)
<1>1. A.s = R \cup N /\ A.p = M /\ B.s = R \cup T /\ B.p = Q /\ x.fail = l  BY DEF At, Access
<1>2. {Yes("kept"), Mute} \subseteq R /\ Exit(op, l, R) /\
        \A g \in R : g[1] \notin {"value", "answer", "steady"} \cup Report
  BY DEF Frame
<1> HIDE DEF A, B
<1>3. {Yes("kept"), Mute} \subseteq A.s /\ Exit(op, l, A.s) /\
        (Yes("sure") \in B.s => Yes("sure") \in A.s)
  BY <1>1, <1>2 DEF Exit
<1>4. \A g \in R : ReadGives(A, g, TRUE)  BY <1>1, <1>2 DEF ReadGives, Keep, From
<1>5. \A g \in T : g = Fine \/ ReadGives(A, g, TRUE)  BY <1>1 DEF ReadGives, Keep, From
<1>6. \A g \in Q : ReadGives(A, g, FALSE)  BY <1>1 DEF ReadGives, Keep, From
<1>7. (\A g \in B.s : g = Fine \/ ReadGives(A, g, TRUE)) /\ \A g \in B.p : g = Fine \/
        ReadGives(A, g, FALSE)
  BY <1>1, <1>4, <1>5, <1>6
<1>8. Passes(f, op, x, A, B)  BY <1>3, <1>7, ValuePasses
<1> HIDE DEF x
<1> QED BY <1>1, <1>8, CarriesOne DEF Read, x, A, B

\* Autoexec is turned off before a slow write and before other programs.
LEMMA OffPasses ==
  ASSUME NEW f, NEW op, NEW l, NEW A, NEW B,
         {Yes("kept"), Yes("sure")} \subseteq A.s, Exit(op, l, A.s),
         l = "return" => Yes("steady") \in A.s \/ Yes("off") \in A.s,
         \A g \in B.s : g = Fine \/ Autoexec("off", A, g, TRUE),
         \A g \in B.p : g = Fine \/ Autoexec("off", A, g, FALSE)
  PROVE  Passes(f, op, Access("write", "ABSTRACTAUTO", "off", l), A, B)
<1> DEFINE x == Access("write", "ABSTRACTAUTO", "off", l)
<1>1. x.do = "write" /\ x.reg = "ABSTRACTAUTO" /\ x.val = "off" /\ x.fail = l  BY DEF Access
<1> HIDE DEF x
<1>2. Asks(f, op, x, A)  BY <1>1 DEF Asks, WriteAsks
<1>3. \A g : \A sure \in BOOLEAN : g = Fine \/ Autoexec("off", A, g, sure)
        => Gives(f, x, A, g, sure)
  BY <1>1 DEF Gives, WriteGives
<1>4. Exits(f, op, x, A)
  <2>1. CASE l = "return"  BY <1>1, <2>1 DEF Exits, Returns, Exit
  <2>2. CASE l # "return"
    <3>1. \A g \in {Yes("sure"), Yes("kept")} : g[1] \notin {"auto", "off", "calm"} \cup Report
      BY DEF Yes, Report
    <3>2. Autoexec("off", A, Yes("sure"), TRUE) /\ Autoexec("off", A, Yes("kept"), TRUE)
      BY <3>1 DEF Autoexec, Keep, From
    <3>3. Gives(f, x, A, Yes("sure"), TRUE) /\ Gives(f, x, A, Yes("kept"), TRUE)
      BY <1>3, <3>2
    <3> QED BY <1>1, <2>2, <3>3, Escapes DEF Jumps, Settling
  <2> QED BY <2>1, <2>2
<1>5. Passes(f, op, x, A, B)  BY <1>2, <1>3, <1>4, PassesWhen
<1> QED BY <1>5 DEF x

\* Switching autoexec off gives a module that is.
LEMMA OffFrame ==
  ASSUME NEW f, NEW op, NEW L, NEW R, NEW Z, Frame(op, "return", R, Z),
         NEW N, Yes("sure") \in R, Yes("steady") \in R \cup N \/ Yes("off") \in R \cup N,
         \A g \in R : g[1] \in {"auto", "off", "calm"} => g \in {Mute, Yes("off"), Yes("calm")},
         NEW T, Yes("sure") \notin T,
         \A g \in T : \/ g \in {Fine, Yes("off")}
                      \/ g \in N /\ g[1] \notin {"auto", "off", "calm"} \cup Report
  PROVE  Carries(f, op, L, Both(R \cup N), W("ABSTRACTAUTO", "off", "return"), Both(R \cup T))
<1> DEFINE A == Both(R \cup N)
           B == Both(R \cup T)
           x == Access("write", "ABSTRACTAUTO", "off", "return")
<1>1. A.s = R \cup N /\ A.p = R \cup N /\ B.s = R \cup T /\ B.p = R \cup T /\ x.fail = "return"
  BY DEF At, Both, Access
<1>2. {Yes("kept"), Mute} \subseteq R /\ Exit(op, "return", R) /\ \A g \in R : g[1] \notin Report
  BY DEF Frame
<1> HIDE DEF A, B
<1>3. {Yes("kept"), Yes("sure")} \subseteq A.s /\ Exit(op, "return", A.s) /\
        (Yes("steady") \in A.s \/ Yes("off") \in A.s)
      /\ Mute \in A.s
  BY <1>1, <1>2 DEF Exit
<1>4. ASSUME NEW g, g \in {Mute, Yes("off"), Yes("calm")},
             NEW sure \in BOOLEAN
      PROVE Autoexec("off", A, g, sure)
  BY <1>3, <1>4 DEF Autoexec
<1>5. \A g \in R \cup N : g[1] \notin {"auto", "off", "calm"} \cup Report
        => \A sure \in BOOLEAN : Autoexec("off", A, g, sure)
  BY <1>1 DEF Autoexec, Keep, From
<1>6. \A g \in R \cup T : g = Fine \/ \A sure \in BOOLEAN : Autoexec("off", A, g, sure)
  BY <1>2, <1>4, <1>5
<1>7. Passes(f, op, x, A, B)  BY <1>1, <1>3, <1>6, OffPasses
<1> HIDE DEF x
<1> QED BY <1>1, <1>7, CarriesOne DEF W, x, A, B

\* The unlock sequence.
LEMMA UnlockCarries ==
  ASSUME NEW f, NEW op, NEW L, NEW A, NEW B, Yes("kept") \in A.s, Exit(op, "return", A.s),
         Yes("sure") \in B.s => Yes("sure") \in A.s,
         \A g \in B.s : \/ g = Fine \/ (g \in A.s /\ g[1] \notin Report)
                        \/ g = Yes("unlocked") /\ (Yes("free") \in A.s \/ Yes("halted") \in A.s),
         \A g \in B.p : \/ g = Fine \/ (g \in A.s \cup A.p /\ g[1] \notin Report)
                        \/ g = Yes("unlocked") /\ (Yes("free") \in A.s \/ Yes("halted") \in A.s)
  PROVE  Carries(f, op, L, A, Unlock, B)
<1> DEFINE x == Access("write", "UNLOCK", "", "return")
<1>1. x.reg = "UNLOCK" /\ x.val = "" /\ x.fail = "return"  BY DEF Access
<1>2. WriteAsks(f, op, x, A)  BY <1>1 DEF WriteAsks
<1> HIDE DEF x
<1>3. (\A g \in B.s : WriteGives(f, x, A, g, TRUE)) /\ \A g \in B.p : WriteGives(f, x, A, g, FALSE)
  BY <1>1 DEF WriteGives, Keep, From
<1>4. x = Access("write", "UNLOCK", "", "return") /\
        ~("UNLOCK" = "ABSTRACTAUTO" /\ "return" = "return")
  BY DEF x
<1>5. Passes(f, op, x, A, B)  BY <1>2, <1>3, <1>4, WritePasses, Zenon
<1> QED BY <1>1, <1>5, CarriesOne DEF Unlock, W, x

\* A request to the hart that returns when it fails.
LEMMA ControlCarries ==
  ASSUME NEW f, NEW op, NEW L, NEW v, NEW A, NEW B, Yes("kept") \in A.s, Exit(op, "return", A.s),
         \/ v \in {"idle", "halt", "reset", "reset_halt"}
         \/ v = "resume" /\
              (Yes("free") \in A.s \/ Yes("running") \in A.s \/ LoaderReady(f, op, A.s)),
         Yes("sure") \in B.s => Yes("sure") \in A.s,
         \A g \in B.s : g = Fine \/ ControlGives(v, A.s, g),
         \A g \in B.p : g = Fine \/ ControlGives(v, A.s \cup A.p, g)
  PROVE  Carries(f, op, L, A, W("CONTROL", v, "return"), B)
<1> DEFINE x == Access("write", "CONTROL", v, "return")
<1>1. x.reg = "CONTROL" /\ x.val = v /\ x.fail = "return"  BY DEF Access
<1>2. WriteAsks(f, op, x, A)  BY <1>1 DEF WriteAsks
<1> HIDE DEF x
<1>3. (\A g \in B.s : WriteGives(f, x, A, g, TRUE)) /\ \A g \in B.p : WriteGives(f, x, A, g, FALSE)
  BY <1>1 DEF WriteGives, From
<1>4. x = Access("write", "CONTROL", v, "return") /\
        ~("CONTROL" = "ABSTRACTAUTO" /\ "return" = "return")
  BY DEF x
<1>5. Passes(f, op, x, A, B)  BY <1>2, <1>3, <1>4, WritePasses, Zenon
<1> QED BY <1>1, <1>5, CarriesOne DEF W, x

\* The wait for the hart, as a program.
LEMMA HartCarries ==
  ASSUME NEW f, NEW op, NEW L, NEW A, NEW B, NEW s,
         Yes("kept") \in A.s, Exit(op, "return", A.s),
         Yes("sure") \in B.s => Yes("sure") \in A.s,
         \A g \in B.s \cup B.p : \/ g = Fine
                                 \/ g \in A.s /\ g[1] \notin Report
                                 \/ s = "halted" /\ g = Yes("halted")
                                 \/ s = "halted" /\ g = Yes("done") /\ Yes("started") \in A.s
  PROVE  Carries(f, op, L, A, Hart(s, "return"), B)
<1> DEFINE x == Access("hart", s, "", "return")
<1>1. x.fail = "return"  BY DEF Access
<1>2. Passes(f, op, x, A, B)  BY HartPasses
<1> HIDE DEF x
<1> QED BY <1>1, <1>2, CarriesOne DEF Hart, x

\* Labels and ends.
LEMMA LabelCarries ==
  ASSUME NEW f, NEW op, NEW L, NEW l, NEW A, NEW B, Yes("kept") \in E(f, op, l),
         Covers(A, Both(E(f, op, l))),
         Covers(Both(E(f, op, l)), B)
  PROVE  Carries(f, op, L, A, Label(l), B)
<1> DEFINE x == Access("label", l, "", "return")
           C == Both(E(f, op, l))
<1>1. x.do = "label" /\ x.reg = l /\ x.fail = "return"  BY DEF Access
<1>2. C.s = E(f, op, l) /\ C.p = E(f, op, l)  BY DEF Both, At
<1> HIDE DEF x, C
<1>3. Asks(f, op, x, C) /\ Exits(f, op, x, C)  BY <1>1, <1>2 DEF Asks, Exits, Jumps
<1>4. \A g \in C.s : \A sure \in BOOLEAN : Gives(f, x, C, g, sure)  BY <1>1 DEF Gives
<1>5. Passes(f, op, x, C, C)  BY <1>2, <1>3, <1>4, PassesWhen
<1>6. Passes(f, op, x, A, B)  BY <1>5, PassesCovers DEF C
<1> QED BY <1>1, <1>6, CarriesOne DEF Label, x

\* After the end of an operation anything may be claimed.
LEMMA LastPasses ==
  ASSUME NEW f, NEW op, NEW x, NEW A, NEW B, Asks(f, op, x, A), x.do \in Lasts
  PROVE  Passes(f, op, x, A, B)
<1>1. Exits(f, op, x, A)  BY DEF Exits, Lasts, Jumps
<1> QED BY <1>1, FlowPasses DEF Flow

\* A jump needs what its label expects.
LEMMA GotoCarries ==
  ASSUME NEW f, NEW op, NEW L, NEW l \in L, l # "return", NEW A, NEW B, Yes("kept") \in A.s,
         E(f, op, l) \subseteq A.s
  PROVE  Carries(f, op, L, A, Goto(l), B)
<1> DEFINE x == Access("goto", "", "", l)
<1>1. x.do = "goto" /\ x.fail = l  BY DEF Access
<1> HIDE DEF x
<1>2. Asks(f, op, x, A) /\ x.do \in Lasts  BY <1>1 DEF Asks, Lasts
<1>3. Passes(f, op, x, A, B)  BY <1>2, LastPasses
<1> QED BY <1>1, <1>3, CarriesOne DEF Goto, x

\* Success needs what the operation promises.
LEMMA DoneCarries ==
  ASSUME NEW f, NEW op, NEW L, NEW A, NEW B, FinalS(f, op) \subseteq A.s,
         FinalP(f, op) \subseteq A.s \cup A.p
  PROVE  Carries(f, op, L, A, Done, B)
<1> DEFINE x == Access("done", "", "", "return")
<1>1. x.do = "done" /\ x.fail = "return"  BY DEF Access
<1> HIDE DEF x
<1>2. Yes("kept") \in A.s  BY DEF FinalS
<1>3. Asks(f, op, x, A) /\ x.do \in Lasts  BY <1>1, <1>2 DEF Asks, Lasts
<1>4. Passes(f, op, x, A, B)  BY <1>3, LastPasses
<1> QED BY <1>1, <1>4, CarriesOne DEF Done, x

\* Failure needs the diagnosis to be told, autoexec to be off and the request taken back.
LEMMA GiveUpCarries ==
  ASSUME NEW f, NEW op, NEW L, NEW A, NEW B, {Yes("kept"), Yes("told"), Yes("calm")} \subseteq A.s,
         op = "resume" => Yes("released") \in A.s
  PROVE  Carries(f, op, L, A, GiveUp, B)
<1> DEFINE x == Access("giveup", "", "", "return")
<1>1. x.do = "giveup" /\ x.fail = "return"  BY DEF Access
<1> HIDE DEF x
<1>2. Asks(f, op, x, A) /\ x.do \in Lasts  BY <1>1 DEF Asks, Lasts
<1>3. Passes(f, op, x, A, B)  BY <1>2, LastPasses
<1> QED BY <1>1, <1>3, CarriesOne DEF GiveUp, x

\* Clean-up writes, whose results are not looked at.
LEMMA CleanCarries ==
  ASSUME NEW f, NEW op, NEW L, NEW reg, NEW v, NEW A, NEW B, Yes("kept") \in A.s,
         \/ reg = "ABSTRACTAUTO" /\ v = "off" /\ {Yes("sure"), Yes("steady")} \subseteq A.s
         \/ reg = "ABSTRACTCS"
         \/ reg = "CONTROL" /\ v = "idle",
         Yes("sure") \in B.s => Yes("sure") \in A.s,
         \A g \in B.s \cup B.p :
            \/ reg = "ABSTRACTAUTO" /\ g \in A.s /\ g[1] \notin {"calm", "auto"}
            \/ reg = "ABSTRACTAUTO" /\ g = Yes("calm")
            \/ reg = "ABSTRACTCS" /\ g \in A.s
            \/ reg = "CONTROL" /\ g \in A.s /\ g[1] \notin HartThings
            \/ reg = "CONTROL" /\ g = Yes("released")
  PROVE  Carries(f, op, L, A, Clean(reg, v), B)
<1> DEFINE x == Access("clean", reg, v, "return")
<1>1. x.do = "clean" /\ x.reg = reg /\ x.val = v /\ x.fail = "return"  BY DEF Access
<1> HIDE DEF x
<1>2. Asks(f, op, x, A) /\ Exits(f, op, x, A)  BY <1>1 DEF Asks, Exits, Jumps
<1>3. \A g \in B.s \cup B.p : \A sure \in BOOLEAN : Gives(f, x, A, g, sure)
  BY <1>1 DEF Gives, Keep
<1>4. Passes(f, op, x, A, B)  BY <1>2, <1>3, PassesWhen
<1> QED BY <1>1, <1>4, CarriesOne DEF Clean, x

\* Pieces of programs one after the other.
LEMMA Chain3 ==
  ASSUME NEW f, NEW op, NEW L, NEW A0, NEW A1, NEW A2, NEW A3,
         NEW p1, NEW p2, NEW p3,
         Carries(f, op, L, A0, p1, A1),
         Carries(f, op, L, A1, p2, A2),
         Carries(f, op, L, A2, p3, A3)
  PROVE  Carries(f, op, L, A0, p1 \o p2 \o p3, A3)
<1>1. Carries(f, op, L, A0, p1 \o p2, A2)  BY CarriesThen
<1>2. Carries(f, op, L, A0, p1 \o p2 \o p3, A3)  BY <1>1, CarriesThen
<1> QED BY <1>2

\* Four programs one after the other.
LEMMA Chain4 ==
  ASSUME NEW f, NEW op, NEW L, NEW A0, NEW A1, NEW A2, NEW A3, NEW A4,
         NEW p1, NEW p2, NEW p3, NEW p4,
         Carries(f, op, L, A0, p1, A1),
         Carries(f, op, L, A1, p2, A2),
         Carries(f, op, L, A2, p3, A3),
         Carries(f, op, L, A3, p4, A4)
  PROVE  Carries(f, op, L, A0, p1 \o p2 \o p3 \o p4, A4)
<1>1. Carries(f, op, L, A0, p1 \o p2, A2)  BY CarriesThen
<1>2. Carries(f, op, L, A0, p1 \o p2 \o p3, A3)  BY <1>1, CarriesThen
<1>3. Carries(f, op, L, A0, p1 \o p2 \o p3 \o p4, A4)  BY <1>2, CarriesThen
<1> QED BY <1>3

\* Five of them.
LEMMA Chain5 ==
  ASSUME NEW f, NEW op, NEW L, NEW A0, NEW A1, NEW A2, NEW A3, NEW A4, NEW A5,
         NEW p1, NEW p2, NEW p3, NEW p4, NEW p5,
         Carries(f, op, L, A0, p1, A1),
         Carries(f, op, L, A1, p2, A2),
         Carries(f, op, L, A2, p3, A3),
         Carries(f, op, L, A3, p4, A4),
         Carries(f, op, L, A4, p5, A5)
  PROVE  Carries(f, op, L, A0, p1 \o p2 \o p3 \o p4 \o p5, A5)
<1>1. Carries(f, op, L, A0, p1 \o p2, A2)  BY CarriesThen
<1>2. Carries(f, op, L, A0, p1 \o p2 \o p3, A3)  BY <1>1, CarriesThen
<1>3. Carries(f, op, L, A0, p1 \o p2 \o p3 \o p4, A4)  BY <1>2, CarriesThen
<1>4. Carries(f, op, L, A0, p1 \o p2 \o p3 \o p4 \o p5, A5)  BY <1>3, CarriesThen
<1> QED BY <1>4

\* Six of them.
LEMMA Chain6 ==
  ASSUME NEW f, NEW op, NEW L, NEW A0, NEW A1, NEW A2, NEW A3, NEW A4, NEW A5, NEW A6,
         NEW p1, NEW p2, NEW p3, NEW p4, NEW p5, NEW p6,
         Carries(f, op, L, A0, p1, A1),
         Carries(f, op, L, A1, p2, A2),
         Carries(f, op, L, A2, p3, A3),
         Carries(f, op, L, A3, p4, A4),
         Carries(f, op, L, A4, p5, A5),
         Carries(f, op, L, A5, p6, A6)
  PROVE  Carries(f, op, L, A0, p1 \o p2 \o p3 \o p4 \o p5 \o p6, A6)
<1>1. Carries(f, op, L, A0, p1 \o p2, A2)  BY CarriesThen
<1>2. Carries(f, op, L, A0, p1 \o p2 \o p3, A3)  BY <1>1, CarriesThen
<1>3. Carries(f, op, L, A0, p1 \o p2 \o p3 \o p4, A4)  BY <1>2, CarriesThen
<1>4. Carries(f, op, L, A0, p1 \o p2 \o p3 \o p4 \o p5, A5)  BY <1>3, CarriesThen
<1>5. Carries(f, op, L, A0, p1 \o p2 \o p3 \o p4 \o p5 \o p6, A6)  BY <1>4, CarriesThen
<1> QED BY <1>5

\* Seven of them.
LEMMA Chain7 ==
  ASSUME NEW f, NEW op, NEW L, NEW A0, NEW A1, NEW A2, NEW A3, NEW A4, NEW A5, NEW A6, NEW A7,
         NEW p1, NEW p2, NEW p3, NEW p4, NEW p5, NEW p6, NEW p7,
         Carries(f, op, L, A0, p1, A1),
         Carries(f, op, L, A1, p2, A2),
         Carries(f, op, L, A2, p3, A3),
         Carries(f, op, L, A3, p4, A4),
         Carries(f, op, L, A4, p5, A5),
         Carries(f, op, L, A5, p6, A6),
         Carries(f, op, L, A6, p7, A7)
  PROVE  Carries(f, op, L, A0, p1 \o p2 \o p3 \o p4 \o p5 \o p6 \o p7, A7)
<1>1. Carries(f, op, L, A0, p1 \o p2, A2)  BY CarriesThen
<1>2. Carries(f, op, L, A0, p1 \o p2 \o p3, A3)  BY <1>1, CarriesThen
<1>3. Carries(f, op, L, A0, p1 \o p2 \o p3 \o p4, A4)  BY <1>2, CarriesThen
<1>4. Carries(f, op, L, A0, p1 \o p2 \o p3 \o p4 \o p5, A5)  BY <1>3, CarriesThen
<1>5. Carries(f, op, L, A0, p1 \o p2 \o p3 \o p4 \o p5 \o p6, A6)  BY <1>4, CarriesThen
<1>6. Carries(f, op, L, A0, p1 \o p2 \o p3 \o p4 \o p5 \o p6 \o p7, A7)  BY <1>5, CarriesThen
<1> QED BY <1>6

\* Eight of them.
LEMMA Chain8 ==
  ASSUME NEW f, NEW op, NEW L, NEW A0, NEW A1, NEW A2, NEW A3, NEW A4, NEW A5, NEW A6, NEW A7,
         NEW A8,
         NEW p1, NEW p2, NEW p3, NEW p4, NEW p5, NEW p6, NEW p7, NEW p8,
         Carries(f, op, L, A0, p1, A1),
         Carries(f, op, L, A1, p2, A2),
         Carries(f, op, L, A2, p3, A3),
         Carries(f, op, L, A3, p4, A4),
         Carries(f, op, L, A4, p5, A5),
         Carries(f, op, L, A5, p6, A6),
         Carries(f, op, L, A6, p7, A7),
         Carries(f, op, L, A7, p8, A8)
  PROVE  Carries(f, op, L, A0, p1 \o p2 \o p3 \o p4 \o p5 \o p6 \o p7 \o p8, A8)
<1>1. Carries(f, op, L, A0, p1 \o p2, A2)  BY CarriesThen
<1>2. Carries(f, op, L, A0, p1 \o p2 \o p3, A3)  BY <1>1, CarriesThen
<1>3. Carries(f, op, L, A0, p1 \o p2 \o p3 \o p4, A4)  BY <1>2, CarriesThen
<1>4. Carries(f, op, L, A0, p1 \o p2 \o p3 \o p4 \o p5, A5)  BY <1>3, CarriesThen
<1>5. Carries(f, op, L, A0, p1 \o p2 \o p3 \o p4 \o p5 \o p6, A6)  BY <1>4, CarriesThen
<1>6. Carries(f, op, L, A0, p1 \o p2 \o p3 \o p4 \o p5 \o p6 \o p7, A7)  BY <1>5, CarriesThen
<1>7. Carries(f, op, L, A0, p1 \o p2 \o p3 \o p4 \o p5 \o p6 \o p7 \o p8, A8)  BY <1>6, CarriesThen
<1> QED BY <1>7

\* Nine of them.
LEMMA Chain9 ==
  ASSUME NEW f, NEW op, NEW L, NEW A0, NEW A1, NEW A2, NEW A3, NEW A4, NEW A5, NEW A6, NEW A7,
         NEW A8, NEW A9,
         NEW p1, NEW p2, NEW p3, NEW p4, NEW p5, NEW p6, NEW p7, NEW p8, NEW p9,
         Carries(f, op, L, A0, p1, A1),
         Carries(f, op, L, A1, p2, A2),
         Carries(f, op, L, A2, p3, A3),
         Carries(f, op, L, A3, p4, A4),
         Carries(f, op, L, A4, p5, A5),
         Carries(f, op, L, A5, p6, A6),
         Carries(f, op, L, A6, p7, A7),
         Carries(f, op, L, A7, p8, A8),
         Carries(f, op, L, A8, p9, A9)
  PROVE  Carries(f, op, L, A0, p1 \o p2 \o p3 \o p4 \o p5 \o p6 \o p7 \o p8 \o p9, A9)
<1>1. Carries(f, op, L, A0, p1 \o p2, A2)  BY CarriesThen
<1>2. Carries(f, op, L, A0, p1 \o p2 \o p3, A3)  BY <1>1, CarriesThen
<1>3. Carries(f, op, L, A0, p1 \o p2 \o p3 \o p4, A4)  BY <1>2, CarriesThen
<1>4. Carries(f, op, L, A0, p1 \o p2 \o p3 \o p4 \o p5, A5)  BY <1>3, CarriesThen
<1>5. Carries(f, op, L, A0, p1 \o p2 \o p3 \o p4 \o p5 \o p6, A6)  BY <1>4, CarriesThen
<1>6. Carries(f, op, L, A0, p1 \o p2 \o p3 \o p4 \o p5 \o p6 \o p7, A7)  BY <1>5, CarriesThen
<1>7. Carries(f, op, L, A0, p1 \o p2 \o p3 \o p4 \o p5 \o p6 \o p7 \o p8, A8)  BY <1>6, CarriesThen
<1>8. Carries(f, op, L, A0, p1 \o p2 \o p3 \o p4 \o p5 \o p6 \o p7 \o p8 \o p9, A9)
  BY <1>7, CarriesThen
<1> QED BY <1>8

\* Annotations that are subsets are covered.
LEMMA BothCovers ==
  ASSUME NEW S, NEW T, NEW P, T \subseteq S, P \subseteq S
  PROVE  /\ Covers(Both(S), At(T, P)) /\ Covers(Both(S), Both(T))
         /\ Covers(At(S, P), Both(T)) /\ Covers(At(S, {}), Both(T))
BY DEF Covers, Both, At

\* A frame may be asked to survive less.
LEMMA FrameLess ==
  ASSUME NEW op, NEW l, NEW R, NEW Z, NEW Y, Frame(op, l, R, Z), Y \subseteq Z, Report \subseteq Y
  PROVE  Frame(op, l, R, Y)
BY DEF Frame

\* What is known of a word that was written, if it is one of the block or the mailbox.
Written(a, v) == IF a \in Blocks THEN {<<a, v>>} ELSE {}

\* What a slow word changes.
SlowTouched(a) == {a, "x8", "x9", "data0", "loose"} \cup Ran

\* rvswd_memory_write_slow, one word.
LEMMA SlowWordCarries ==
  ASSUME NEW f, NEW op, NEW L, NEW a \in Blocks \cup {"peripheral"}, NEW v, NEW R,
         Frame(op, "return", R, SlowTouched(a)),
         <<"prog", "store">> \in R, f = "X03X" => Yes("unlocked") \in R
  PROVE  Carries(f, op, L, Both(R \cup {Idling}), SlowWord(a, v),
                 Both(R \cup {Idling, Yes("steady"), Fine, Yes("halted")} \cup Written(a, v)))
<1> DEFINE Z == SlowTouched(a)
           N0 == {Idling}
           N2 == {Idling, <<"data0", a>>}
           M3 == {<<"x9", a>>, Yes("halted")}
           N4 == {Idling, <<"data0", v>>}
           M5 == {Yes("halted")} \cup Written(a, v)
           T6 == {Idling, Yes("steady"), Fine, Yes("halted")} \cup Written(a, v)
<1>1. Frame(op, "return", R, Z)  OBVIOUS
<1>2. {"data0", "loose", "steady"} \cup Report \subseteq Z /\ SetTouched("x9") \subseteq Z /\
        {"x8"} \cup Ran \subseteq Z
      /\ a \in Z /\ Report \subseteq Z
  BY DEF SlowTouched, Ran, SetTouched
<1>3. "x8" \in Regs /\ "x9" \in Regs  BY DEF Regs
<1>4. \A g \in R : g[1] # a  BY <1>1, <1>2 DEF Frame
<1>5. Written(a, v) \subseteq {<<a, v>>} /\ (Written(a, v) # {} => a \in Blocks)  BY DEF Written
<1>6. Yes("sure") \notin N0 \cup N2 \cup N4 \cup M5 \cup T6
  BY <1>5 DEF Yes, Idling, Fine, Blocks
<1>7. Carries(f, op, L, At(R \cup N0, {}), Clear("return"), At(R \cup N0, {}))
  <2>1. \A g \in N0 : g = Fine \/ (g \in N0 /\ g[1] \notin Report)  BY DEF Idling, Report
  <2> HIDE DEF Z, N0
  <2> QED BY <1>1, <1>2, <1>6, <2>1, ClearFrame DEF Clear
<1>8. Carries(f, op, L, At(R \cup N0, {}), W("DATA0", a, "return"), At(R \cup N2, {}))
  <2>1. \A g \in N2 : g = Fine \/ (g \in N0 /\ g[1] \notin {"data0", "loose", "steady"} \cup Report)
                       \/ (g = <<"data0", a>> /\ Idling \in R \cup N0)
    BY DEF Idling, Report
  <2> HIDE DEF Z, N0, N2
  <2> QED BY <1>1, <1>2, <1>6, <2>1, Data0Frame
<1>9. Carries(f, op, L, At(R \cup N2, {}), W("COMMAND", SetReg("x9"), "return"), At(R \cup N0, M3))
  <2>1. \A g \in N0 : g \in N2 /\ g[1] \notin SetTouched("x9")  BY DEF Idling, Report, SetTouched
  <2>2. \A g \in M3 : g = Yes("halted") \/ (g[1] = "x9" /\ <<"data0", g[2]>> \in N2)  OBVIOUS
  <2> HIDE DEF Z, N0, N2, M3
  <2> QED BY <1>1, <1>2, <1>3, <1>6, <2>1, <2>2, SetFrame
<1>10. Carries(f, op, L, At(R \cup N0, M3), W("DATA0", v, "return"), At(R \cup N4, M3))
  <2>1. \A g \in N4 : g = Fine \/ (g \in N0 /\ g[1] \notin {"data0", "loose", "steady"} \cup Report)
                       \/ (g = <<"data0", v>> /\ Idling \in R \cup N0)
    BY DEF Idling, Report
  <2>2. \A g \in M3 : g \in N0 \cup M3 /\ g[1] \notin {"data0", "loose", "steady"} \cup Report
    BY DEF Yes, Report
  <2> HIDE DEF Z, N0, N4, M3
  <2> QED BY <1>1, <1>2, <1>6, <2>1, <2>2, Data0Frame
<1>11. Carries(f, op, L, At(R \cup N4, M3), W("COMMAND", SetRun("x8"), "return"), At(R \cup {}, M5))
  <2>1. <<"x9", a>> \in N4 \cup M3  OBVIOUS
  <2>2. \A g \in M5 : \/ g \in N4 \cup M3 /\ g[1] \notin {"x8"} \cup Blocks \cup Ran
                      \/ g[1] = a /\ a \in Blocks /\ <<"data0", g[2]>> \in N4 \cup M3
    <3>1. Yes("halted")[1] \notin {"x8"} \cup Blocks \cup Ran  BY DEF Yes, Blocks, Ran, Report
    <3>2. ASSUME NEW g \in Written(a, v)  PROVE g[1] = a /\ g[2] = v /\ a \in Blocks
      BY <1>5
    <3> QED BY <3>1, <3>2
  <2> HIDE DEF Z, N4, M3, M5
  <2> QED BY <1>1, <1>2, <1>4, <2>1, <2>2, RunStoreFrame
<1>12. Carries(f, op, L, At(R \cup {}, M5), Idle("return"), Both(R \cup T6))
  <2>1. \A g \in T6 : g \in {Idling, Yes("steady"), Fine} \/ (g \in M5 /\ g[1] \notin Report)
    <3>1. Yes("halted")[1] \notin Report  BY DEF Yes, Report
    <3>2. \A g \in Written(a, v) : g[1] \notin Report  BY <1>5 DEF Blocks, Report
    <3> QED BY <3>1, <3>2
  <2> HIDE DEF Z, M5, T6
  <2> QED BY <1>1, <1>6, <2>1, IdleFrame
<1> HIDE DEF Z, N0, N2, M3, N4, M5, T6
<1>13. Carries(f, op, L, At(R \cup N0, {}), SlowWord(a, v), Both(R \cup T6))
  BY <1>7, <1>8, <1>9, <1>10, <1>11, <1>12, Chain6 DEF SlowWord
<1>14. Covers(Both(R \cup N0), At(R \cup N0, {}))  BY BothCovers
<1>15. Both(R \cup T6) = Both(R \cup {Idling, Yes("steady"), Fine, Yes("halted")}
                              \cup Written(a, v))
  BY DEF T6
<1> QED BY <1>13, <1>14, <1>15, CarriesCovers, CoversSelf DEF N0

-----------------------------------------------------------------------------
(* Words of memory (rvswd_memory.c).                                       *)

\* A wait that returns when it fails, and a check that goes to the clean-up.
LEMMA WaitFrame ==
  ASSUME NEW f, NEW op, NEW L, NEW R, NEW Z, Frame(op, "return", R, Z),
         NEW N, NEW M, NEW T, NEW Q, Yes("sure") \notin T,
         \A g \in T : g \in {Idling, Yes("steady"), Fine} \/ (g \in N /\ g[1] \notin Report),
         \A g \in Q : g \in {Idling, Yes("steady"), Fine} \/ (g \in N \cup M /\ g[1] \notin Report)
  PROVE  Carries(f, op, L, At(R \cup N, M), Wait("return"), At(R \cup T, Q))
<1> DEFINE A == At(R \cup N, M)
           B == At(R \cup T, Q)
           x == Access("wait", "", "", "return")
<1>1. A.s = R \cup N /\ A.p = M /\ B.s = R \cup T /\ B.p = Q /\ x.fail = "return"  BY DEF At, Access
<1>2. Yes("kept") \in R /\ Exit(op, "return", R) /\ \A g \in R : g[1] \notin Report  BY DEF Frame
<1> HIDE DEF A, B
<1>3. Yes("kept") \in A.s /\ Exit(op, "return", A.s) /\ (Yes("sure") \in B.s => Yes("sure") \in A.s)
  BY <1>1, <1>2 DEF Exit
<1>4. \A g \in B.s : g \in {Idling, Yes("steady"), Fine} \/ (g \in A.s /\ g[1] \notin Report)
  BY <1>1, <1>2
<1>5. \A g \in B.p : g \in {Idling, Yes("steady"), Fine} \/
        (g \in A.s \cup A.p /\ g[1] \notin Report)
  BY <1>1
<1>6. Passes(f, op, x, A, B)  BY <1>3, <1>4, <1>5, WaitPasses
<1> HIDE DEF x
<1> QED BY <1>1, <1>6, CarriesOne DEF Wait, x, A, B

\* The check of rvswd_memory_write32_direct: an error goes to the clean-up, otherwise what held
\* without one holds.
LEMMA CleanupFrame ==
  ASSUME NEW f, NEW op, NEW L, NEW R, NEW Z, Frame(op, "return", R, Z), "cleanup" \in L,
         NEW N, NEW M, NEW T, Fine \in N, Yes("sure") \notin T, \A g \in T : g \in N \cup M
  PROVE  Carries(f, op, L, At(R \cup N, M), Check("cleanup"), Both(R \cup T))
<1> DEFINE A == At(R \cup N, M)
           B == Both(R \cup T)
           x == Access("check", "", "", "cleanup")
<1>1. A.s = R \cup N /\ A.p = M /\ B.s = R \cup T /\ B.p = R \cup T /\ x.fail = "cleanup" /\
        x.do = "check"
  BY DEF At, Both, Access
<1>2. {Yes("kept"), Yes("calm")} \subseteq A.s  BY <1>1 DEF Frame, Exit
<1> HIDE DEF A, B, x
<1>3. Asks(f, op, x, A)  BY <1>1, <1>2 DEF Asks
<1>4. Exits(f, op, x, A)
  <2>1. E(f, op, "cleanup") = {Yes("kept"), Yes("told"), Yes("calm")}  BY DEF E
  <2>2. \A g \in {Yes("kept"), Yes("calm")} : g[1] # "diag"  BY DEF Yes
  <2>3. \A g \in {Yes("kept"), Yes("told"), Yes("calm")} : Fails(f, x, A, g)
    BY <1>1, <1>2, <2>2 DEF Fails, Settling
  <2> QED BY <1>1, <2>1, <2>3 DEF Exits
<1>5. \A g \in B.s \cup B.p : \A sure \in BOOLEAN : Gives(f, x, A, g, sure)
  BY <1>1 DEF Gives
<1>6. Yes("sure") \in B.s => Yes("sure") \in A.s  BY <1>1
<1>7. Passes(f, op, x, A, B)  BY <1>3, <1>4, <1>5, <1>6, PassesWhen
<1> QED BY <1>1, <1>7, CarriesOne DEF Check, x, A, B

\* A register is written in a frame.
LEMMA RegFrame ==
  ASSUME NEW f, NEW op, NEW L, NEW r \in Regs, NEW v, NEW R, NEW Z, Frame(op, "return", R, Z),
         {"data0", "loose", "steady"} \cup SetTouched(r) \subseteq Z, NEW N, NEW T,
         Idling \in R \cup N \/ (f = "V20X" /\ r \in Arguments4 \cup {"x10"}),
         \A g \in T : \/ g \in {Fine, Yes("halted"), Idling, Yes("steady"), <<r, v>>}
                      \/ g \in N /\ g[1] \notin {"data0", "loose", "steady"} \cup SetTouched(r)
  PROVE  Carries(f, op, L, Both(R \cup N), WriteReg(r, v, "return"), Both(R \cup T))
<1> DEFINE S == R \cup N
           U == R \cup T
           l == "return"
<1>1. {Yes("kept"), Mute} \subseteq S /\ Exit(op, l, S)  BY DEF Frame, Exit
<1>2. \A g \in R : g[1] \notin {"data0", "loose", "steady"} \cup SetTouched(r)  BY DEF Frame
<1>3. \A g \in U : \/ g \in {Fine, Yes("halted"), Idling, Yes("steady"), <<r, v>>}
                   \/ g \in S /\ g[1] \notin {"data0", "loose", "steady"} \cup SetTouched(r)
  BY <1>2
<1>4. /\ l \in {"return"} \cup L
      /\ Idling \in S \/ (f = "V20X" /\ l = "return" /\ r \in Arguments4 \cup {"x10"})
      /\ l # "return" => {Yes("off"), Yes("steady"), Idling} \subseteq S
  OBVIOUS
<1> HIDE DEF S, U, l
<1>5. Carries(f, op, L, Both(S), WriteReg(r, v, l), Both(U))
  BY <1>1, <1>3, <1>4, WriteRegCarries
<1> QED BY <1>5 DEF S, U, l

\* rvswd_memory_write32_slow
LEMMA Write32SlowCarries ==
  ASSUME NEW f, NEW op, NEW L, NEW a \in Blocks \cup {"peripheral"}, NEW v, NEW R, NEW Z,
         Frame(op, "return", R, Z), {"prog", "sync"} \cup SlowTouched(a) \subseteq Z,
         f = "X03X" => Yes("unlocked") \in R
  PROVE  Carries(f, op, L, Both(R \cup {Yes("kept")}), Write32Slow(a, v),
                 Both(R \cup {Idling, Yes("steady"), Fine, Yes("halted")} \cup Written(a, v)))
<1> DEFINE N0 == {Yes("kept")}
           N1 == {Idling}
           N2 == {Idling, <<"prog", "store">>}
           N3 == {Idling, <<"prog", "store">>, <<"data0", a>>}
           N4 == {<<"prog", "store">>, <<"x9", a>>, Yes("halted")}
           N5 == {Idling, <<"prog", "store">>, <<"x9", a>>, Yes("halted")}
           N6 == {Idling, <<"prog", "store">>, <<"x9", a>>, Yes("halted"), <<"data0", v>>}
           N7 == {Yes("halted")}
           N8 == Written(a, v)
           N9 == {Idling, Yes("steady"), Fine, Yes("halted")} \cup Written(a, v)
<1>1. /\ Report \subseteq Z
      /\ {"prog", "sync"} \cup Report \subseteq Z
      /\ {"data0", "loose", "steady"} \cup Report \subseteq Z
      /\ SetTouched("x9") \subseteq Z
      /\ {"x8"} \cup Ran \subseteq Z
  BY DEF SlowTouched, Ran, SetTouched, Frame
<1>2. Report \subseteq Z /\ \A g \in R : g[1] \notin Z  BY DEF Frame
<1>4. Written(a, v) \subseteq {<<a, v>>} /\ (Written(a, v) # {} => a \in Blocks)  BY DEF Written
<1>5. \A g \in Written(a, v) : g = <<a, v>> /\ g[1] = a /\ g[2] = v /\ a \in Blocks  BY <1>4
<1>3. Yes("sure") \notin N0 \cup N1 \cup N2 \cup N3 \cup N4 \cup N5 \cup N6 \cup N7 \cup N8 \cup N9
  BY <1>4, <1>5 DEF Yes, Idling, Fine, Report, Ran, Blocks, SetTouched
<1>6. Carries(f, op, L, At(R \cup N0, {}), Clear("return"), At(R \cup N0, N1))
  <2>1. \A g \in N0 : g = Fine \/ (g \in N0 /\ g[1] \notin Report)
    BY <1>4, <1>5 DEF Yes, Idling, Fine, Report, Ran, Blocks, SetTouched
  <2>2. \A g \in N1 : (g \in N0 /\ g[1] \notin Report) \/ g \in {Idling, Yes("steady")}
    BY <1>4, <1>5 DEF Yes, Idling, Fine, Report, Ran, Blocks, SetTouched
  <2> HIDE DEF N0, N1
  <2> QED BY <1>1, <1>2, <1>3, <2>1, <2>2, ClearFrame DEF Clear
<1>7. Carries(f, op, L, At(R \cup N0, N1), W("PROGBUF", "store", "return"), At(R \cup N0, N2))
  <2>1. \A g \in N0 : g = Fine \/ (g \in N0 /\ g[1] \notin {"prog", "sync"} \cup Report) \/
          (g = <<"prog", "store">> /\ Idling \in R \cup N0)
        \/ (g = Yes("sync") /\ <<"mode", "none">> \in R \cup N0)
    BY <1>4, <1>5 DEF Yes, Idling, Fine, Report, Ran, Blocks, SetTouched
  <2>2. \A g \in N2 : (g \in N0 \cup N1 /\ g[1] \notin {"prog", "sync"} \cup Report) \/
          g \in {<<"prog", "store">>, Idling}
    BY <1>4, <1>5 DEF Yes, Idling, Fine, Report, Ran, Blocks, SetTouched
  <2> HIDE DEF N0, N1, N2
  <2> QED BY <1>1, <1>2, <1>3, <2>1, <2>2, ProgFrame
<1>8. Carries(f, op, L, At(R \cup N0, N2), W("DATA0", a, "return"), At(R \cup N0, N3))
  <2>1. \A g \in N0 : g = Fine \/
          (g \in N0 /\ g[1] \notin {"data0", "loose", "steady"} \cup Report) \/
            (g = <<"data0", a>> /\ Idling \in R \cup N0)
        \/ (g = <<"loose", a>> /\ (Idling \in R \cup N0 \/ f = "V20X"))
        \/ (g = Yes("steady") /\ Yes("off") \in R \cup N0 /\ g \in R \cup N0)
    BY <1>4, <1>5 DEF Yes, Idling, Fine, Report, Ran, Blocks, SetTouched
  <2>2. \A g \in N3 : (g \in N0 \cup N2 /\ g[1] \notin {"data0", "loose", "steady"} \cup Report) \/
          g \in {<<"data0", a>>, <<"loose", a>>, Idling}
    BY <1>4, <1>5 DEF Yes, Idling, Fine, Report, Ran, Blocks, SetTouched
  <2> HIDE DEF N0, N2, N3
  <2> QED BY <1>1, <1>2, <1>3, <2>1, <2>2, Data0Frame
<1>9. Carries(f, op, L, At(R \cup N0, N3), W("COMMAND", SetReg("x9"), "return"), At(R \cup N0, N4))
  <2>1. \A g \in N0 : g = Fine \/ (g \in N0 /\ g[1] \notin SetTouched("x9"))
    BY <1>4, <1>5 DEF Yes, Idling, Fine, Report, Ran, Blocks, SetTouched
  <2>2. \A g \in N4 : (g \in N0 \cup N3 /\ g[1] \notin SetTouched("x9")) \/
          g \in {Yes("halted"), Idling, Yes("steady")}
        \/ (g[1] = "x9" /\ <<"data0", g[2]>> \in N0 \cup N3)
    BY <1>4, <1>5 DEF Yes, Idling, Fine, Report, Ran, Blocks, SetTouched
  <2>3. "x9" \in Regs  BY DEF Regs
  <2> HIDE DEF N0, N3, N4
  <2> QED BY <1>1, <1>2, <1>3, <2>1, <2>2, <2>3, SetFrame
<1>10. Carries(f, op, L, At(R \cup N0, N4), Idle("return"), Both(R \cup N5))
  <2>1. \A g \in N5 : g \in {Idling, Yes("steady"), Fine} \/
          (g \in N0 \cup N4 /\ g[1] \notin Report)
    BY <1>4, <1>5 DEF Yes, Idling, Fine, Report, Ran, Blocks, SetTouched
  <2> HIDE DEF N0, N4, N5
  <2> QED BY <1>1, <1>2, <1>3, <2>1, IdleFrame
<1>11. Carries(f, op, L, At(R \cup N5, {}), W("DATA0", v, "return"), At(R \cup N6, {}))
  <2>1. \A g \in N6 : g = Fine \/
          (g \in N5 /\ g[1] \notin {"data0", "loose", "steady"} \cup Report) \/
            (g = <<"data0", v>> /\ Idling \in R \cup N5)
        \/ (g = <<"loose", v>> /\ (Idling \in R \cup N5 \/ f = "V20X"))
        \/ (g = Yes("steady") /\ Yes("off") \in R \cup N5 /\ g \in R \cup N5)
    BY <1>4, <1>5 DEF Yes, Idling, Fine, Report, Ran, Blocks, SetTouched
  <2> HIDE DEF N5, N6
  <2> QED BY <1>1, <1>2, <1>3, <2>1, Data0Frame
<1>12. Carries(f, op, L, At(R \cup N6, {}), W("COMMAND", SetRun("x8"), "return"), At(R \cup N7, N8))
  <2>1. \A g \in N7 : g = Fine \/ (g \in N6 /\ g[1] \notin {"x8"} \cup Blocks \cup Ran) \/
          (g \in N6 /\ g[1] \in Blocks \ {a})
    BY <1>4, <1>5 DEF Yes, Idling, Fine, Report, Ran, Blocks, SetTouched
  <2>2. \A g \in N8 : (g \in N6 \cup {} /\ g[1] \notin {"x8"} \cup Blocks \cup Ran) \/
          (g \in N6 \cup {} /\ g[1] \in Blocks \ {a})
        \/ (g[1] = a /\ a \in Blocks /\ <<"data0", g[2]>> \in N6 \cup {})
    BY <1>4, <1>5 DEF Yes, Idling, Fine, Report, Ran, Blocks, SetTouched
  <2>3. <<"x9", a>> \in N6 /\ <<"prog", "store">> \in N6  OBVIOUS
  <2>4. \A g \in R : g[1] # a  BY <1>2 DEF SlowTouched
  <2> HIDE DEF N6, N7, N8
  <2> QED BY <1>1, <1>2, <1>3, <2>1, <2>2, <2>3, <2>4, RunStoreFrame
<1>13. Carries(f, op, L, At(R \cup N7, N8), Idle("return"), Both(R \cup N9))
  <2>1. \A g \in N9 : g \in {Idling, Yes("steady"), Fine} \/
          (g \in N7 \cup N8 /\ g[1] \notin Report)
    BY <1>4, <1>5 DEF Yes, Idling, Fine, Report, Ran, Blocks, SetTouched
  <2> HIDE DEF N7, N8, N9
  <2> QED BY <1>1, <1>2, <1>3, <2>1, IdleFrame
<1>14. Covers(Both(R \cup N5), At(R \cup N5, {}))  BY BothCovers, CoversSelf
<1>15. Carries(f, op, L, At(R \cup N0, N4), Idle("return"), At(R \cup N5, {}))
  BY <1>10, <1>14, CarriesCovers, CoversSelf
<1> HIDE DEF N0, N1, N2, N3, N4, N5, N6, N7, N8, N9
<1>16. Carries(f, op, L, At(R \cup N0, {}), Write32Slow(a, v), Both(R \cup N9))
  BY <1>6, <1>7, <1>8, <1>9, <1>15, <1>11, <1>12, <1>13, Chain8 DEF Write32Slow
<1>17. Covers(Both(R \cup N0), At(R \cup N0, {}))  BY BothCovers
<1>18. Carries(f, op, L, Both(R \cup N0), Write32Slow(a, v), Both(R \cup N9))
  BY <1>16, <1>17, CarriesCovers, CoversSelf
<1> QED BY <1>18 DEF N0, N1, N2, N3, N4, N5, N6, N7, N8, N9

\* rvswd_target_v20x_write32_access_memory
LEMMA WriteAccessCarries ==
  ASSUME NEW f, NEW op, NEW L, NEW a \in Blocks \cup {"peripheral"}, NEW v, NEW I, NEW K, NEW R,
         NEW Z, Frame(op, "return", R, Z),
         {"data1", "aim", "data0", "loose"} \cup Blocks \cup Ran \subseteq Z,
         I # {}, I \subseteq {Idling, Yes("aim")}, \A g \in K : g[1] \in Blocks \ {a},
         a = "peripheral" => K = {},
         f = "X03X" => Yes("unlocked") \in R
  PROVE  Carries(f, op, L, At(R \cup I, K), WriteAccess(a, v),
                 At(R \cup {Yes("aim")}, Written(a, v) \cup K))
<1> DEFINE N0 == I
           N1 == K
           N2 == {Yes("aim")}
           N3 == {<<"data1", a>>, Idling} \cup K
           N4 == {<<"data1", a>>, <<"data0", v>>, Idling} \cup K
           N5 == Written(a, v) \cup K
<1>1. /\ {"data1", "aim"} \cup Report \subseteq Z
      /\ {"data0", "loose", "steady"} \cup Report \subseteq Z
      /\ Blocks \cup Ran \subseteq Z
  BY DEF Ran, SetTouched, Frame
<1>2. Report \subseteq Z /\ \A g \in R : g[1] \notin Z  BY DEF Frame
<1>4. Written(a, v) \subseteq {<<a, v>>} /\ (Written(a, v) # {} => a \in Blocks)  BY DEF Written
<1>5. \A g \in Written(a, v) : g = <<a, v>> /\ g[1] = a /\ g[2] = v /\ a \in Blocks  BY <1>4
<1>6. \A g \in K : g[1] \in Blocks \ {a}  OBVIOUS
<1>3. Yes("sure") \notin N0 \cup N1 \cup N2 \cup N3 \cup N4 \cup N5
  BY <1>4, <1>5, <1>6 DEF Yes, Idling, Fine, Report, Ran, Blocks, SetTouched
<1>7. Carries(f, op, L, At(R \cup N0, N1), W("DATA1", a, "return"), At(R \cup N2, N3))
  <2>1. \A g \in N2 : g = Fine \/ (g \in N0 /\ g[1] \notin {"data1", "aim"} \cup Report) \/
          (g = <<"data1", a>> /\ Idling \in R \cup N0)
        \/ (g = Yes("aim") /\ a \notin {"a0", "a3"} /\ (Idling \in R \cup N0 \/ g \in N0))
    BY <1>4, <1>5, <1>6 DEF Yes, Idling, Fine, Report, Ran, Blocks, SetTouched
  <2>2. \A g \in N3 : (g \in N0 \cup N1 /\ g[1] \notin {"data1", "aim"} \cup Report) \/
          g \in {<<"data1", a>>, Idling}
    BY <1>4, <1>5, <1>6 DEF Yes, Idling, Fine, Report, Ran, Blocks, SetTouched
  <2> HIDE DEF N0, N1, N2, N3
  <2> QED BY <1>1, <1>2, <1>3, <2>1, <2>2, Data1Frame
<1>8. Carries(f, op, L, At(R \cup N2, N3), W("DATA0", v, "return"), At(R \cup N2, N4))
  <2>1. \A g \in N2 : g = Fine \/
          (g \in N2 /\ g[1] \notin {"data0", "loose", "steady"} \cup Report) \/
            (g = <<"data0", v>> /\ Idling \in R \cup N2)
        \/ (g = <<"loose", v>> /\ (Idling \in R \cup N2 \/ f = "V20X"))
        \/ (g = Yes("steady") /\ Yes("off") \in R \cup N2 /\ g \in R \cup N2)
    BY <1>4, <1>5, <1>6 DEF Yes, Idling, Fine, Report, Ran, Blocks, SetTouched
  <2>2. \A g \in N4 : (g \in N2 \cup N3 /\ g[1] \notin {"data0", "loose", "steady"} \cup Report) \/
          g \in {<<"data0", v>>, <<"loose", v>>, Idling}
    BY <1>4, <1>5, <1>6 DEF Yes, Idling, Fine, Report, Ran, Blocks, SetTouched
  <2> HIDE DEF N2, N3, N4
  <2> QED BY <1>1, <1>2, <1>3, <2>1, <2>2, Data0Frame
<1>9. Carries(f, op, L, At(R \cup N2, N4), W("COMMAND", WriteMem, "return"), At(R \cup N2, N5))
  <2>1. \A g \in N2 : g = Fine \/ (g \in N2 /\ g[1] \notin Blocks \cup Ran)
    BY <1>4, <1>5, <1>6 DEF Yes, Idling, Fine, Report, Ran, Blocks, SetTouched
  <2>2. \A g \in N5 : (g \in N2 \cup N4 /\ g[1] \notin Blocks \cup Ran)
        \/ (g[1] \in Blocks /\ <<"data1", g[1]>> \in N2 \cup N4 /\ <<"data0", g[2]>> \in N2 \cup N4)
        \/ (g \in N2 \cup N4 /\ g[1] \in Blocks /\
            \E b \in Blocks \ {g[1]} : <<"data1", b>> \in N2 \cup N4)
    BY <1>4, <1>5, <1>6 DEF Yes, Idling, Fine, Report, Ran, Blocks, SetTouched
  <2>3. Yes("aim") \in N2  OBVIOUS
  <2> HIDE DEF N2, N4, N5
  <2> QED BY <1>1, <1>2, <1>3, <2>1, <2>2, <2>3, StoreFrame
<1> HIDE DEF N0, N1, N2, N3, N4, N5
<1>10. Carries(f, op, L, At(R \cup N0, N1), WriteAccess(a, v), At(R \cup N2, N5))
  BY <1>7, <1>8, <1>9, Chain3 DEF WriteAccess
<1> QED BY <1>10 DEF N0, N1, N2, N3, N4, N5

\* rvswd_memory_write32_direct
LEMMA WriteDirectCarries ==
  ASSUME NEW f, NEW op, NEW L, NEW a \in Blocks, NEW v, NEW K, NEW R, NEW Z,
         Frame(op, "return", R, Z),
         {"data1", "aim", "data0", "loose"} \cup Blocks \cup Ran \subseteq Z,
         "cleanup" \in L, Yes("unlocked") \in R, \A g \in K : g[1] \in Blocks \ {a}
  PROVE  Carries(f, op, L, Both(R \cup {Idling} \cup K), WriteDirect(a, v),
                 Both(R \cup {Idling, Yes("steady"), Fine, <<a, v>>} \cup K))
<1> DEFINE N0 == {Idling} \cup K
           N1 == {Idling, <<"data1", a>>, Yes("aim")} \cup K
           N2 == {Idling, <<"data1", a>>, Yes("aim"), <<"data0", v>>} \cup K
           N3 == {Yes("aim")}
           N4 == {<<a, v>>} \cup K
           N5 == {Idling, Yes("steady"), Fine}
           N6 == {Idling, Yes("steady"), Fine, <<a, v>>} \cup K
<1>1. /\ Report \subseteq Z
      /\ {"data1", "aim"} \cup Report \subseteq Z
      /\ {"data0", "loose", "steady"} \cup Report \subseteq Z
      /\ Blocks \cup Ran \subseteq Z
  BY DEF Ran, SetTouched, Frame
<1>2. Report \subseteq Z /\ \A g \in R : g[1] \notin Z  BY DEF Frame
<1>4. \A g \in K : g[1] \in Blocks \ {a}  OBVIOUS
<1>3. Yes("sure") \notin N0 \cup N1 \cup N2 \cup N3 \cup N4 \cup N5 \cup N6
  BY <1>4 DEF Yes, Idling, Fine, Report, Ran, Blocks, SetTouched
<1>5. Carries(f, op, L, At(R \cup N0, {}), Clear("return"), At(R \cup N0, {}))
  <2>1. \A g \in N0 : g = Fine \/ (g \in N0 /\ g[1] \notin Report)
    BY <1>4 DEF Yes, Idling, Fine, Report, Ran, Blocks, SetTouched
  <2> HIDE DEF N0
  <2> QED BY <1>1, <1>2, <1>3, <2>1, ClearFrame DEF Clear
<1>6. Carries(f, op, L, At(R \cup N0, {}), W("DATA1", a, "return"), At(R \cup N1, {}))
  <2>1. \A g \in N1 : g = Fine \/ (g \in N0 /\ g[1] \notin {"data1", "aim"} \cup Report) \/
          (g = <<"data1", a>> /\ Idling \in R \cup N0)
        \/ (g = Yes("aim") /\ a \notin {"a0", "a3"} /\ (Idling \in R \cup N0 \/ g \in N0))
    BY <1>4 DEF Yes, Idling, Fine, Report, Ran, Blocks, SetTouched
  <2> HIDE DEF N0, N1
  <2> QED BY <1>1, <1>2, <1>3, <2>1, Data1Frame
<1>7. Carries(f, op, L, At(R \cup N1, {}), W("DATA0", v, "return"), At(R \cup N2, {}))
  <2>1. \A g \in N2 : g = Fine \/
          (g \in N1 /\ g[1] \notin {"data0", "loose", "steady"} \cup Report) \/
            (g = <<"data0", v>> /\ Idling \in R \cup N1)
        \/ (g = <<"loose", v>> /\ (Idling \in R \cup N1 \/ f = "V20X"))
        \/ (g = Yes("steady") /\ Yes("off") \in R \cup N1 /\ g \in R \cup N1)
    BY <1>4 DEF Yes, Idling, Fine, Report, Ran, Blocks, SetTouched
  <2> HIDE DEF N1, N2
  <2> QED BY <1>1, <1>2, <1>3, <2>1, Data0Frame
<1>8. Carries(f, op, L, At(R \cup N2, {}), W("COMMAND", WriteMem, "return"), At(R \cup N3, N4))
  <2>1. \A g \in N3 : g = Fine \/ (g \in N2 /\ g[1] \notin Blocks \cup Ran)
    BY <1>4 DEF Yes, Idling, Fine, Report, Ran, Blocks, SetTouched
  <2>2. \A g \in N4 : (g \in N2 \cup {} /\ g[1] \notin Blocks \cup Ran)
        \/ (g[1] \in Blocks /\ <<"data1", g[1]>> \in N2 \cup {} /\ <<"data0", g[2]>> \in N2 \cup {})
        \/ (g \in N2 \cup {} /\ g[1] \in Blocks /\
            \E b \in Blocks \ {g[1]} : <<"data1", b>> \in N2 \cup {})
    BY <1>4 DEF Yes, Idling, Fine, Report, Ran, Blocks, SetTouched
  <2>3. Yes("aim") \in N2  OBVIOUS
  <2> HIDE DEF N2, N3, N4
  <2> QED BY <1>1, <1>2, <1>3, <2>1, <2>2, <2>3, StoreFrame
<1>9. Carries(f, op, L, At(R \cup N3, N4), Wait("return"), At(R \cup N5, N4))
  <2>1. \A g \in N5 : g \in {Idling, Yes("steady"), Fine} \/ (g \in N3 /\ g[1] \notin Report)
    BY <1>4 DEF Yes, Idling, Fine, Report, Ran, Blocks, SetTouched
  <2>2. \A g \in N4 : g \in {Idling, Yes("steady"), Fine} \/
          (g \in N3 \cup N4 /\ g[1] \notin Report)
    BY <1>4 DEF Yes, Idling, Fine, Report, Ran, Blocks, SetTouched
  <2> HIDE DEF N3, N4, N5
  <2> QED BY <1>1, <1>2, <1>3, <2>1, <2>2, WaitFrame
<1>10. Carries(f, op, L, At(R \cup N5, N4), Check("cleanup"), Both(R \cup N6))
  <2>1. \A g \in N6 : g \in N5 \cup N4
    BY <1>4 DEF Yes, Idling, Fine, Report, Ran, Blocks, SetTouched
  <2>2. Fine \in N5  OBVIOUS
  <2> HIDE DEF N5, N4, N6
  <2> QED BY <1>1, <1>2, <1>3, <2>1, <2>2, CleanupFrame
<1> HIDE DEF N0, N1, N2, N3, N4, N5, N6
<1>11. Carries(f, op, L, At(R \cup N0, {}), WriteDirect(a, v), Both(R \cup N6))
  BY <1>5, <1>6, <1>7, <1>8, <1>9, <1>10, Chain6 DEF WriteDirect
<1>12. Covers(Both(R \cup N0), At(R \cup N0, {}))  BY BothCovers
<1>13. Carries(f, op, L, Both(R \cup N0), WriteDirect(a, v), Both(R \cup N6))
  BY <1>11, <1>12, CarriesCovers, CoversSelf
<1> QED BY <1>13 DEF N0, N1, N2, N3, N4, N5, N6

\* rvswd_memory_read32_synchronized
LEMMA ReadSyncCarries ==
  ASSUME NEW f, NEW op, NEW L, NEW R, NEW Z, Frame(op, "return", R, Z),
         {"prog", "sync", "x8", "data0", "loose", "last", "value", "answer"} \cup Ran \subseteq Z,
         <<"a1", "a1">> \in R
  PROVE  Carries(f, op, L, Both(R \cup {Idling}), ReadSync("a1"),
                 At(R \cup {Yes("answer")}, {}))
<1> DEFINE N0 == {Idling}
           N1 == {Idling, <<"prog", "load">>}
           N2 == {Idling, <<"prog", "load">>, <<"data0", "a1">>}
           N3 == {<<"x8", "a1">>}
           N4 == {Idling, <<"x8", "a1">>}
           N5 == {<<"data0", "a1">>}
           N6 == {Idling, <<"data0", "a1">>}
           N7 == {Yes("answer")}
<1>1. /\ Report \subseteq Z
      /\ {"prog", "sync"} \cup Report \subseteq Z
      /\ {"data0", "loose", "steady"} \cup Report \subseteq Z
      /\ {"x8"} \cup Ran \subseteq Z
      /\ {"data0", "loose", "last"} \cup Report \subseteq Z
      /\ {"value", "answer", "steady"} \subseteq Z
  BY DEF Ran, SetTouched, Frame
<1>2. Report \subseteq Z /\ \A g \in R : g[1] \notin Z  BY DEF Frame
<1>3. Yes("sure") \notin N0 \cup N1 \cup N2 \cup N3 \cup N4 \cup N5 \cup N6 \cup N7
  BY DEF Yes, Idling, Fine, Report, Ran, Blocks, SetTouched
<1>4. Carries(f, op, L, At(R \cup N0, {}), Clear("return"), At(R \cup N0, {}))
  <2>1. \A g \in N0 : g = Fine \/ (g \in N0 /\ g[1] \notin Report)
    BY DEF Yes, Idling, Fine, Report, Ran, Blocks, SetTouched
  <2> HIDE DEF N0
  <2> QED BY <1>1, <1>2, <1>3, <2>1, ClearFrame DEF Clear
<1>5. Carries(f, op, L, At(R \cup N0, {}), W("PROGBUF", "load", "return"), At(R \cup N1, {}))
  <2>1. \A g \in N1 : g = Fine \/ (g \in N0 /\ g[1] \notin {"prog", "sync"} \cup Report) \/
          (g = <<"prog", "load">> /\ Idling \in R \cup N0)
        \/ (g = Yes("sync") /\ <<"mode", "none">> \in R \cup N0)
    BY DEF Yes, Idling, Fine, Report, Ran, Blocks, SetTouched
  <2> HIDE DEF N0, N1
  <2> QED BY <1>1, <1>2, <1>3, <2>1, ProgFrame
<1>6. Carries(f, op, L, At(R \cup N1, {}), W("DATA0", "a1", "return"), At(R \cup N2, {}))
  <2>1. \A g \in N2 : g = Fine \/
          (g \in N1 /\ g[1] \notin {"data0", "loose", "steady"} \cup Report) \/
            (g = <<"data0", "a1">> /\ Idling \in R \cup N1)
        \/ (g = <<"loose", "a1">> /\ (Idling \in R \cup N1 \/ f = "V20X"))
        \/ (g = Yes("steady") /\ Yes("off") \in R \cup N1 /\ g \in R \cup N1)
    BY DEF Yes, Idling, Fine, Report, Ran, Blocks, SetTouched
  <2> HIDE DEF N1, N2
  <2> QED BY <1>1, <1>2, <1>3, <2>1, Data0Frame
<1>7. Carries(f, op, L, At(R \cup N2, {}), W("COMMAND", SetRun("x8"), "return"), At(R \cup {}, N3))
  <2>1. \A g \in N3 : (g \in N2 \cup {} /\ g[1] \notin {"x8"} \cup Ran) \/
          (g = <<"x8", "a1">> /\ {<<"data0", "a1">>, <<"a1", "a1">>} \subseteq R \cup N2 \cup {})
    BY DEF Yes, Idling, Fine, Report, Ran, Blocks, SetTouched
  <2>2. <<"prog", "load">> \in N2  OBVIOUS
  <2> HIDE DEF N2, N3
  <2> QED BY <1>1, <1>2, <1>3, <2>1, <2>2, RunLoadFrame
<1>8. Carries(f, op, L, At(R \cup {}, N3), Idle("return"), Both(R \cup N4))
  <2>1. \A g \in N4 : g \in {Idling, Yes("steady"), Fine} \/
          (g \in {} \cup N3 /\ g[1] \notin Report)
    BY DEF Yes, Idling, Fine, Report, Ran, Blocks, SetTouched
  <2> HIDE DEF N3, N4
  <2> QED BY <1>1, <1>2, <1>3, <2>1, IdleFrame
<1>9. Carries(f, op, L, At(R \cup N4, {}), W("COMMAND", GetReg("x8"), "return"), At(R \cup N0, N5))
  <2>1. \A g \in N0 : g = Fine \/ (g \in N4 /\ g[1] \notin {"data0", "loose", "last"} \cup Report)
    BY DEF Yes, Idling, Fine, Report, Ran, Blocks, SetTouched
  <2>2. \A g \in N5 : (g \in N4 \cup {} /\ g[1] \notin {"data0", "loose", "last"} \cup Report) \/
          g \in {Yes("halted"), Idling, Yes("steady")}
        \/ (g[1] = "data0" /\ "x8" = "x8" /\ <<"x8", g[2]>> \in N4 \cup {})
        \/ (g = <<"data0", "result">> /\ "x8" = "x10" /\ Yes("done") \in N4 \cup {})
    BY DEF Yes, Idling, Fine, Report, Ran, Blocks, SetTouched
  <2>3. "x8" \in Regs  BY DEF Regs
  <2> HIDE DEF N4, N0, N5
  <2> QED BY <1>1, <1>2, <1>3, <2>1, <2>2, <2>3, GetFrame
<1>10. Carries(f, op, L, At(R \cup N0, N5), Idle("return"), Both(R \cup N6))
  <2>1. \A g \in N6 : g \in {Idling, Yes("steady"), Fine} \/
          (g \in N0 \cup N5 /\ g[1] \notin Report)
    BY DEF Yes, Idling, Fine, Report, Ran, Blocks, SetTouched
  <2> HIDE DEF N0, N5, N6
  <2> QED BY <1>1, <1>2, <1>3, <2>1, IdleFrame
<1>11. Carries(f, op, L, At(R \cup N6, {}), Read("return"), At(R \cup N7, {}))
  <2>1. \A g \in N7 : g = Fine \/
          (g \in N6 /\ g[1] \notin {"value", "answer", "steady"} \cup Report) \/
            (g[1] = "value" /\ <<"data0", g[2]>> \in N6)
        \/ (g = Yes("answer") /\ <<"data0", "a1">> \in N6 \cup {})
    BY DEF Yes, Idling, Fine, Report, Ran, Blocks, SetTouched
  <2> HIDE DEF N6, N7
  <2> QED BY <1>1, <1>2, <1>3, <2>1, ReadFrame
<1>12. Covers(Both(R \cup N4), At(R \cup N4, {}))  BY BothCovers, CoversSelf
<1>13. Carries(f, op, L, At(R \cup {}, N3), Idle("return"), At(R \cup N4, {}))
  BY <1>8, <1>12, CarriesCovers, CoversSelf
<1>14. Covers(Both(R \cup N6), At(R \cup N6, {}))  BY BothCovers, CoversSelf
<1>15. Carries(f, op, L, At(R \cup N0, N5), Idle("return"), At(R \cup N6, {}))
  BY <1>10, <1>14, CarriesCovers, CoversSelf
<1> HIDE DEF N0, N1, N2, N3, N4, N5, N6, N7
<1>16. Carries(f, op, L, At(R \cup N0, {}), ReadSync("a1"), At(R \cup N7, {}))
  BY <1>4, <1>5, <1>6, <1>7, <1>13, <1>9, <1>15, <1>11, Chain8 DEF ReadSync
<1>17. Covers(Both(R \cup N0), At(R \cup N0, {}))  BY BothCovers
<1>18. Carries(f, op, L, Both(R \cup N0), ReadSync("a1"), At(R \cup N7, {}))
  BY <1>16, <1>17, CarriesCovers, CoversSelf
<1> QED BY <1>18 DEF N0, N1, N2, N3, N4, N5, N6, N7

\* rvswd_memory_write_slow, from wherever autoexec can be switched off.
LEMMA WriteSlowFrom ==
  ASSUME NEW f, NEW op, NEW L, NEW A, NEW R, NEW Z, Frame(op, "return", R, Z),
         {"prog", "sync"} \cup SlowTouched("a1") \cup SlowTouched("a2") \subseteq Z,
         f # "X03X",
         Carries(f, op, L, A, W("ABSTRACTAUTO", "off", "return"), Both(R \cup {Idling, Yes("off")}))
  PROVE  Carries(f, op, L, A, WriteSlow,
                 Both(R
                      \cup {Idling, Yes("off"), Yes("steady"), Fine, Yes("halted"), <<"a1", "w1">>,
                            <<"a2", "w2">>}))
<1> DEFINE N1 == {Idling, Yes("off")}
           N2 == {Idling, Yes("off"), <<"prog", "store">>}
           N3 == {Idling, Yes("off"), <<"prog", "store">>, Yes("steady"), Fine, Yes("halted"),
                  <<"a1", "w1">>}
           N4 == {Idling, Yes("off"), <<"prog", "store">>, Yes("steady"), Fine, Yes("halted"),
                  <<"a1", "w1">>, <<"a2", "w2">>}
           N5 == {Idling, Yes("off"), Yes("steady"), Fine, Yes("halted"), <<"a1", "w1">>,
                  <<"a2", "w2">>}
<1>1. /\ Report \subseteq Z
      /\ {"prog", "sync"} \cup Report \subseteq Z
  BY DEF SlowTouched, Ran, SetTouched, Frame
<1>2. Report \subseteq Z /\ \A g \in R : g[1] \notin Z  BY DEF Frame
<1>3. Yes("sure") \notin N1 \cup N2 \cup N3 \cup N4 \cup N5
  BY DEF Yes, Idling, Fine, Report, Ran, Blocks, SetTouched
<1>4. Carries(f, op, L, A, W("ABSTRACTAUTO", "off", "return"), Both(R \cup N1))  OBVIOUS
<1>5. Carries(f, op, L, At(R \cup N1, {}), Clear("return"), At(R \cup N1, {}))
  <2>1. \A g \in N1 : g = Fine \/ (g \in N1 /\ g[1] \notin Report)
    BY DEF Yes, Idling, Fine, Report, Ran, Blocks, SetTouched
  <2> HIDE DEF N1
  <2> QED BY <1>1, <1>2, <1>3, <2>1, ClearFrame DEF Clear
<1>6. Carries(f, op, L, At(R \cup N1, {}), W("PROGBUF", "store", "return"), At(R \cup N2, {}))
  <2>1. \A g \in N2 : g = Fine \/ (g \in N1 /\ g[1] \notin {"prog", "sync"} \cup Report) \/
          (g = <<"prog", "store">> /\ Idling \in R \cup N1)
    BY DEF Yes, Idling, Fine, Report, Ran, Blocks, SetTouched
  <2> HIDE DEF N1, N2
  <2> QED BY <1>1, <1>2, <1>3, <2>1, ProgFrame
<1>7. Carries(f, op, L, Both(R \cup N2), SlowWord("a1", "w1"), Both(R \cup N3))
  <2> DEFINE R1 == R \cup {Yes("off"), <<"prog", "store">>}
  <2>1. \A g \in {Yes("off"), <<"prog", "store">>} : g[1] \notin SlowTouched("a1")
    BY DEF Yes, SlowTouched, Ran, Report
  <2>2. SlowTouched("a1") \subseteq Z /\ Report \subseteq SlowTouched("a1")  BY DEF SlowTouched, Ran
  <2>3. Frame(op, "return", R1, SlowTouched("a1"))  BY <2>1, <2>2 DEF Frame, Exit
  <2>4. Written("a1", "w1") = {<<"a1", "w1">>}  BY DEF Written, Blocks
  <2>5. <<"prog", "store">> \in R1 /\ "a1" \in Blocks \cup {"peripheral"}  BY DEF Blocks
  <2>6. Both(R1 \cup {Idling, Yes("steady"), Fine, Yes("halted")}
             \cup {<<"a1", "w1">>}) = Both(R \cup N3)
    <3>1. R1 \cup {Idling, Yes("steady"), Fine, Yes("halted")} \cup {<<"a1", "w1">>} = R
            \cup N3  OBVIOUS
    <3> QED BY <3>1
  <2>7. Covers(Both(R \cup N2), Both(R1 \cup {Idling}))
    <3>1. R1 \cup {Idling} \subseteq R \cup N2  OBVIOUS
    <3> QED BY <3>1, BothCovers
  <2> HIDE DEF R1
  <2>8. Carries(f, op, L, Both(R1 \cup {Idling}), SlowWord("a1", "w1"),
                Both(R1 \cup {Idling, Yes("steady"), Fine, Yes("halted")} \cup Written("a1", "w1")))
    BY <2>3, <2>5, SlowWordCarries
  <2>9. Carries(f, op, L, Both(R1 \cup {Idling}), SlowWord("a1", "w1"), Both(R \cup N3))
    BY <2>4, <2>6, <2>8
  <2> HIDE DEF N2, N3
  <2> QED BY <2>7, <2>9, CarriesCovers, CoversSelf
<1>8. Carries(f, op, L, Both(R \cup N3), SlowWord("a2", "w2"), Both(R \cup N4))
  <2> DEFINE R1 == R \cup {Yes("off"), <<"prog", "store">>, <<"a1", "w1">>}
  <2>1. \A g \in {Yes("off"), <<"prog", "store">>, <<"a1", "w1">>} : g[1] \notin SlowTouched("a2")
    BY DEF Yes, SlowTouched, Ran, Report
  <2>2. SlowTouched("a2") \subseteq Z /\ Report \subseteq SlowTouched("a2")  BY DEF SlowTouched, Ran
  <2>3. Frame(op, "return", R1, SlowTouched("a2"))  BY <2>1, <2>2 DEF Frame, Exit
  <2>4. Written("a2", "w2") = {<<"a2", "w2">>}  BY DEF Written, Blocks
  <2>5. <<"prog", "store">> \in R1 /\ "a2" \in Blocks \cup {"peripheral"}  BY DEF Blocks
  <2>6. Both(R1 \cup {Idling, Yes("steady"), Fine, Yes("halted")}
             \cup {<<"a2", "w2">>}) = Both(R \cup N4)
    <3>1. R1 \cup {Idling, Yes("steady"), Fine, Yes("halted")} \cup {<<"a2", "w2">>} = R
            \cup N4  OBVIOUS
    <3> QED BY <3>1
  <2>7. Covers(Both(R \cup N3), Both(R1 \cup {Idling}))
    <3>1. R1 \cup {Idling} \subseteq R \cup N3  OBVIOUS
    <3> QED BY <3>1, BothCovers
  <2> HIDE DEF R1
  <2>8. Carries(f, op, L, Both(R1 \cup {Idling}), SlowWord("a2", "w2"),
                Both(R1 \cup {Idling, Yes("steady"), Fine, Yes("halted")} \cup Written("a2", "w2")))
    BY <2>3, <2>5, SlowWordCarries
  <2>9. Carries(f, op, L, Both(R1 \cup {Idling}), SlowWord("a2", "w2"), Both(R \cup N4))
    BY <2>4, <2>6, <2>8
  <2> HIDE DEF N3, N4
  <2> QED BY <2>7, <2>9, CarriesCovers, CoversSelf
<1>9. Carries(f, op, L, At(R \cup N4, {}), Status("return"), Both(R \cup N5))
  <2>1. \A g \in N5 : g = Fine \/ (g \in N4 \cup {} /\ g[1] \notin Report)
    BY DEF Yes, Idling, Fine, Report, Ran, Blocks, SetTouched
  <2> HIDE DEF N4, N5
  <2> QED BY <1>1, <1>2, <1>3, <2>1, StatusFrame
<1>10. Covers(Both(R \cup N1), At(R \cup N1, {}))  BY BothCovers, CoversSelf
<1>11. Carries(f, op, L, A, W("ABSTRACTAUTO", "off", "return"), At(R \cup N1, {}))
  BY <1>4, <1>10, CarriesCovers, CoversSelf
<1>12. Covers(At(R \cup N2, {}), Both(R \cup N2))  BY BothCovers, CoversSelf
<1>13. Carries(f, op, L, At(R \cup N1, {}), W("PROGBUF", "store", "return"), Both(R \cup N2))
  BY <1>6, <1>12, CarriesCovers, CoversSelf
<1>14. Covers(Both(R \cup N4), At(R \cup N4, {}))  BY BothCovers, CoversSelf
<1>15. Carries(f, op, L, Both(R \cup N3), SlowWord("a2", "w2"), At(R \cup N4, {}))
  BY <1>8, <1>14, CarriesCovers, CoversSelf
<1> HIDE DEF N1, N2, N3, N4, N5
<1>16. Carries(f, op, L, A, WriteSlow, Both(R \cup N5))
  BY <1>11, <1>5, <1>13, <1>7, <1>15, <1>9, Chain6 DEF WriteSlow
<1> QED BY <1>16 DEF N1, N2, N3, N4, N5

\* rvswd_memory_write_slow of a module whose autoexec is off already.
LEMMA WriteSlowCarries ==
  ASSUME NEW f, NEW op, NEW L, NEW R, NEW Z, Frame(op, "return", R, Z),
         {"prog", "sync"} \cup SlowTouched("a1") \cup SlowTouched("a2") \subseteq Z,
         Yes("sure") \in R, f # "X03X",
         \A g \in R : g[1] \in {"auto", "off", "calm"} => g \in {Mute, Yes("off"), Yes("calm")}
  PROVE  Carries(f, op, L, Both(R \cup {Idling, Yes("steady")}), WriteSlow,
                 Both(R
                      \cup {Idling, Yes("off"), Yes("steady"), Fine, Yes("halted"), <<"a1", "w1">>,
                            <<"a2", "w2">>}))
<1> DEFINE N0 == {Idling, Yes("steady")}
           N1 == {Idling, Yes("off")}
<1>1. Carries(f, op, L, Both(R \cup N0), W("ABSTRACTAUTO", "off", "return"), Both(R \cup N1))
  <2>1. \A g \in N1 : g \in {Fine, Yes("off")} \/
          (g \in N0 /\ g[1] \notin {"auto", "off", "calm"} \cup Report)
    BY DEF Yes, Idling, Fine, Report
  <2>2. Yes("steady") \in N0 /\ Yes("sure") \notin N1  BY DEF Yes, Idling
  <2> HIDE DEF N0, N1
  <2> QED BY <2>1, <2>2, OffFrame
<1> QED BY <1>1, WriteSlowFrom

-----------------------------------------------------------------------------
(* Loaders (rvswd_target_<family>.c).                                      *)

\* Requests to the hart between the arguments of a loader and its start.
LEMMA RequestFrame ==
  ASSUME NEW f, NEW op, NEW L, NEW v \in {"idle", "halt"}, NEW R, NEW Z, Frame(op, "return", R, Z),
         HartThings \subseteq Z,
         NEW N, NEW T, Yes("sure") \notin T,
         \A g \in T : \/ g = Fine
                      \/ g \in N /\ g[1] \notin HartThings \cup Report
                      \/ g[1] \in {"x10", "dpc"} /\ g \in N /\ Yes("halted") \in N
                      \/ g \in N \cap {Yes("halted"), Yes("started"), Yes("done"), Yes("unlocked"),
                                       Yes("free")}
  PROVE  Carries(f, op, L, Both(R \cup N), W("CONTROL", v, "return"), Both(R \cup T))
<1> DEFINE A == Both(R \cup N)
           B == Both(R \cup T)
<1>1. A.s = R \cup N /\ A.p = R \cup N /\ B.s = R \cup T /\ B.p = R \cup T  BY DEF At, Both
<1>2. Yes("kept") \in R /\ Exit(op, "return", R) /\ \A g \in R : g[1] \notin HartThings \cup Report
  BY DEF Frame
<1>3. Yes("kept") \in A.s /\ Exit(op, "return", A.s) /\ (Yes("sure") \in B.s => Yes("sure") \in A.s)
  BY <1>1, <1>2 DEF Exit
<1>4. \A g \in R \cup T : g = Fine \/ ControlGives(v, R \cup N, g)
  BY <1>2 DEF ControlGives, Keep
<1> HIDE DEF A, B
<1>5. (\A g \in B.s : g = Fine \/ ControlGives(v, A.s, g)) /\ \A g \in B.p : g = Fine \/
        ControlGives(v, A.s \cup A.p, g)
  <2>1. A.s = R \cup N /\ A.s \cup A.p = R \cup N  BY <1>1
  <2> QED BY <1>1, <1>4, <2>1
<1>6. Carries(f, op, L, A, W("CONTROL", v, "return"), B)
  BY <1>3, <1>5, ControlCarries
<1> QED BY <1>6 DEF A, B

\* The loader starts.
LEMMA GoFrame ==
  ASSUME NEW f, NEW op, NEW L, NEW R, NEW Z, Frame(op, "return", R, Z), HartThings \subseteq Z,
         NEW N, NEW T, \A g \in T : g \in {Fine, Yes("started")},
         LoaderReady(f, op, R \cup N), {Yes("halted"), <<"dpc", "entry">>} \subseteq N
  PROVE  Carries(f, op, L, Both(R \cup N), W("CONTROL", "resume", "return"), Both(R \cup T))
<1> DEFINE A == Both(R \cup N)
           B == Both(R \cup T)
<1>0. Yes("sure") \notin T  BY DEF Yes, Fine
<1>1. A.s = R \cup N /\ A.p = R \cup N /\ B.s = R \cup T /\ B.p = R \cup T  BY DEF At, Both
<1>2. Yes("kept") \in R /\ Exit(op, "return", R) /\ \A g \in R : g[1] \notin HartThings \cup Report
  BY DEF Frame
<1>3. Yes("kept") \in A.s /\ Exit(op, "return", A.s) /\ (Yes("sure") \in B.s => Yes("sure") \in A.s)
      /\ LoaderReady(f, op, A.s)
  BY <1>0, <1>1, <1>2 DEF Exit
<1>4. \A g \in R \cup T : g = Fine \/ ControlGives("resume", R \cup N, g)
  BY <1>2 DEF ControlGives, Keep
<1> HIDE DEF A, B
<1>5. (\A g \in B.s : g = Fine \/ ControlGives("resume", A.s, g))
      /\ \A g \in B.p : g = Fine \/ ControlGives("resume", A.s \cup A.p, g)
  <2>1. A.s = R \cup N /\ A.s \cup A.p = R \cup N  BY <1>1
  <2> QED BY <1>1, <1>4, <2>1
<1>6. Carries(f, op, L, A, W("CONTROL", "resume", "return"), B)
  BY <1>3, <1>5, ControlCarries
<1> QED BY <1>6 DEF A, B

\* The arguments of a loader.
LEMMA ArgsFrame ==
  ASSUME NEW f, NEW op, NEW L, NEW R, NEW Z, Frame(op, "return", R, Z),
         {"data0", "loose", "steady", "last", "started", "done", "x10", "x11", "x12"}
           \cup Report \subseteq Z, NEW N, NEW T,
         Idling \in R \cup N \/ f = "V20X",
         \A g \in T : \/ g \in {Fine, Yes("halted"), Idling, Yes("steady"), <<"x10", "mode">>,
                                <<"x11", "address">>, <<"x12", "length">>}
                      \/ g \in N /\
                           g[1]
                             \notin {"data0", "loose", "steady", "last", "started", "done", "x10",
                                     "x11", "x12"} \cup Report
  PROVE  Carries(f, op, L, Both(R \cup N), Arguments, Both(R \cup T))
<1> DEFINE X == {"data0", "loose", "steady", "last", "started", "done", "x10", "x11", "x12"}
                  \cup Report
           H == {Fine, Yes("halted"), Idling, Yes("steady")}
           K == {g \in N : g[1] \notin X}
           N1 == K \cup H \cup {<<"x10", "mode">>}
           N2 == N1 \cup {<<"x11", "address">>}
           N3 == N2 \cup {<<"x12", "length">>}
<1>1. /\ {"x10", "x11", "x12"} \subseteq Regs
      /\ \A r \in {"x10", "x11", "x12"} : {"data0", "loose", "steady"} \cup SetTouched(r)
           \subseteq X /\ X \subseteq Z
  BY DEF Regs, SetTouched
<1>2. Carries(f, op, L, Both(R \cup N), WriteReg("x10", "mode", "return"), Both(R \cup N1))
  <2>1. \A g \in N1 : \/ g \in H \cup {<<"x10", "mode">>}
                      \/ g \in N /\ g[1] \notin {"data0", "loose", "steady"} \cup SetTouched("x10")
    BY <1>1
  <2>2. \A g \in N1 : \/ g \in {Fine, Yes("halted"), Idling, Yes("steady"), <<"x10", "mode">>}
                      \/ g \in N /\ g[1] \notin {"data0", "loose", "steady"} \cup SetTouched("x10")
    BY <2>1
  <2> HIDE DEF N1, X
  <2> QED BY <1>1, <2>2, RegFrame
<1>3. Carries(f, op, L, Both(R \cup N1), WriteReg("x11", "address", "return"), Both(R \cup N2))
  <2>1. \A g \in K : g[1] \notin {"data0", "loose", "steady"} \cup SetTouched("x11")  BY <1>1
  <2>2. \A g \in N2 : \/ g \in {Fine, Yes("halted"), Idling, Yes("steady"), <<"x11", "address">>}
                      \/ g \in N1 /\ g[1] \notin {"data0", "loose", "steady"} \cup SetTouched("x11")
    <3>1. <<"x10", "mode">>[1] \notin {"data0", "loose", "steady"} \cup SetTouched("x11")
      BY DEF SetTouched, Report
    <3> QED BY <2>1, <3>1
  <2>3. Idling \in N1  OBVIOUS
  <2> HIDE DEF N1, N2, X
  <2> QED BY <1>1, <2>2, <2>3, RegFrame
<1>4. Carries(f, op, L, Both(R \cup N2), WriteReg("x12", "length", "return"), Both(R \cup N3))
  <2>1. \A g \in K : g[1] \notin {"data0", "loose", "steady"} \cup SetTouched("x12")  BY <1>1
  <2>2. \A g \in N3 : \/ g \in {Fine, Yes("halted"), Idling, Yes("steady"), <<"x12", "length">>}
                      \/ g \in N2 /\ g[1] \notin {"data0", "loose", "steady"} \cup SetTouched("x12")
    <3>1. \A g \in {<<"x10", "mode">>, <<"x11", "address">>} : g[1]
            \notin {"data0", "loose", "steady"} \cup SetTouched("x12")
      BY DEF SetTouched, Report
    <3> QED BY <2>1, <3>1
  <2>3. Idling \in N2  OBVIOUS
  <2> HIDE DEF N3, N2, X
  <2> QED BY <1>1, <2>2, <2>3, RegFrame
<1>5. T \subseteq N3  OBVIOUS
<1> HIDE DEF N1, N2, N3, X
<1>6. Carries(f, op, L, Both(R \cup N), Arguments, Both(R \cup N3))
  BY <1>2, <1>3, <1>4, Chain3 DEF Arguments
<1>7. Covers(Both(R \cup N3), Both(R \cup T))
  <2>1. R \cup T \subseteq R \cup N3  BY <1>5
  <2> QED BY <2>1, BothCovers
<1> QED BY <1>6, <1>7, CarriesCovers, CoversSelf

\* The byte accesses forget the program they left in the buffer.
LEMMA NoModeFrame ==
  ASSUME NEW f, NEW op, NEW L, NEW R, NEW Z, Frame(op, "return", R, Z),
         {"mode", "sync"} \subseteq Z,
         NEW N, NEW T, Yes("sure") \notin T,
         \A g \in T : g \in {Yes("sync"), <<"mode", "none">>} \/
           (g \in N /\ g[1] \notin {"mode", "sync"})
  PROVE  Carries(f, op, L, Both(R \cup N), <<Access("nomode", "", "", "return")>>, Both(R \cup T))
<1> DEFINE A == Both(R \cup N)
           B == Both(R \cup T)
           x == Access("nomode", "", "", "return")
<1>1. A.s = R \cup N /\ A.p = R \cup N /\ B.s = R \cup T /\ B.p = R \cup T /\ x.do = "nomode" /\
        x.fail = "return"
  BY DEF At, Both, Access
<1>2. Yes("kept") \in R /\ \A g \in R : g[1] \notin {"mode", "sync"}  BY DEF Frame
<1> HIDE DEF A, B, x
<1>3. Asks(f, op, x, A) /\ Exits(f, op, x, A)  BY <1>1, <1>2 DEF Asks, Exits, Jumps
<1>4. \A g \in B.s \cup B.p : \A sure \in BOOLEAN : Gives(f, x, A, g, sure)
  BY <1>1, <1>2 DEF Gives, Keep, From
<1>5. Yes("sure") \in B.s => Yes("sure") \in A.s  BY <1>1
<1>6. Passes(f, op, x, A, B)  BY <1>3, <1>4, <1>5, PassesWhen
<1>7. Carries(f, op, L, A, <<x>>, B)  BY <1>1, <1>6, CarriesOne
<1> QED BY <1>7 DEF A, B, x

\* Ten programs one after the other.
LEMMA Chain10 ==
  ASSUME NEW f, NEW op, NEW L, NEW A0, NEW A1, NEW A2, NEW A3, NEW A4, NEW A5, NEW A6, NEW A7,
         NEW A8, NEW A9, NEW A10,
         NEW p1, NEW p2, NEW p3, NEW p4, NEW p5, NEW p6, NEW p7, NEW p8, NEW p9, NEW p10,
         Carries(f, op, L, A0, p1, A1),
         Carries(f, op, L, A1, p2, A2),
         Carries(f, op, L, A2, p3, A3),
         Carries(f, op, L, A3, p4, A4),
         Carries(f, op, L, A4, p5, A5),
         Carries(f, op, L, A5, p6, A6),
         Carries(f, op, L, A6, p7, A7),
         Carries(f, op, L, A7, p8, A8),
         Carries(f, op, L, A8, p9, A9),
         Carries(f, op, L, A9, p10, A10)
  PROVE  Carries(f, op, L, A0, p1 \o p2 \o p3 \o p4 \o p5 \o p6 \o p7 \o p8 \o p9 \o p10, A10)
<1>1. Carries(f, op, L, A0, p1 \o p2, A2)  BY CarriesThen
<1>2. Carries(f, op, L, A0, p1 \o p2 \o p3, A3)  BY <1>1, CarriesThen
<1>3. Carries(f, op, L, A0, p1 \o p2 \o p3 \o p4, A4)  BY <1>2, CarriesThen
<1>4. Carries(f, op, L, A0, p1 \o p2 \o p3 \o p4 \o p5, A5)  BY <1>3, CarriesThen
<1>5. Carries(f, op, L, A0, p1 \o p2 \o p3 \o p4 \o p5 \o p6, A6)  BY <1>4, CarriesThen
<1>6. Carries(f, op, L, A0, p1 \o p2 \o p3 \o p4 \o p5 \o p6 \o p7, A7)  BY <1>5, CarriesThen
<1>7. Carries(f, op, L, A0, p1 \o p2 \o p3 \o p4 \o p5 \o p6 \o p7 \o p8, A8)  BY <1>6, CarriesThen
<1>8. Carries(f, op, L, A0, p1 \o p2 \o p3 \o p4 \o p5 \o p6 \o p7 \o p8 \o p9, A9)
  BY <1>7, CarriesThen
<1>9. Carries(f, op, L, A0, p1 \o p2 \o p3 \o p4 \o p5 \o p6 \o p7 \o p8 \o p9 \o p10, A10)
  BY <1>8, CarriesThen
<1> QED BY <1>9

\* Eleven of them.
LEMMA Chain11 ==
  ASSUME NEW f, NEW op, NEW L, NEW A0, NEW A1, NEW A2, NEW A3, NEW A4, NEW A5, NEW A6, NEW A7,
         NEW A8, NEW A9, NEW A10, NEW A11,
         NEW p1, NEW p2, NEW p3, NEW p4, NEW p5, NEW p6, NEW p7, NEW p8, NEW p9, NEW p10, NEW p11,
         Carries(f, op, L, A0, p1, A1),
         Carries(f, op, L, A1, p2, A2),
         Carries(f, op, L, A2, p3, A3),
         Carries(f, op, L, A3, p4, A4),
         Carries(f, op, L, A4, p5, A5),
         Carries(f, op, L, A5, p6, A6),
         Carries(f, op, L, A6, p7, A7),
         Carries(f, op, L, A7, p8, A8),
         Carries(f, op, L, A8, p9, A9),
         Carries(f, op, L, A9, p10, A10),
         Carries(f, op, L, A10, p11, A11)
  PROVE  Carries(f, op, L, A0, p1 \o p2 \o p3 \o p4 \o p5 \o p6 \o p7 \o p8 \o p9 \o p10
                 \o p11, A11)
<1>1. Carries(f, op, L, A0, p1 \o p2, A2)  BY CarriesThen
<1>2. Carries(f, op, L, A0, p1 \o p2 \o p3, A3)  BY <1>1, CarriesThen
<1>3. Carries(f, op, L, A0, p1 \o p2 \o p3 \o p4, A4)  BY <1>2, CarriesThen
<1>4. Carries(f, op, L, A0, p1 \o p2 \o p3 \o p4 \o p5, A5)  BY <1>3, CarriesThen
<1>5. Carries(f, op, L, A0, p1 \o p2 \o p3 \o p4 \o p5 \o p6, A6)  BY <1>4, CarriesThen
<1>6. Carries(f, op, L, A0, p1 \o p2 \o p3 \o p4 \o p5 \o p6 \o p7, A7)  BY <1>5, CarriesThen
<1>7. Carries(f, op, L, A0, p1 \o p2 \o p3 \o p4 \o p5 \o p6 \o p7 \o p8, A8)  BY <1>6, CarriesThen
<1>8. Carries(f, op, L, A0, p1 \o p2 \o p3 \o p4 \o p5 \o p6 \o p7 \o p8 \o p9, A9)
  BY <1>7, CarriesThen
<1>9. Carries(f, op, L, A0, p1 \o p2 \o p3 \o p4 \o p5 \o p6 \o p7 \o p8 \o p9 \o p10, A10)
  BY <1>8, CarriesThen
<1>10. Carries(f, op, L, A0, p1 \o p2 \o p3 \o p4 \o p5 \o p6 \o p7 \o p8 \o p9 \o p10 \o p11, A11)
  BY <1>9, CarriesThen
<1> QED BY <1>10

\* What the loader and the code around it change.
LoaderTouched == HartThings \cup Ran
                   \cup {"data0", "loose", "x2", "x11", "x12", "x13", "csr300", "value", "answer"}
\* What the mailbox and the stub of the erase hold when the loader starts.
Prepared(f, op, R) ==
  /\ op \in LoaderOps
  /\ NeedsMail(f, op) /\ f # "V20X" => <<"mailbox", "mail">> \in R
  /\ op = "erase_all" => <<"a1", "w1">> \in R /\ <<"a2", "w2">> \in R

\* The X03X's initialize run.
LEMMA StartX03XFirst ==
  ASSUME NEW f, NEW op, NEW L, NEW R, NEW Z, Frame(op, "return", R, Z),
         LoaderTouched \cup {"dcsr"} \subseteq Z,
         f = "X03X", Prepared(f, op, R)
  PROVE  Carries(f, op, L, Both(R \cup {Idling, Yes("unlocked")}),
                 WriteReg("dcsr", "debug", "return") \o Arguments
                   \o WriteReg("x2", "stack", "return") \o WriteReg("dpc", "entry", "return")
                     \o W("CONTROL", "resume", "return"),
                 Both(R \cup {Fine, Yes("started")}))
<1> DEFINE N0 == {Idling, Yes("unlocked")}
           N1 == {Fine, Yes("halted"), Idling, Yes("steady"), Yes("unlocked"), <<"dcsr", "debug">>}
           N2 == {Fine, Yes("halted"), Idling, Yes("steady"), Yes("unlocked"), <<"dcsr", "debug">>,
                  <<"x10", "mode">>, <<"x11", "address">>, <<"x12", "length">>}
           N3 == {Fine, Yes("halted"), Idling, Yes("steady"), Yes("unlocked"), <<"dcsr", "debug">>,
                  <<"x10", "mode">>, <<"x11", "address">>, <<"x12", "length">>, <<"x2", "stack">>}
           N4 == {Fine, Yes("halted"), Idling, Yes("steady"), Yes("unlocked"), <<"dcsr", "debug">>,
                  <<"x10", "mode">>, <<"x11", "address">>, <<"x12", "length">>, <<"x2", "stack">>, <<"dpc", "entry">>}
           N5 == {Fine, Yes("started")}
<1>1. /\ {"data0", "loose", "steady"} \cup SetTouched("dcsr") \subseteq Z
      /\ {"data0", "loose", "steady", "last", "started", "done", "x10", "x11", "x12"}
           \cup Report \subseteq Z
      /\ {"data0", "loose", "steady"} \cup SetTouched("x2") \subseteq Z
      /\ {"data0", "loose", "steady"} \cup SetTouched("dpc") \subseteq Z
      /\ HartThings \subseteq Z
  BY DEF LoaderTouched, HartThings, Report, Ran, SetTouched, Frame
<1>2. Report \subseteq Z /\ \A g \in R : g[1] \notin Z  BY DEF Frame
<1>3. Yes("sure") \notin N0 \cup N1 \cup N2 \cup N3 \cup N4 \cup N5
  BY DEF Yes, Idling, Fine, Report, Ran, Blocks, SetTouched
<1>4. Carries(f, op, L, Both(R \cup N0), WriteReg("dcsr", "debug", "return"), Both(R \cup N1))
  <2>1. \A g \in N1 : g \in {Fine, Yes("halted"), Idling, Yes("steady"), <<"dcsr", "debug">>}
        \/ (g \in N0 /\ g[1] \notin {"data0", "loose", "steady"} \cup SetTouched("dcsr"))
    BY DEF Yes, Idling, Fine, Report, Ran, Blocks, SetTouched
  <2>2. "dcsr" \in Regs  BY DEF Regs
  <2>3. Idling \in R \cup N0  OBVIOUS
  <2> HIDE DEF N0, N1
  <2> QED BY <1>1, <1>2, <1>3, <2>1, <2>2, <2>3, RegFrame
<1>5. Carries(f, op, L, Both(R \cup N1), Arguments, Both(R \cup N2))
  <2>1. \A g \in N2 : g \in {Fine, Yes("halted"), Idling, Yes("steady"), <<"x10", "mode">>,
                             <<"x11", "address">>, <<"x12", "length">>}
        \/ (g \in N1 /\
            g[1]
              \notin {"data0", "loose", "steady", "last", "started", "done", "x10", "x11",
                      "x12"} \cup Report)
    BY DEF Yes, Idling, Fine, Report, Ran, Blocks, SetTouched
  <2>2. Idling \in R \cup N1 \/ f = "V20X"  BY DEF Yes, Idling
  <2> HIDE DEF N1, N2
  <2> QED BY <1>1, <1>2, <1>3, <2>1, <2>2, ArgsFrame
<1>6. Carries(f, op, L, Both(R \cup N2), WriteReg("x2", "stack", "return"), Both(R \cup N3))
  <2>1. \A g \in N3 : g \in {Fine, Yes("halted"), Idling, Yes("steady"), <<"x2", "stack">>}
        \/ (g \in N2 /\ g[1] \notin {"data0", "loose", "steady"} \cup SetTouched("x2"))
    BY DEF Yes, Idling, Fine, Report, Ran, Blocks, SetTouched
  <2>2. "x2" \in Regs  BY DEF Regs
  <2>3. Idling \in R \cup N2  OBVIOUS
  <2> HIDE DEF N2, N3
  <2> QED BY <1>1, <1>2, <1>3, <2>1, <2>2, <2>3, RegFrame
<1>7. Carries(f, op, L, Both(R \cup N3), WriteReg("dpc", "entry", "return"), Both(R \cup N4))
  <2>1. \A g \in N4 : g \in {Fine, Yes("halted"), Idling, Yes("steady"), <<"dpc", "entry">>}
        \/ (g \in N3 /\ g[1] \notin {"data0", "loose", "steady"} \cup SetTouched("dpc"))
    BY DEF Yes, Idling, Fine, Report, Ran, Blocks, SetTouched
  <2>2. "dpc" \in Regs  BY DEF Regs
  <2>3. Idling \in R \cup N3  OBVIOUS
  <2> HIDE DEF N3, N4
  <2> QED BY <1>1, <1>2, <1>3, <2>1, <2>2, <2>3, RegFrame
<1>8. Carries(f, op, L, Both(R \cup N4), W("CONTROL", "resume", "return"), Both(R \cup N5))
  <2>1. \A g \in N5 : g \in {Fine, Yes("started")}
    BY DEF Yes, Idling, Fine, Report, Ran, Blocks, SetTouched
  <2>2. LoaderReady(f, op, R \cup N4)
    BY DEF LoaderReady, Prepared, IsCh5, Yes
  <2>3. {Yes("halted"), <<"dpc", "entry">>} \subseteq N4  OBVIOUS
  <2> HIDE DEF N4, N5
  <2> QED BY <1>1, <1>2, <1>3, <2>1, <2>2, <2>3, GoFrame
<1> HIDE DEF N0, N1, N2, N3, N4, N5
<1>9. Carries(f, op, L, Both(R \cup N0), WriteReg("dcsr", "debug", "return") \o Arguments
              \o WriteReg("x2", "stack", "return") \o WriteReg("dpc", "entry", "return")
                \o W("CONTROL", "resume", "return"), Both(R \cup N5))
  BY <1>4, <1>5, <1>6, <1>7, <1>8, Chain5
<1> QED BY <1>9 DEF N0, N1, N2, N3, N4, N5

\* The X03X's other runs.
LEMMA StartX03X ==
  ASSUME NEW f, NEW op, NEW L, NEW R, NEW Z, Frame(op, "return", R, Z), LoaderTouched \subseteq Z,
         f = "X03X", op # "initialize", Prepared(f, op, R)
  PROVE  Carries(f, op, L, Both(R \cup {Idling, Yes("unlocked")}),
                 WriteReg("csr300", "zero", "return") \o Arguments
                   \o WriteReg("x2", "stack", "return") \o WriteReg("dpc", "entry", "return")
                     \o W("CONTROL", "resume", "return"),
                 Both(R \cup {Fine, Yes("started")}))
<1> DEFINE N0 == {Idling, Yes("unlocked")}
           N1 == {Fine, Yes("halted"), Idling, Yes("steady"), Yes("unlocked")}
           N2 == {Fine, Yes("halted"), Idling, Yes("steady"), Yes("unlocked"), <<"x10", "mode">>,
                  <<"x11", "address">>, <<"x12", "length">>}
           N3 == {Fine, Yes("halted"), Idling, Yes("steady"), Yes("unlocked"), <<"x10", "mode">>,
                  <<"x11", "address">>, <<"x12", "length">>, <<"x2", "stack">>}
           N4 == {Fine, Yes("halted"), Idling, Yes("steady"), Yes("unlocked"), <<"x10", "mode">>,
                  <<"x11", "address">>, <<"x12", "length">>, <<"x2", "stack">>, <<"dpc", "entry">>}
           N5 == {Fine, Yes("started")}
<1>1. /\ {"data0", "loose", "steady"} \cup SetTouched("csr300") \subseteq Z
      /\ {"data0", "loose", "steady", "last", "started", "done", "x10", "x11", "x12"}
           \cup Report \subseteq Z
      /\ {"data0", "loose", "steady"} \cup SetTouched("x2") \subseteq Z
      /\ {"data0", "loose", "steady"} \cup SetTouched("dpc") \subseteq Z
      /\ HartThings \subseteq Z
  BY DEF LoaderTouched, HartThings, Report, Ran, SetTouched, Frame
<1>2. Report \subseteq Z /\ \A g \in R : g[1] \notin Z  BY DEF Frame
<1>3. Yes("sure") \notin N0 \cup N1 \cup N2 \cup N3 \cup N4 \cup N5
  BY DEF Yes, Idling, Fine, Report, Ran, Blocks, SetTouched
<1>4. Carries(f, op, L, Both(R \cup N0), WriteReg("csr300", "zero", "return"), Both(R \cup N1))
  <2>1. \A g \in N1 : g \in {Fine, Yes("halted"), Idling, Yes("steady"), <<"csr300", "zero">>}
        \/ (g \in N0 /\ g[1] \notin {"data0", "loose", "steady"} \cup SetTouched("csr300"))
    BY DEF Yes, Idling, Fine, Report, Ran, Blocks, SetTouched
  <2>2. "csr300" \in Regs  BY DEF Regs
  <2>3. Idling \in R \cup N0  OBVIOUS
  <2> HIDE DEF N0, N1
  <2> QED BY <1>1, <1>2, <1>3, <2>1, <2>2, <2>3, RegFrame
<1>5. Carries(f, op, L, Both(R \cup N1), Arguments, Both(R \cup N2))
  <2>1. \A g \in N2 : g \in {Fine, Yes("halted"), Idling, Yes("steady"), <<"x10", "mode">>,
                             <<"x11", "address">>, <<"x12", "length">>}
        \/ (g \in N1 /\
            g[1]
              \notin {"data0", "loose", "steady", "last", "started", "done", "x10", "x11",
                      "x12"} \cup Report)
    BY DEF Yes, Idling, Fine, Report, Ran, Blocks, SetTouched
  <2>2. Idling \in R \cup N1 \/ f = "V20X"  BY DEF Yes, Idling
  <2> HIDE DEF N1, N2
  <2> QED BY <1>1, <1>2, <1>3, <2>1, <2>2, ArgsFrame
<1>6. Carries(f, op, L, Both(R \cup N2), WriteReg("x2", "stack", "return"), Both(R \cup N3))
  <2>1. \A g \in N3 : g \in {Fine, Yes("halted"), Idling, Yes("steady"), <<"x2", "stack">>}
        \/ (g \in N2 /\ g[1] \notin {"data0", "loose", "steady"} \cup SetTouched("x2"))
    BY DEF Yes, Idling, Fine, Report, Ran, Blocks, SetTouched
  <2>2. "x2" \in Regs  BY DEF Regs
  <2>3. Idling \in R \cup N2  OBVIOUS
  <2> HIDE DEF N2, N3
  <2> QED BY <1>1, <1>2, <1>3, <2>1, <2>2, <2>3, RegFrame
<1>7. Carries(f, op, L, Both(R \cup N3), WriteReg("dpc", "entry", "return"), Both(R \cup N4))
  <2>1. \A g \in N4 : g \in {Fine, Yes("halted"), Idling, Yes("steady"), <<"dpc", "entry">>}
        \/ (g \in N3 /\ g[1] \notin {"data0", "loose", "steady"} \cup SetTouched("dpc"))
    BY DEF Yes, Idling, Fine, Report, Ran, Blocks, SetTouched
  <2>2. "dpc" \in Regs  BY DEF Regs
  <2>3. Idling \in R \cup N3  OBVIOUS
  <2> HIDE DEF N3, N4
  <2> QED BY <1>1, <1>2, <1>3, <2>1, <2>2, <2>3, RegFrame
<1>8. Carries(f, op, L, Both(R \cup N4), W("CONTROL", "resume", "return"), Both(R \cup N5))
  <2>1. \A g \in N5 : g \in {Fine, Yes("started")}
    BY DEF Yes, Idling, Fine, Report, Ran, Blocks, SetTouched
  <2>2. LoaderReady(f, op, R \cup N4)
    BY DEF LoaderReady, Prepared, IsCh5, Yes
  <2>3. {Yes("halted"), <<"dpc", "entry">>} \subseteq N4  OBVIOUS
  <2> HIDE DEF N4, N5
  <2> QED BY <1>1, <1>2, <1>3, <2>1, <2>2, <2>3, GoFrame
<1> HIDE DEF N0, N1, N2, N3, N4, N5
<1>9. Carries(f, op, L, Both(R \cup N0), WriteReg("csr300", "zero", "return") \o Arguments
              \o WriteReg("x2", "stack", "return") \o WriteReg("dpc", "entry", "return")
                \o W("CONTROL", "resume", "return"), Both(R \cup N5))
  BY <1>4, <1>5, <1>6, <1>7, <1>8, Chain5
<1> QED BY <1>9 DEF N0, N1, N2, N3, N4, N5

\* The L103's runs.
LEMMA StartL103 ==
  ASSUME NEW f, NEW op, NEW L, NEW R, NEW Z, Frame(op, "return", R, Z),
         LoaderTouched \cup {"dcsr"} \subseteq Z,
         f = "L103", Prepared(f, op, R)
  PROVE  Carries(f, op, L, Both(R \cup {Idling}), Arguments \o WriteReg("x2", "stack", "return")
                 \o WriteReg("dcsr", "debug", "return") \o WriteReg("csr300", "zero", "return")
                   \o WriteReg("dpc", "entry", "return") \o W("CONTROL", "resume", "return"),
                 Both(R \cup {Fine, Yes("started")}))
<1> DEFINE N0 == {Idling}
           N1 == {Fine, Yes("halted"), Idling, Yes("steady"), <<"x10", "mode">>,
                  <<"x11", "address">>, <<"x12", "length">>}
           N2 == {Fine, Yes("halted"), Idling, Yes("steady"), <<"x10", "mode">>,
                  <<"x11", "address">>, <<"x12", "length">>, <<"x2", "stack">>}
           N3 == {Fine, Yes("halted"), Idling, Yes("steady"), <<"x10", "mode">>,
                  <<"x11", "address">>, <<"x12", "length">>, <<"x2", "stack">>, <<"dcsr", "debug">>}
           N4 == {Fine, Yes("halted"), Idling, Yes("steady"), <<"x10", "mode">>,
                  <<"x11", "address">>, <<"x12", "length">>, <<"x2", "stack">>, <<"dcsr", "debug">>, <<"dpc", "entry">>}
           N5 == {Fine, Yes("started")}
<1>1. /\ {"data0", "loose", "steady", "last", "started", "done", "x10", "x11", "x12"}
           \cup Report \subseteq Z
      /\ {"data0", "loose", "steady"} \cup SetTouched("x2") \subseteq Z
      /\ {"data0", "loose", "steady"} \cup SetTouched("dcsr") \subseteq Z
      /\ {"data0", "loose", "steady"} \cup SetTouched("csr300") \subseteq Z
      /\ {"data0", "loose", "steady"} \cup SetTouched("dpc") \subseteq Z
      /\ HartThings \subseteq Z
  BY DEF LoaderTouched, HartThings, Report, Ran, SetTouched, Frame
<1>2. Report \subseteq Z /\ \A g \in R : g[1] \notin Z  BY DEF Frame
<1>3. Yes("sure") \notin N0 \cup N1 \cup N2 \cup N3 \cup N4 \cup N5
  BY DEF Yes, Idling, Fine, Report, Ran, Blocks, SetTouched
<1>4. Carries(f, op, L, Both(R \cup N0), Arguments, Both(R \cup N1))
  <2>1. \A g \in N1 : g \in {Fine, Yes("halted"), Idling, Yes("steady"), <<"x10", "mode">>,
                             <<"x11", "address">>, <<"x12", "length">>}
        \/ (g \in N0 /\
            g[1]
              \notin {"data0", "loose", "steady", "last", "started", "done", "x10", "x11",
                      "x12"} \cup Report)
    BY DEF Yes, Idling, Fine, Report, Ran, Blocks, SetTouched
  <2>2. Idling \in R \cup N0 \/ f = "V20X"  BY DEF Yes, Idling
  <2> HIDE DEF N0, N1
  <2> QED BY <1>1, <1>2, <1>3, <2>1, <2>2, ArgsFrame
<1>5. Carries(f, op, L, Both(R \cup N1), WriteReg("x2", "stack", "return"), Both(R \cup N2))
  <2>1. \A g \in N2 : g \in {Fine, Yes("halted"), Idling, Yes("steady"), <<"x2", "stack">>}
        \/ (g \in N1 /\ g[1] \notin {"data0", "loose", "steady"} \cup SetTouched("x2"))
    BY DEF Yes, Idling, Fine, Report, Ran, Blocks, SetTouched
  <2>2. "x2" \in Regs  BY DEF Regs
  <2>3. Idling \in R \cup N1  OBVIOUS
  <2> HIDE DEF N1, N2
  <2> QED BY <1>1, <1>2, <1>3, <2>1, <2>2, <2>3, RegFrame
<1>6. Carries(f, op, L, Both(R \cup N2), WriteReg("dcsr", "debug", "return"), Both(R \cup N3))
  <2>1. \A g \in N3 : g \in {Fine, Yes("halted"), Idling, Yes("steady"), <<"dcsr", "debug">>}
        \/ (g \in N2 /\ g[1] \notin {"data0", "loose", "steady"} \cup SetTouched("dcsr"))
    BY DEF Yes, Idling, Fine, Report, Ran, Blocks, SetTouched
  <2>2. "dcsr" \in Regs  BY DEF Regs
  <2>3. Idling \in R \cup N2  OBVIOUS
  <2> HIDE DEF N2, N3
  <2> QED BY <1>1, <1>2, <1>3, <2>1, <2>2, <2>3, RegFrame
<1>7. Carries(f, op, L, Both(R \cup N3), WriteReg("csr300", "zero", "return"), Both(R \cup N3))
  <2>1. \A g \in N3 : g \in {Fine, Yes("halted"), Idling, Yes("steady"), <<"csr300", "zero">>}
        \/ (g \in N3 /\ g[1] \notin {"data0", "loose", "steady"} \cup SetTouched("csr300"))
    BY DEF Yes, Idling, Fine, Report, Ran, Blocks, SetTouched
  <2>2. "csr300" \in Regs  BY DEF Regs
  <2>3. Idling \in R \cup N3  OBVIOUS
  <2> HIDE DEF N3
  <2> QED BY <1>1, <1>2, <1>3, <2>1, <2>2, <2>3, RegFrame
<1>8. Carries(f, op, L, Both(R \cup N3), WriteReg("dpc", "entry", "return"), Both(R \cup N4))
  <2>1. \A g \in N4 : g \in {Fine, Yes("halted"), Idling, Yes("steady"), <<"dpc", "entry">>}
        \/ (g \in N3 /\ g[1] \notin {"data0", "loose", "steady"} \cup SetTouched("dpc"))
    BY DEF Yes, Idling, Fine, Report, Ran, Blocks, SetTouched
  <2>2. "dpc" \in Regs  BY DEF Regs
  <2>3. Idling \in R \cup N3  OBVIOUS
  <2> HIDE DEF N3, N4
  <2> QED BY <1>1, <1>2, <1>3, <2>1, <2>2, <2>3, RegFrame
<1>9. Carries(f, op, L, Both(R \cup N4), W("CONTROL", "resume", "return"), Both(R \cup N5))
  <2>1. \A g \in N5 : g \in {Fine, Yes("started")}
    BY DEF Yes, Idling, Fine, Report, Ran, Blocks, SetTouched
  <2>2. LoaderReady(f, op, R \cup N4)
    BY DEF LoaderReady, Prepared, IsCh5, Yes
  <2>3. {Yes("halted"), <<"dpc", "entry">>} \subseteq N4  OBVIOUS
  <2> HIDE DEF N4, N5
  <2> QED BY <1>1, <1>2, <1>3, <2>1, <2>2, <2>3, GoFrame
<1> HIDE DEF N0, N1, N2, N3, N4, N5
<1>10. Carries(f, op, L, Both(R \cup N0), Arguments \o WriteReg("x2", "stack", "return")
               \o WriteReg("dcsr", "debug", "return") \o WriteReg("csr300", "zero", "return")
                 \o WriteReg("dpc", "entry", "return")
                   \o W("CONTROL", "resume", "return"), Both(R \cup N5))
  BY <1>4, <1>5, <1>6, <1>7, <1>8, <1>9, Chain6
<1> QED BY <1>10 DEF N0, N1, N2, N3, N4, N5

\* The V20X's runs.
LEMMA StartV20X ==
  ASSUME NEW f, NEW op, NEW L, NEW R, NEW Z, Frame(op, "return", R, Z), LoaderTouched \subseteq Z,
         f = "V20X", op = "initialize" => <<"dcsr", "debug">> \in R, Prepared(f, op, R)
  PROVE  Carries(f, op, L, Both(R \cup {Yes("kept")}), Arguments
                 \o WriteReg("csr300", "zero", "return") \o WriteReg("x2", "stack", "return")
                   \o WriteReg("dpc", "entry", "return") \o W("CONTROL", "resume", "return"),
                 Both(R \cup {Fine, Yes("started")}))
<1> DEFINE N0 == {Yes("kept")}
           N1 == {Fine, Yes("halted"), Idling, Yes("steady"), <<"x10", "mode">>,
                  <<"x11", "address">>, <<"x12", "length">>}
           N2 == {Fine, Yes("halted"), Idling, Yes("steady"), <<"x10", "mode">>,
                  <<"x11", "address">>, <<"x12", "length">>, <<"x2", "stack">>}
           N3 == {Fine, Yes("halted"), Idling, Yes("steady"), <<"x10", "mode">>,
                  <<"x11", "address">>, <<"x12", "length">>, <<"x2", "stack">>, <<"dpc", "entry">>}
           N4 == {Fine, Yes("started")}
<1>1. /\ {"data0", "loose", "steady", "last", "started", "done", "x10", "x11", "x12"}
           \cup Report \subseteq Z
      /\ {"data0", "loose", "steady"} \cup SetTouched("csr300") \subseteq Z
      /\ {"data0", "loose", "steady"} \cup SetTouched("x2") \subseteq Z
      /\ {"data0", "loose", "steady"} \cup SetTouched("dpc") \subseteq Z
      /\ HartThings \subseteq Z
  BY DEF LoaderTouched, HartThings, Report, Ran, SetTouched, Frame
<1>2. Report \subseteq Z /\ \A g \in R : g[1] \notin Z  BY DEF Frame
<1>3. Yes("sure") \notin N0 \cup N1 \cup N2 \cup N3 \cup N4
  BY DEF Yes, Idling, Fine, Report, Ran, Blocks, SetTouched
<1>4. Carries(f, op, L, Both(R \cup N0), Arguments, Both(R \cup N1))
  <2>1. \A g \in N1 : g \in {Fine, Yes("halted"), Idling, Yes("steady"), <<"x10", "mode">>,
                             <<"x11", "address">>, <<"x12", "length">>}
        \/ (g \in N0 /\
            g[1]
              \notin {"data0", "loose", "steady", "last", "started", "done", "x10", "x11",
                      "x12"} \cup Report)
    BY DEF Yes, Idling, Fine, Report, Ran, Blocks, SetTouched
  <2>2. Idling \in R \cup N0 \/ f = "V20X"  BY DEF Yes, Idling
  <2> HIDE DEF N0, N1
  <2> QED BY <1>1, <1>2, <1>3, <2>1, <2>2, ArgsFrame
<1>5. Carries(f, op, L, Both(R \cup N1), WriteReg("csr300", "zero", "return"), Both(R \cup N1))
  <2>1. \A g \in N1 : g \in {Fine, Yes("halted"), Idling, Yes("steady"), <<"csr300", "zero">>}
        \/ (g \in N1 /\ g[1] \notin {"data0", "loose", "steady"} \cup SetTouched("csr300"))
    BY DEF Yes, Idling, Fine, Report, Ran, Blocks, SetTouched
  <2>2. "csr300" \in Regs  BY DEF Regs
  <2>3. Idling \in R \cup N1  OBVIOUS
  <2> HIDE DEF N1
  <2> QED BY <1>1, <1>2, <1>3, <2>1, <2>2, <2>3, RegFrame
<1>6. Carries(f, op, L, Both(R \cup N1), WriteReg("x2", "stack", "return"), Both(R \cup N2))
  <2>1. \A g \in N2 : g \in {Fine, Yes("halted"), Idling, Yes("steady"), <<"x2", "stack">>}
        \/ (g \in N1 /\ g[1] \notin {"data0", "loose", "steady"} \cup SetTouched("x2"))
    BY DEF Yes, Idling, Fine, Report, Ran, Blocks, SetTouched
  <2>2. "x2" \in Regs  BY DEF Regs
  <2>3. Idling \in R \cup N1  OBVIOUS
  <2> HIDE DEF N1, N2
  <2> QED BY <1>1, <1>2, <1>3, <2>1, <2>2, <2>3, RegFrame
<1>7. Carries(f, op, L, Both(R \cup N2), WriteReg("dpc", "entry", "return"), Both(R \cup N3))
  <2>1. \A g \in N3 : g \in {Fine, Yes("halted"), Idling, Yes("steady"), <<"dpc", "entry">>}
        \/ (g \in N2 /\ g[1] \notin {"data0", "loose", "steady"} \cup SetTouched("dpc"))
    BY DEF Yes, Idling, Fine, Report, Ran, Blocks, SetTouched
  <2>2. "dpc" \in Regs  BY DEF Regs
  <2>3. Idling \in R \cup N2  OBVIOUS
  <2> HIDE DEF N2, N3
  <2> QED BY <1>1, <1>2, <1>3, <2>1, <2>2, <2>3, RegFrame
<1>8. Carries(f, op, L, Both(R \cup N3), W("CONTROL", "resume", "return"), Both(R \cup N4))
  <2>1. \A g \in N4 : g \in {Fine, Yes("started")}
    BY DEF Yes, Idling, Fine, Report, Ran, Blocks, SetTouched
  <2>2. LoaderReady(f, op, R \cup N3)
    BY DEF LoaderReady, Prepared, IsCh5, Yes
  <2>3. {Yes("halted"), <<"dpc", "entry">>} \subseteq N3  OBVIOUS
  <2> HIDE DEF N3, N4
  <2> QED BY <1>1, <1>2, <1>3, <2>1, <2>2, <2>3, GoFrame
<1> HIDE DEF N0, N1, N2, N3, N4
<1>9. Carries(f, op, L, Both(R \cup N0), Arguments \o WriteReg("csr300", "zero", "return")
              \o WriteReg("x2", "stack", "return") \o WriteReg("dpc", "entry", "return")
                \o W("CONTROL", "resume", "return"), Both(R \cup N4))
  BY <1>4, <1>5, <1>6, <1>7, <1>8, Chain5
<1> QED BY <1>9 DEF N0, N1, N2, N3, N4

\* The runs of the V30X, the CH58x and the CH59x.
LEMMA StartOthers ==
  ASSUME NEW f, NEW op, NEW L, NEW R, NEW Z, Frame(op, "return", R, Z),
         LoaderTouched \cup {"dcsr"} \subseteq Z,
         f \in {"V30X", "CH58X", "CH59X"}, Prepared(f, op, R)
  PROVE  Carries(f, op, L, Both(R \cup {Idling}), Arguments \o WriteReg("x13", "data", "return")
                 \o WriteReg("x2", "stack", "return") \o WriteReg("dcsr", "debug", "return")
                   \o WriteReg("csr300", "zero", "return") \o WriteReg("dpc", "entry", "return")
                     \o W("CONTROL", "halt", "return") \o W("CONTROL", "halt", "return")
                       \o W("CONTROL", "idle", "return") \o W("CONTROL", "resume", "return")
                         \o W("CONTROL", "idle", "return"),
                 Both(R \cup {Fine, Yes("started")}))
<1> DEFINE N0 == {Idling}
           N1 == {Fine, Yes("halted"), Idling, Yes("steady"), <<"x10", "mode">>,
                  <<"x11", "address">>, <<"x12", "length">>}
           N2 == {Fine, Yes("halted"), Idling, Yes("steady"), <<"x10", "mode">>,
                  <<"x11", "address">>, <<"x12", "length">>, <<"x13", "data">>}
           N3 == {Fine, Yes("halted"), Idling, Yes("steady"), <<"x10", "mode">>,
                  <<"x11", "address">>, <<"x12", "length">>, <<"x13", "data">>, <<"x2", "stack">>}
           N4 == {Fine, Yes("halted"), Idling, Yes("steady"), <<"x10", "mode">>,
                  <<"x11", "address">>, <<"x12", "length">>, <<"x13", "data">>, <<"x2", "stack">>, <<"dcsr", "debug">>}
           N5 == {Fine, Yes("halted"), Idling, Yes("steady"), <<"x10", "mode">>,
                  <<"x11", "address">>, <<"x12", "length">>, <<"x13", "data">>, <<"x2", "stack">>, <<"dcsr", "debug">>, <<"dpc", "entry">>}
           N6 == {Fine, Yes("started")}
<1>1. /\ {"data0", "loose", "steady", "last", "started", "done", "x10", "x11", "x12"}
           \cup Report \subseteq Z
      /\ {"data0", "loose", "steady"} \cup SetTouched("x13") \subseteq Z
      /\ {"data0", "loose", "steady"} \cup SetTouched("x2") \subseteq Z
      /\ {"data0", "loose", "steady"} \cup SetTouched("dcsr") \subseteq Z
      /\ {"data0", "loose", "steady"} \cup SetTouched("csr300") \subseteq Z
      /\ {"data0", "loose", "steady"} \cup SetTouched("dpc") \subseteq Z
      /\ HartThings \subseteq Z
  BY DEF LoaderTouched, HartThings, Report, Ran, SetTouched, Frame
<1>2. Report \subseteq Z /\ \A g \in R : g[1] \notin Z  BY DEF Frame
<1>3. Yes("sure") \notin N0 \cup N1 \cup N2 \cup N3 \cup N4 \cup N5 \cup N6
  BY DEF Yes, Idling, Fine, Report, Ran, Blocks, SetTouched, HartThings
<1>4. Carries(f, op, L, Both(R \cup N0), Arguments, Both(R \cup N1))
  <2>1. \A g \in N1 : g \in {Fine, Yes("halted"), Idling, Yes("steady"), <<"x10", "mode">>,
                             <<"x11", "address">>, <<"x12", "length">>}
        \/ (g \in N0 /\
            g[1]
              \notin {"data0", "loose", "steady", "last", "started", "done", "x10", "x11",
                      "x12"} \cup Report)
    BY DEF Yes, Idling, Fine, Report, Ran, Blocks, SetTouched, HartThings
  <2>2. Idling \in R \cup N0 \/ f = "V20X"  BY DEF Yes, Idling
  <2> HIDE DEF N0, N1
  <2> QED BY <1>1, <1>2, <1>3, <2>1, <2>2, ArgsFrame
<1>5. Carries(f, op, L, Both(R \cup N1), WriteReg("x13", "data", "return"), Both(R \cup N2))
  <2>1. \A g \in N2 : g \in {Fine, Yes("halted"), Idling, Yes("steady"), <<"x13", "data">>}
        \/ (g \in N1 /\ g[1] \notin {"data0", "loose", "steady"} \cup SetTouched("x13"))
    BY DEF Yes, Idling, Fine, Report, Ran, Blocks, SetTouched, HartThings
  <2>2. "x13" \in Regs  BY DEF Regs
  <2>3. Idling \in R \cup N1  OBVIOUS
  <2> HIDE DEF N1, N2
  <2> QED BY <1>1, <1>2, <1>3, <2>1, <2>2, <2>3, RegFrame
<1>6. Carries(f, op, L, Both(R \cup N2), WriteReg("x2", "stack", "return"), Both(R \cup N3))
  <2>1. \A g \in N3 : g \in {Fine, Yes("halted"), Idling, Yes("steady"), <<"x2", "stack">>}
        \/ (g \in N2 /\ g[1] \notin {"data0", "loose", "steady"} \cup SetTouched("x2"))
    BY DEF Yes, Idling, Fine, Report, Ran, Blocks, SetTouched, HartThings
  <2>2. "x2" \in Regs  BY DEF Regs
  <2>3. Idling \in R \cup N2  OBVIOUS
  <2> HIDE DEF N2, N3
  <2> QED BY <1>1, <1>2, <1>3, <2>1, <2>2, <2>3, RegFrame
<1>7. Carries(f, op, L, Both(R \cup N3), WriteReg("dcsr", "debug", "return"), Both(R \cup N4))
  <2>1. \A g \in N4 : g \in {Fine, Yes("halted"), Idling, Yes("steady"), <<"dcsr", "debug">>}
        \/ (g \in N3 /\ g[1] \notin {"data0", "loose", "steady"} \cup SetTouched("dcsr"))
    BY DEF Yes, Idling, Fine, Report, Ran, Blocks, SetTouched, HartThings
  <2>2. "dcsr" \in Regs  BY DEF Regs
  <2>3. Idling \in R \cup N3  OBVIOUS
  <2> HIDE DEF N3, N4
  <2> QED BY <1>1, <1>2, <1>3, <2>1, <2>2, <2>3, RegFrame
<1>8. Carries(f, op, L, Both(R \cup N4), WriteReg("csr300", "zero", "return"), Both(R \cup N4))
  <2>1. \A g \in N4 : g \in {Fine, Yes("halted"), Idling, Yes("steady"), <<"csr300", "zero">>}
        \/ (g \in N4 /\ g[1] \notin {"data0", "loose", "steady"} \cup SetTouched("csr300"))
    BY DEF Yes, Idling, Fine, Report, Ran, Blocks, SetTouched, HartThings
  <2>2. "csr300" \in Regs  BY DEF Regs
  <2>3. Idling \in R \cup N4  OBVIOUS
  <2> HIDE DEF N4
  <2> QED BY <1>1, <1>2, <1>3, <2>1, <2>2, <2>3, RegFrame
<1>9. Carries(f, op, L, Both(R \cup N4), WriteReg("dpc", "entry", "return"), Both(R \cup N5))
  <2>1. \A g \in N5 : g \in {Fine, Yes("halted"), Idling, Yes("steady"), <<"dpc", "entry">>}
        \/ (g \in N4 /\ g[1] \notin {"data0", "loose", "steady"} \cup SetTouched("dpc"))
    BY DEF Yes, Idling, Fine, Report, Ran, Blocks, SetTouched, HartThings
  <2>2. "dpc" \in Regs  BY DEF Regs
  <2>3. Idling \in R \cup N4  OBVIOUS
  <2> HIDE DEF N4, N5
  <2> QED BY <1>1, <1>2, <1>3, <2>1, <2>2, <2>3, RegFrame
<1>10. Carries(f, op, L, Both(R \cup N5), W("CONTROL", "halt", "return"), Both(R \cup N5))
  <2>1. \A g \in N5 : g = Fine \/ (g \in N5 /\ g[1] \notin HartThings \cup Report)
        \/ (g[1] \in {"x10", "dpc"} /\ g \in N5 /\ Yes("halted") \in N5)
        \/ g \in N5 \cap {Yes("halted"), Yes("started"), Yes("done"), Yes("unlocked"), Yes("free")}
    BY DEF Yes, Idling, Fine, Report, Ran, Blocks, SetTouched, HartThings
  <2> HIDE DEF N5
  <2> QED BY <1>1, <1>2, <1>3, <2>1, RequestFrame
<1>11. Carries(f, op, L, Both(R \cup N5), W("CONTROL", "halt", "return"), Both(R \cup N5))
  <2>1. \A g \in N5 : g = Fine \/ (g \in N5 /\ g[1] \notin HartThings \cup Report)
        \/ (g[1] \in {"x10", "dpc"} /\ g \in N5 /\ Yes("halted") \in N5)
        \/ g \in N5 \cap {Yes("halted"), Yes("started"), Yes("done"), Yes("unlocked"), Yes("free")}
    BY DEF Yes, Idling, Fine, Report, Ran, Blocks, SetTouched, HartThings
  <2> HIDE DEF N5
  <2> QED BY <1>1, <1>2, <1>3, <2>1, RequestFrame
<1>12. Carries(f, op, L, Both(R \cup N5), W("CONTROL", "idle", "return"), Both(R \cup N5))
  <2>1. \A g \in N5 : g = Fine \/ (g \in N5 /\ g[1] \notin HartThings \cup Report)
        \/ (g[1] \in {"x10", "dpc"} /\ g \in N5 /\ Yes("halted") \in N5)
        \/ g \in N5 \cap {Yes("halted"), Yes("started"), Yes("done"), Yes("unlocked"), Yes("free")}
    BY DEF Yes, Idling, Fine, Report, Ran, Blocks, SetTouched, HartThings
  <2> HIDE DEF N5
  <2> QED BY <1>1, <1>2, <1>3, <2>1, RequestFrame
<1>13. Carries(f, op, L, Both(R \cup N5), W("CONTROL", "resume", "return"), Both(R \cup N6))
  <2>1. \A g \in N6 : g \in {Fine, Yes("started")}
    BY DEF Yes, Idling, Fine, Report, Ran, Blocks, SetTouched, HartThings
  <2>2. LoaderReady(f, op, R \cup N5)
    BY DEF LoaderReady, Prepared, IsCh5, Yes
  <2>3. {Yes("halted"), <<"dpc", "entry">>} \subseteq N5  OBVIOUS
  <2> HIDE DEF N5, N6
  <2> QED BY <1>1, <1>2, <1>3, <2>1, <2>2, <2>3, GoFrame
<1>14. Carries(f, op, L, Both(R \cup N6), W("CONTROL", "idle", "return"), Both(R \cup N6))
  <2>1. \A g \in N6 : g = Fine \/ (g \in N6 /\ g[1] \notin HartThings \cup Report)
        \/ (g[1] \in {"x10", "dpc"} /\ g \in N6 /\ Yes("halted") \in N6)
        \/ g \in N6 \cap {Yes("halted"), Yes("started"), Yes("done"), Yes("unlocked"), Yes("free")}
    BY DEF Yes, Idling, Fine, Report, Ran, Blocks, SetTouched, HartThings
  <2> HIDE DEF N6
  <2> QED BY <1>1, <1>2, <1>3, <2>1, RequestFrame
<1> HIDE DEF N0, N1, N2, N3, N4, N5, N6
<1>15. Carries(f, op, L, Both(R \cup N0), Arguments \o WriteReg("x13", "data", "return")
               \o WriteReg("x2", "stack", "return") \o WriteReg("dcsr", "debug", "return")
                 \o WriteReg("csr300", "zero", "return") \o WriteReg("dpc", "entry", "return")
                   \o W("CONTROL", "halt", "return") \o W("CONTROL", "halt", "return")
                     \o W("CONTROL", "idle", "return") \o W("CONTROL", "resume", "return")
                       \o W("CONTROL", "idle", "return"), Both(R \cup N6))
  BY <1>4, <1>5, <1>6, <1>7, <1>8, <1>9, <1>10, <1>11, <1>12, <1>13, <1>14, Chain11
<1> QED BY <1>15 DEF N0, N1, N2, N3, N4, N5, N6

\* The result of the loader is read.
LEMMA ResultCarries ==
  ASSUME NEW f, NEW op, NEW L, NEW R, NEW Z, Frame(op, "return", R, Z), LoaderTouched \subseteq Z
  PROVE  Carries(f, op, L, Both(R \cup {Yes("halted"), Yes("done")}), ReadReg("x10", "return"),
                 At(R \cup {Yes("halted"), <<"value", "result">>}, {}))
<1> DEFINE N0 == {Yes("halted"), Yes("done")}
           N1 == {Yes("halted")}
           N2 == {<<"data0", "result">>}
           N3 == {Yes("halted"), <<"data0", "result">>}
           N4 == {Yes("halted"), <<"value", "result">>}
<1>1. /\ Report \subseteq Z
      /\ {"data0", "loose", "last"} \cup Report \subseteq Z
      /\ {"value", "answer", "steady"} \subseteq Z
  BY DEF LoaderTouched, HartThings, Report, Ran, SetTouched, Frame
<1>2. Report \subseteq Z /\ \A g \in R : g[1] \notin Z  BY DEF Frame
<1>3. Yes("sure") \notin N0 \cup N1 \cup N2 \cup N3 \cup N4
  BY DEF Yes, Idling, Fine, Report, Ran, Blocks, SetTouched
<1>4. Carries(f, op, L, At(R \cup N0, {}), Clear("return"), At(R \cup N0, {}))
  <2>1. \A g \in N0 : g = Fine \/ (g \in N0 /\ g[1] \notin Report)
    BY DEF Yes, Idling, Fine, Report, Ran, Blocks, SetTouched
  <2> HIDE DEF N0
  <2> QED BY <1>1, <1>2, <1>3, <2>1, ClearFrame DEF Clear
<1>5. Carries(f, op, L, At(R \cup N0, {}), W("COMMAND", GetReg("x10"), "return"), At(R \cup N1, N2))
  <2>1. \A g \in N1 : g = Fine \/ (g \in N0 /\ g[1] \notin {"data0", "loose", "last"} \cup Report)
    BY DEF Yes, Idling, Fine, Report, Ran, Blocks, SetTouched
  <2>2. \A g \in N2 : (g \in N0 \cup {} /\ g[1] \notin {"data0", "loose", "last"} \cup Report) \/
          g \in {Yes("halted"), Idling, Yes("steady")}
        \/ (g[1] = "data0" /\ "x10" = "x8" /\ <<"x10", g[2]>> \in N0 \cup {})
        \/ (g = <<"data0", "result">> /\ "x10" = "x10" /\ Yes("done") \in N0 \cup {})
    BY DEF Yes, Idling, Fine, Report, Ran, Blocks, SetTouched
  <2>3. "x10" \in Regs  BY DEF Regs
  <2> HIDE DEF N0, N1, N2
  <2> QED BY <1>1, <1>2, <1>3, <2>1, <2>2, <2>3, GetFrame
<1>6. Carries(f, op, L, At(R \cup N1, N2), Status("return"), Both(R \cup N3))
  <2>1. \A g \in N3 : g = Fine \/ (g \in N1 \cup N2 /\ g[1] \notin Report)
    BY DEF Yes, Idling, Fine, Report, Ran, Blocks, SetTouched
  <2> HIDE DEF N1, N2, N3
  <2> QED BY <1>1, <1>2, <1>3, <2>1, StatusFrame
<1>7. Carries(f, op, L, At(R \cup N3, {}), Read("return"), At(R \cup N4, {}))
  <2>1. \A g \in N4 : g = Fine \/
          (g \in N3 /\ g[1] \notin {"value", "answer", "steady"} \cup Report) \/
            (g[1] = "value" /\ <<"data0", g[2]>> \in N3)
        \/ (g = Yes("answer") /\ <<"data0", "a1">> \in N3 \cup {})
    BY DEF Yes, Idling, Fine, Report, Ran, Blocks, SetTouched
  <2> HIDE DEF N3, N4
  <2> QED BY <1>1, <1>2, <1>3, <2>1, ReadFrame
<1>8. Covers(Both(R \cup N3), At(R \cup N3, {}))  BY BothCovers, CoversSelf
<1>9. Carries(f, op, L, At(R \cup N1, N2), Status("return"), At(R \cup N3, {}))
  BY <1>6, <1>8, CarriesCovers, CoversSelf
<1> HIDE DEF N0, N1, N2, N3, N4
<1>10. Carries(f, op, L, At(R \cup N0, {}), ReadReg("x10", "return"), At(R \cup N4, {}))
  BY <1>4, <1>5, <1>9, <1>7, Chain4 DEF ReadReg
<1>11. Covers(Both(R \cup N0), At(R \cup N0, {}))  BY BothCovers
<1>12. Carries(f, op, L, Both(R \cup N0), ReadReg("x10", "return"), At(R \cup N4, {}))
  BY <1>10, <1>11, CarriesCovers, CoversSelf
<1> QED BY <1>12 DEF N0, N1, N2, N3, N4

\* What holds when the arguments of the loader are written.
LoaderFrom(f) == CASE f = "X03X" -> {Idling,
                                     Yes("unlocked")} [] f = "V20X" -> {Yes("kept")} [] OTHER -> {Idling}
\* The loader starts, with all its arguments.
LEMMA StartCarries ==
  ASSUME NEW f \in AllFamilies, NEW op, NEW L, NEW R, NEW Z, Frame(op, "return", R, Z),
         Prepared(f, op, R),
         LoaderTouched \cup (IF f = "V20X" THEN {} ELSE {"dcsr"}) \subseteq Z,
         f = "V20X" /\ op = "initialize" => <<"dcsr", "debug">> \in R,
         NEW first, (first = TRUE /\ op = "initialize") \/ (first = FALSE /\ op # "initialize")
  PROVE  Carries(f, op, L, Both(R \cup LoaderFrom(f)), StartLoader(f, first),
                 Both(R \cup {Fine, Yes("started")}))
<1>1. CASE f = "X03X" /\ first = TRUE
  <2>1. StartLoader(f, first) = WriteReg("dcsr", "debug", "return") \o Arguments
          \o WriteReg("x2", "stack", "return")
                                  \o WriteReg("dpc", "entry", "return")
                                    \o W("CONTROL", "resume", "return")
    BY <1>1 DEF StartLoader, DebugControl, Stack, Entry, Go
  <2>2. LoaderFrom(f) = {Idling, Yes("unlocked")} /\ LoaderTouched \cup {"dcsr"} \subseteq Z
    BY <1>1 DEF LoaderFrom
  <2>4. Carries(f, op, L, Both(R \cup {Idling, Yes("unlocked")}),
           WriteReg("dcsr", "debug", "return") \o Arguments \o WriteReg("x2", "stack", "return")
             \o WriteReg("dpc", "entry", "return")
             \o W("CONTROL", "resume", "return"),
           Both(R \cup {Fine, Yes("started")}))
    BY <1>1, <2>2, StartX03XFirst
  <2> QED BY <2>1, <2>2, <2>4
<1>2. CASE f = "X03X" /\ first = FALSE
  <2>1. StartLoader(f, first) = WriteReg("csr300", "zero", "return") \o Arguments
          \o WriteReg("x2", "stack", "return")
                                  \o WriteReg("dpc", "entry", "return")
                                    \o W("CONTROL", "resume", "return")
    BY <1>2 DEF StartLoader, Interrupts, Stack, Entry, Go
  <2>2. LoaderFrom(f) = {Idling, Yes("unlocked")} /\ LoaderTouched \subseteq Z
    BY <1>2 DEF LoaderFrom
  <2>3. op # "initialize"  BY <1>2
  <2>4. Carries(f, op, L, Both(R \cup {Idling, Yes("unlocked")}),
           WriteReg("csr300", "zero", "return") \o Arguments \o WriteReg("x2", "stack", "return")
             \o WriteReg("dpc", "entry", "return")
             \o W("CONTROL", "resume", "return"),
           Both(R \cup {Fine, Yes("started")}))
    BY <1>2, <2>2, <2>3, StartX03X
  <2> QED BY <2>1, <2>2, <2>4
<1>3. CASE f = "L103"
  <2>1. StartLoader(f, first) = Arguments \o WriteReg("x2", "stack", "return")
          \o WriteReg("dcsr", "debug", "return")
                                  \o WriteReg("csr300", "zero", "return")
                                  \o WriteReg("dpc", "entry", "return")
                                    \o W("CONTROL", "resume", "return")
    BY <1>3 DEF StartLoader, DebugControl, Interrupts, Stack, Entry, Go
  <2>2. LoaderFrom(f) = {Idling} /\ LoaderTouched \cup {"dcsr"} \subseteq Z  BY <1>3 DEF LoaderFrom
  <2>4. Carries(f, op, L, Both(R \cup {Idling}),
           Arguments \o WriteReg("x2", "stack", "return") \o WriteReg("dcsr", "debug", "return")
             \o WriteReg("csr300", "zero", "return") \o WriteReg("dpc", "entry", "return")
             \o W("CONTROL", "resume", "return"),
           Both(R \cup {Fine, Yes("started")}))
    BY <1>3, <2>2, StartL103
  <2> QED BY <2>1, <2>2, <2>4
<1>4. CASE f = "V20X"
  <2>1. StartLoader(f, first) = Arguments \o WriteReg("csr300", "zero", "return")
          \o WriteReg("x2", "stack", "return")
                                  \o WriteReg("dpc", "entry", "return")
                                    \o W("CONTROL", "resume", "return")
    BY <1>4 DEF StartLoader, Interrupts, Stack, Entry, Go
  <2>2. LoaderFrom(f) = {Yes("kept")} /\ LoaderTouched \subseteq Z  BY <1>4 DEF LoaderFrom
  <2>3. op = "initialize" => <<"dcsr", "debug">> \in R  BY <1>4
  <2>4. Carries(f, op, L, Both(R \cup {Yes("kept")}),
           Arguments \o WriteReg("csr300", "zero", "return") \o WriteReg("x2", "stack", "return")
             \o WriteReg("dpc", "entry", "return")
             \o W("CONTROL", "resume", "return"),
           Both(R \cup {Fine, Yes("started")}))
    BY <1>4, <2>2, <2>3, StartV20X
  <2> QED BY <2>1, <2>2, <2>4
<1>5. CASE f \in {"V30X", "CH58X", "CH59X"}
  <2>1. StartLoader(f, first) = Arguments \o WriteReg("x13", "data", "return")
          \o WriteReg("x2", "stack", "return")
                                  \o WriteReg("dcsr", "debug", "return")
                                    \o WriteReg("csr300", "zero", "return")
                                  \o WriteReg("dpc", "entry", "return")
                                    \o W("CONTROL", "halt", "return")
                                  \o W("CONTROL", "halt", "return")
                                    \o W("CONTROL", "idle", "return")
                                  \o W("CONTROL", "resume", "return")
                                    \o W("CONTROL", "idle", "return")
    <3>1. f # "X03X" /\ f # "L103" /\ f # "V20X"  BY <1>5
    <3> QED BY <3>1 DEF StartLoader, DebugControl, Interrupts, Stack, Entry, Go
  <2>2. LoaderFrom(f) = {Idling} /\ LoaderTouched \cup {"dcsr"} \subseteq Z  BY <1>5 DEF LoaderFrom
  <2>4. Carries(f, op, L, Both(R \cup {Idling}),
           Arguments \o WriteReg("x13", "data", "return") \o WriteReg("x2", "stack", "return")
             \o WriteReg("dcsr", "debug", "return") \o WriteReg("csr300", "zero", "return")
               \o WriteReg("dpc", "entry", "return") \o W("CONTROL", "halt", "return")
                 \o W("CONTROL", "halt", "return") \o W("CONTROL", "idle", "return")
             \o W("CONTROL", "resume", "return") \o W("CONTROL", "idle", "return"),
           Both(R \cup {Fine, Yes("started")}))
    BY <1>5, <2>2, StartOthers
  <2> QED BY <2>1, <2>2, <2>4
<1> QED BY <1>1, <1>2, <1>3, <1>4, <1>5 DEF AllFamilies

\* The loader runs and its result is read.
LEMMA ExecuteCarries ==
  ASSUME NEW f \in AllFamilies, NEW op, NEW L, NEW R, NEW Z, Frame(op, "return", R, Z),
         Prepared(f, op, R),
         LoaderTouched \cup (IF f = "V20X" THEN {} ELSE {"dcsr"}) \subseteq Z,
         f = "V20X" /\ op = "initialize" => <<"dcsr", "debug">> \in R,
         NEW first, (first = TRUE /\ op = "initialize") \/ (first = FALSE /\ op # "initialize")
  PROVE  Carries(f, op, L, Both(R \cup LoaderFrom(f)), Execute(f, first),
                 Both(R \cup {Yes("halted"), <<"value", "result">>}))
<1> DEFINE A == Both(R \cup {Fine, Yes("started")})
           B == Both(R \cup {Yes("halted"), Yes("done")})
           C == Both(R \cup {Yes("halted"), <<"value", "result">>})
<1>1. Carries(f, op, L, Both(R \cup LoaderFrom(f)), StartLoader(f, first), A)  BY StartCarries
<1>2. A.s = R \cup {Fine, Yes("started")} /\ B.s = R \cup {Yes("halted"), Yes("done")} /\ B.p = B.s
  BY DEF Both, At
<1>3. Yes("kept") \in R /\ Exit(op, "return", R) /\ (\A g \in R : g[1] \notin Report) /\
        LoaderTouched \subseteq Z
  BY DEF Frame
<1>4. Carries(f, op, L, B, ReadReg("x10", "return"),
              At(R \cup {Yes("halted"), <<"value", "result">>}, {}))
  BY <1>3, ResultCarries
<1>5. Carries(f, op, L, B, ReadReg("x10", "return"), C)
  <2>1. Covers(At(R \cup {Yes("halted"), <<"value", "result">>}, {}), C)  BY BothCovers
  <2> QED BY <1>4, <2>1, CarriesCovers, CoversSelf
<1> HIDE DEF A, B, C
<1>6. Yes("kept") \in A.s /\ Exit(op, "return", A.s)  BY <1>2, <1>3 DEF Exit
<1>7. Yes("sure") \in B.s => Yes("sure") \in A.s  BY <1>2 DEF Yes
<1>8. \A g \in B.s \cup B.p : \/ g = Fine
                              \/ g \in A.s /\ g[1] \notin Report
                              \/ g = Yes("halted")
                              \/ g = Yes("done") /\ Yes("started") \in A.s
  BY <1>2, <1>3
<1>9. Carries(f, op, L, A, Hart("halted", "return"), B)  BY <1>6, <1>7, <1>8, HartCarries
<1>10. Carries(f, op, L, Both(R \cup LoaderFrom(f)), Execute(f, first), C)
  BY <1>1, <1>5, <1>9, Chain3 DEF Execute
<1> QED BY <1>10 DEF C

\* What rvswd_flash_ch58x_59x_enable_code_mode changes.
CodeTouched == {"prog", "sync", "data0", "loose", "x10", "x11", "x12", "x13", "started",
                "done"} \cup Ran

\* rvswd_flash_ch58x_59x_enable_code_mode
LEMMA CodeModeCarries ==
  ASSUME NEW f, NEW op, NEW L, NEW Y, NEW R, NEW Z, Frame(op, "return", R, Z),
         CodeTouched \subseteq Z,
         Yes("sure") \in R, Y \subseteq {Yes("sync")}, Y # {} => <<"mode", "none">> \in R,
         \A g \in R : g[1] \in {"auto", "off", "calm"} => g \in {Mute, Yes("off"), Yes("calm")}
  PROVE  Carries(f, op, L, Both(R \cup {Idling}), EnableCodeMode,
                 Both(R \cup {Idling, Yes("steady"), Fine, <<"prog", "code">>} \cup Y))
<1> DEFINE N0 == {Idling}
           N1 == {Idling, Yes("steady")}
           N2 == {Idling, <<"prog", "code">>} \cup Y
           N3 == {<<"prog", "code">>} \cup Y
           N4 == {Idling, Yes("steady"), Fine, <<"prog", "code">>} \cup Y
<1>1. /\ {"data0", "loose", "steady"} \cup SetTouched("x13") \subseteq Z
      /\ {"data0", "loose", "steady"} \cup SetTouched("x10") \subseteq Z
      /\ {"data0", "loose", "steady"} \cup SetTouched("x11") \subseteq Z
      /\ {"data0", "loose", "steady"} \cup SetTouched("x12") \subseteq Z
      /\ Report \subseteq Z
      /\ {"prog", "sync"} \cup Report \subseteq Z
      /\ Ran \subseteq Z
  BY DEF CodeTouched, HartThings, Report, Ran, SetTouched, Frame
<1>2. Report \subseteq Z /\ \A g \in R : g[1] \notin Z  BY DEF Frame
<1>3. Yes("sure") \notin N0 \cup N1 \cup N2 \cup N3 \cup N4
  BY DEF Yes, Idling, Fine, Report, Ran, Blocks, SetTouched
<1>4. Carries(f, op, L, Both(R \cup N0), WriteReg("x13", "&key", "return"), Both(R \cup N1))
  <2>1. \A g \in N1 : g \in {Fine, Yes("halted"), Idling, Yes("steady"), <<"x13", "&key">>}
        \/ (g \in N0 /\ g[1] \notin {"data0", "loose", "steady"} \cup SetTouched("x13"))
    BY DEF Yes, Idling, Fine, Report, Ran, Blocks, SetTouched
  <2>2. "x13" \in Regs  BY DEF Regs
  <2>3. Idling \in R \cup N0  OBVIOUS
  <2> HIDE DEF N0, N1
  <2> QED BY <1>1, <1>2, <1>3, <2>1, <2>2, <2>3, RegFrame
<1>5. Carries(f, op, L, Both(R \cup N1), WriteReg("x10", "57", "return"), Both(R \cup N1))
  <2>1. \A g \in N1 : g \in {Fine, Yes("halted"), Idling, Yes("steady"), <<"x10", "57">>}
        \/ (g \in N1 /\ g[1] \notin {"data0", "loose", "steady"} \cup SetTouched("x10"))
    BY DEF Yes, Idling, Fine, Report, Ran, Blocks, SetTouched
  <2>2. "x10" \in Regs  BY DEF Regs
  <2>3. Idling \in R \cup N1  OBVIOUS
  <2> HIDE DEF N1
  <2> QED BY <1>1, <1>2, <1>3, <2>1, <2>2, <2>3, RegFrame
<1>6. Carries(f, op, L, Both(R \cup N1), WriteReg("x11", "a8", "return"), Both(R \cup N1))
  <2>1. \A g \in N1 : g \in {Fine, Yes("halted"), Idling, Yes("steady"), <<"x11", "a8">>}
        \/ (g \in N1 /\ g[1] \notin {"data0", "loose", "steady"} \cup SetTouched("x11"))
    BY DEF Yes, Idling, Fine, Report, Ran, Blocks, SetTouched
  <2>2. "x11" \in Regs  BY DEF Regs
  <2>3. Idling \in R \cup N1  OBVIOUS
  <2> HIDE DEF N1
  <2> QED BY <1>1, <1>2, <1>3, <2>1, <2>2, <2>3, RegFrame
<1>7. Carries(f, op, L, Both(R \cup N1), WriteReg("x12", "e0", "return"), Both(R \cup N1))
  <2>1. \A g \in N1 : g \in {Fine, Yes("halted"), Idling, Yes("steady"), <<"x12", "e0">>}
        \/ (g \in N1 /\ g[1] \notin {"data0", "loose", "steady"} \cup SetTouched("x12"))
    BY DEF Yes, Idling, Fine, Report, Ran, Blocks, SetTouched
  <2>2. "x12" \in Regs  BY DEF Regs
  <2>3. Idling \in R \cup N1  OBVIOUS
  <2> HIDE DEF N1
  <2> QED BY <1>1, <1>2, <1>3, <2>1, <2>2, <2>3, RegFrame
<1>8. Carries(f, op, L, Both(R \cup N1), W("ABSTRACTAUTO", "off", "return"), Both(R \cup N0))
  <2>1. \A g \in N0 : g \in {Fine, Yes("off")} \/
          (g \in N1 /\ g[1] \notin {"auto", "off", "calm"} \cup Report)
    BY DEF Yes, Idling, Fine, Report, Ran, Blocks, SetTouched
  <2>2. Yes("steady") \in N1  OBVIOUS
  <2> HIDE DEF N1, N0
  <2> QED BY <1>1, <1>2, <1>3, <2>1, <2>2, OffFrame
<1>9. Carries(f, op, L, At(R \cup N0, {}), Clear("return"), At(R \cup N0, {}))
  <2>1. \A g \in N0 : g = Fine \/ (g \in N0 /\ g[1] \notin Report)
    BY DEF Yes, Idling, Fine, Report, Ran, Blocks, SetTouched
  <2> HIDE DEF N0
  <2> QED BY <1>1, <1>2, <1>3, <2>1, ClearFrame DEF Clear
<1>10. Carries(f, op, L, At(R \cup N0, {}), W("PROGBUF", "code", "return"), At(R \cup N2, {}))
  <2>1. \A g \in N2 : g = Fine \/ (g \in N0 /\ g[1] \notin {"prog", "sync"} \cup Report) \/
          (g = <<"prog", "code">> /\ Idling \in R \cup N0)
        \/ (g = Yes("sync") /\ <<"mode", "none">> \in R \cup N0)
    BY DEF Yes, Idling, Fine, Report, Ran, Blocks, SetTouched
  <2> HIDE DEF N0, N2
  <2> QED BY <1>1, <1>2, <1>3, <2>1, ProgFrame
<1>11. Carries(f, op, L, At(R \cup N2, {}), W("COMMAND", Run, "return"), At(R \cup N3, {}))
  <2>1. \A g \in N3 : g = Fine \/ (g \in N2 /\ g[1] \notin Ran)
    BY DEF Yes, Idling, Fine, Report, Ran, Blocks, SetTouched
  <2>2. <<"prog", "code">> \in N2  OBVIOUS
  <2> HIDE DEF N2, N3
  <2> QED BY <1>1, <1>2, <1>3, <2>1, <2>2, RunCodeFrame
<1>12. Carries(f, op, L, At(R \cup N3, {}), Idle("return"), Both(R \cup N4))
  <2>1. \A g \in N4 : g \in {Idling, Yes("steady"), Fine} \/
          (g \in N3 \cup {} /\ g[1] \notin Report)
    BY DEF Yes, Idling, Fine, Report, Ran, Blocks, SetTouched
  <2> HIDE DEF N3, N4
  <2> QED BY <1>1, <1>2, <1>3, <2>1, IdleFrame
<1>13. Covers(Both(R \cup N0), At(R \cup N0, {}))  BY BothCovers, CoversSelf
<1>14. Carries(f, op, L, Both(R \cup N1), W("ABSTRACTAUTO", "off", "return"), At(R \cup N0, {}))
  BY <1>8, <1>13, CarriesCovers, CoversSelf
<1> HIDE DEF N0, N1, N2, N3, N4
<1>15. Carries(f, op, L, Both(R \cup N0), EnableCodeMode, Both(R \cup N4))
  BY <1>4, <1>5, <1>6, <1>7, <1>14, <1>9, <1>10, <1>11, <1>12, Chain9 DEF EnableCodeMode
<1> QED BY <1>15 DEF N0, N1, N2, N3, N4

-----------------------------------------------------------------------------
(* The flash port of the CH58x (rvswd_flash_ch58x_59x.c).                  *)

\* What a byte access changes.
ByteTouched == ByteThings \cup PortThings \cup Report
\* A byte access in a frame.
LEMMA PortFrame ==
  ASSUME NEW f, NEW op, NEW L, NEW b, NEW reg, NEW R, NEW Z, Frame(op, "return", R, Z),
         ByteTouched \subseteq Z,
         NEW N, NEW T, Yes("sure") \notin T, ByteAsks(b, reg, N),
         \A g \in T : ByteGives(b, reg, N, g)
  PROVE  Carries(f, op, L, Both(R \cup N), <<Access("byte", reg, b, "return")>>, Both(R \cup T))
<1> DEFINE A == Both(R \cup N)
           B == Both(R \cup T)
           x == Access("byte", reg, b, "return")
<1>1. A.s = R \cup N /\ A.p = R \cup N /\ B.s = R \cup T /\ B.p = R \cup T  BY DEF At, Both
<1>2. x.do = "byte" /\ x.fail = "return" /\ x.reg = reg /\ x.val = b  BY DEF Access
<1>3. Exit(op, "return", R) /\ Yes("kept") \in R /\ \A g \in R : g[1] \notin ByteTouched
  BY DEF Frame
<1> HIDE DEF A, B, x
<1>4. N \subseteq A.s /\ \A g \in A.s : g[1] \in ByteTouched => g \in N  BY <1>1, <1>3
<1>5. \A g \in {<<"prog", "code">>, <<"mode", "write8">>} : g \in A.s => g \in N
  BY <1>4 DEF ByteTouched, ByteThings
<1>6. (Reached(b, N) => Reached(b, A.s)) /\ (Unreached(b, N) => Unreached(b, A.s))
  BY <1>4, <1>5 DEF Reached, Unreached
<1>7. ByteAsks(b, reg, A.s)  BY <1>4, <1>6 DEF ByteAsks
<1>8. \A g : Port(reg, b.val, N, g) => Port(reg, b.val, A.s, g)  BY <1>4 DEF Port
<1>9. \A g \in B.s : ByteGives(b, reg, A.s, g)
  <2>1. ASSUME NEW g \in T PROVE ByteGives(b, reg, A.s, g)
    BY <1>4, <1>6, <1>8, <2>1 DEF ByteGives, Keep
  <2>2. ASSUME NEW g \in R PROVE ByteGives(b, reg, A.s, g)
    BY <1>1, <1>3, <2>2 DEF ByteGives, Keep, ByteTouched
  <2> QED BY <1>1, <2>1, <2>2
<1>10. Asks(f, op, x, A)  BY <1>1, <1>2, <1>3, <1>7 DEF Asks
<1>11. Exits(f, op, x, A)  BY <1>1, <1>2, <1>3 DEF Exits, Returns, Exit
<1>12. Yes("sure") \in B.s => Yes("sure") \in A.s  BY <1>1
<1>13. \A g \in B.s \cup B.p : \A sure \in BOOLEAN : Gives(f, x, A, g, sure)
  BY <1>1, <1>2, <1>9 DEF Gives
<1>14. Passes(f, op, x, A, B)  BY <1>10, <1>11, <1>12, <1>13, PassesWhen
<1>15. Carries(f, op, L, A, <<x>>, B)  BY <1>2, <1>14, CarriesOne
<1> QED BY <1>15 DEF A, B, x

\* A byte for the command port.
LEMMA ReachFrame ==
  ASSUME NEW f, NEW op, NEW L, NEW reg \in {"data", "control"}, NEW v, NEW R, NEW Z,
         Frame(op, "return", R, Z),
         ByteTouched \subseteq Z, NEW N, NEW T, Yes("sure") \notin T,
         Yes("sync") \in N, <<"prog", "code">> \notin N,
         reg = "control" => v \in {"open", "begin", "end"},
         reg = "control" /\ v = "end" =>
            Yes("closed") \in N \/ (<<"port", "erase">> \in N /\ <<"pn", 3>> \in N) \/
              <<"port", "program">> \in N,
         \A g \in T : g \in {Idling, Yes("sync"), <<"mode", "write8">>} \/ Port(reg, v, N, g)
  PROVE  Carries(f, op, L, Both(R \cup N), Write8(reg, v), Both(R \cup T))
<1> DEFINE b == [rw |-> "write8", val |-> v]
<1>1. b.rw = "write8" /\ b.val = v  OBVIOUS
<1>2. Write8(reg, v) = <<Access("byte", reg, b, "return")>>  BY DEF Write8, Byte
<1> HIDE DEF b
<1>3. Reached(b, N)  BY <1>1 DEF Reached
<1>4. ByteAsks(b, reg, N)  BY <1>1, <1>3 DEF ByteAsks
<1>5. \A g \in T : ByteGives(b, reg, N, g)  BY <1>1, <1>3 DEF ByteGives
<1> QED BY <1>2, <1>4, <1>5, PortFrame

\* A byte that the program of the code mode swallows.
LEMMA SwallowedFrame ==
  ASSUME NEW f, NEW op, NEW L, NEW reg, NEW v, NEW R, NEW Z, Frame(op, "return", R, Z),
         ByteTouched \subseteq Z, NEW N, NEW T, Yes("sure") \notin T,
         reg = "control" => v \in {"open", "begin", "end"},
         {<<"prog", "code">>, <<"mode", "write8">>} \subseteq N,
         \A g \in T : g \in {Idling, <<"prog", "code">>, <<"mode", "write8">>} \/
           (g \in N /\ g[1] \in PortThings)
  PROVE  Carries(f, op, L, Both(R \cup N), Write8(reg, v), Both(R \cup T))
<1> DEFINE b == [rw |-> "write8", val |-> v]
<1>1. b.rw = "write8" /\ b.val = v  OBVIOUS
<1>2. Write8(reg, v) = <<Access("byte", reg, b, "return")>>  BY DEF Write8, Byte
<1> HIDE DEF b
<1>3. Unreached(b, N)  BY <1>1 DEF Unreached
<1>4. ByteAsks(b, reg, N)  BY <1>1, <1>3 DEF ByteAsks
<1>5. \A g \in T : ByteGives(b, reg, N, g)  BY <1>1, <1>3 DEF ByteGives
<1> QED BY <1>2, <1>4, <1>5, PortFrame

\* A byte is read.
LEMMA ReadByteFrame ==
  ASSUME NEW f, NEW op, NEW L, NEW reg, NEW R, NEW Z, Frame(op, "return", R, Z),
         ByteTouched \subseteq Z, NEW N, NEW T, Yes("sure") \notin T,
         \A g \in T : \/ g \in {Idling, <<"mode", "read8">>} \/ (g \in N /\ g[1] \in PortThings)
                      \/ g = Yes("sync") /\ (Yes("sync") \in N \/ <<"mode", "write8">> \in N)
  PROVE  Carries(f, op, L, Both(R \cup N), Read8(reg), Both(R \cup T))
<1> DEFINE b == [rw |-> "read8", val |-> ""]
<1>1. b.rw = "read8"  OBVIOUS
<1>2. Read8(reg) = <<Access("byte", reg, b, "return")>>  BY DEF Read8, Byte
<1> HIDE DEF b
<1>3. Unreached(b, N)  BY <1>1 DEF Unreached
<1>4. ByteAsks(b, reg, N)  BY <1>1, <1>3 DEF ByteAsks
<1>5. \A g \in T : ByteGives(b, reg, N, g)  BY <1>1, <1>3 DEF ByteGives
<1> QED BY <1>2, <1>4, <1>5, PortFrame

\* The status byte of the flash.
LEMMA ReadyFrame ==
  ASSUME NEW f, NEW op, NEW L, NEW R, NEW Z, Frame(op, "return", R, Z),
         {"page"} \cup Report \subseteq Z,
         NEW N, NEW T, Yes("sure") \notin T, Yes("closed") \in N,
         \A g \in T : \/ g \in N /\ g[1] \notin {"page"} \cup Report
                      \/ g = <<"page", "erased">> /\ <<"page", "erasing">> \in N
                      \/ g = <<"page", "new">> /\ <<"page", "programming">> \in N
  PROVE  Carries(f, op, L, Both(R \cup N), <<Access("ready", "", "", "return")>>, Both(R \cup T))
<1> DEFINE A == Both(R \cup N)
           B == Both(R \cup T)
           x == Access("ready", "", "", "return")
<1>1. A.s = R \cup N /\ A.p = R \cup N /\ B.s = R \cup T /\ B.p = R \cup T  BY DEF At, Both
<1>2. x.do = "ready" /\ x.fail = "return"  BY DEF Access
<1>3. Exit(op, "return", R) /\ Yes("kept") \in R /\ \A g \in R : g[1] \notin {"page"} \cup Report
  BY DEF Frame
<1> HIDE DEF A, B, x
<1>4. Asks(f, op, x, A) /\ Exits(f, op, x, A)  BY <1>1, <1>2, <1>3 DEF Asks, Exits, Returns, Exit
<1>5. \A g \in B.s \cup B.p : \A sure \in BOOLEAN : Gives(f, x, A, g, sure)
  BY <1>1, <1>2, <1>3 DEF Gives, Keep, From
<1>6. Yes("sure") \in B.s => Yes("sure") \in A.s  BY <1>1
<1>7. Passes(f, op, x, A, B)  BY <1>4, <1>5, <1>6, PassesWhen
<1>8. Carries(f, op, L, A, <<x>>, B)  BY <1>2, <1>7, CarriesOne
<1> QED BY <1>8 DEF A, B, x

\* What a byte access changes; what is known between the commands of the port.
Resting(q) == {Idling, Yes("sync"), <<"mode", "write8">>, <<"port", "none">>, Yes("closed"),
               <<"page", q>>}
\* The port after the code of the command c was sent.
Sent(c, q) ==
  {Idling, Yes("sync"), <<"mode", "write8">>, <<"port", c>>, <<"pn", 0>>, <<"page", q>>}
    \cup (IF c \in {"erase", "program"} THEN {} ELSE {Yes("closed")})
\* A command is issued.
LEMMA IssueSet ==
  ASSUME NEW f, NEW op, NEW L, NEW q, NEW c, NEW K, NEW R, NEW Z, Frame(op, "return", R, Z),
         ByteTouched \subseteq Z,
         K \subseteq {Yes("closed")}, K # {} => c \notin {"erase", "program"}
  PROVE  Carries(f, op, L,
                 Both(R
                      \cup {Idling, Yes("sync"), <<"mode", "write8">>, <<"port", "none">>,
                            Yes("closed"), <<"page", q>>}), Issue(c),
                 Both(R
                      \cup {Idling, Yes("sync"), <<"mode", "write8">>, <<"port", c>>, <<"pn", 0>>,
                            <<"page", q>>} \cup K))
<1> DEFINE N0 == {Idling, Yes("sync"), <<"mode", "write8">>, <<"port", "none">>, Yes("closed"),
                  <<"page", q>>}
           N1 == {Idling, Yes("sync"), <<"mode", "write8">>, <<"port", "await">>, <<"pn", 0>>,
                  Yes("closed"), <<"page", q>>}
           N2 == {Idling, Yes("sync"), <<"mode", "write8">>, <<"port", c>>, <<"pn", 0>>,
                  <<"page", q>>} \cup K
<1>1. /\ ByteTouched \subseteq Z
  BY DEF ByteThings, PortThings, ByteTouched, Report, Ran, SetTouched, Frame
<1>2. Report \subseteq Z /\ \A g \in R : g[1] \notin Z  BY DEF Frame
<1>3. Yes("sure") \notin N0 \cup N1 \cup N2
  BY DEF Yes, Idling, Fine, Report, Ran, Blocks, SetTouched, Port, PortThings
<1>4. Carries(f, op, L, Both(R \cup N0), Write8("control", "end"), Both(R \cup N0))
  <2>1. \A g \in N0 : g \in {Idling, Yes("sync"), <<"mode", "write8">>} \/
          Port("control", "end", N0, g)
    BY DEF Yes, Idling, Fine, Report, Ran, Blocks, SetTouched, Port, PortThings
  <2>2. Yes("sync") \in N0 /\ <<"prog", "code">> \notin N0  BY DEF Yes, Idling
  <2>3. Yes("closed") \in N0 \/ (<<"port", "erase">> \in N0 /\ <<"pn", 3>> \in N0) \/
          <<"port", "program">> \in N0
    OBVIOUS
  <2> HIDE DEF N0
  <2> QED BY <1>1, <1>2, <1>3, <2>1, <2>2, <2>3, ReachFrame
<1>5. Carries(f, op, L, Both(R \cup N0), Write8("control", "begin"), Both(R \cup N1))
  <2>1. \A g \in N1 : g \in {Idling, Yes("sync"), <<"mode", "write8">>} \/
          Port("control", "begin", N0, g)
    BY DEF Yes, Idling, Fine, Report, Ran, Blocks, SetTouched, Port, PortThings
  <2>2. Yes("sync") \in N0 /\ <<"prog", "code">> \notin N0  BY DEF Yes, Idling
  <2> HIDE DEF N0, N1
  <2> QED BY <1>1, <1>2, <1>3, <2>1, <2>2, ReachFrame
<1>6. Carries(f, op, L, Both(R \cup N1), Write8("data", c), Both(R \cup N2))
  <2>1. \A g \in N2 : g \in {Idling, Yes("sync"), <<"mode", "write8">>} \/ Port("data", c, N1, g)
    BY DEF Yes, Idling, Fine, Report, Ran, Blocks, SetTouched, Port, PortThings
  <2>2. Yes("sync") \in N1 /\ <<"prog", "code">> \notin N1  BY DEF Yes, Idling
  <2> HIDE DEF N1, N2
  <2> QED BY <1>1, <1>2, <1>3, <2>1, <2>2, ReachFrame
<1> HIDE DEF N0, N1, N2
<1>7. Carries(f, op, L, Both(R \cup N0), Issue(c), Both(R \cup N2))
  BY <1>4, <1>5, <1>6, Chain3 DEF Issue
<1> QED BY <1>7 DEF N0, N1, N2

\* A command that changes nothing ends.
LEMMA EndSet ==
  ASSUME NEW f, NEW op, NEW L, NEW q, NEW R, NEW Z, Frame(op, "return", R, Z),
         ByteTouched \subseteq Z
  PROVE  Carries(f, op, L, Both(R \cup {Yes("sync"), Yes("closed"), <<"page", q>>}), End,
                 Both(R
                      \cup {Idling, Yes("sync"), <<"mode", "write8">>, <<"port", "none">>,
                            Yes("closed"), <<"page", q>>}))
<1> DEFINE N0 == {Yes("sync"), Yes("closed"), <<"page", q>>}
           N1 == {Idling, Yes("sync"), <<"mode", "read8">>, Yes("closed"), <<"page", q>>}
           N2 == {Idling, Yes("sync"), <<"mode", "write8">>, <<"port", "none">>, Yes("closed"),
                  <<"page", q>>}
<1>1. /\ ByteTouched \subseteq Z
  BY DEF ByteThings, PortThings, ByteTouched, Report, Ran, SetTouched, Frame
<1>2. Report \subseteq Z /\ \A g \in R : g[1] \notin Z  BY DEF Frame
<1>3. Yes("sure") \notin N0 \cup N1 \cup N2
  BY DEF Yes, Idling, Fine, Report, Ran, Blocks, SetTouched, Port, PortThings
<1>4. Carries(f, op, L, Both(R \cup N0), Read8("control"), Both(R \cup N1))
  <2>1. \A g \in N1 : g \in {Idling, <<"mode", "read8">>} \/ (g \in N0 /\ g[1] \in PortThings)
        \/ (g = Yes("sync") /\ (Yes("sync") \in N0 \/ <<"mode", "write8">> \in N0))
    BY DEF Yes, Idling, Fine, Report, Ran, Blocks, SetTouched, Port, PortThings
  <2> HIDE DEF N0, N1
  <2> QED BY <1>1, <1>2, <1>3, <2>1, ReadByteFrame
<1>5. Carries(f, op, L, Both(R \cup N1), Write8("control", "end"), Both(R \cup N2))
  <2>1. \A g \in N2 : g \in {Idling, Yes("sync"), <<"mode", "write8">>} \/
          Port("control", "end", N1, g)
    BY DEF Yes, Idling, Fine, Report, Ran, Blocks, SetTouched, Port, PortThings
  <2>2. Yes("sync") \in N1 /\ <<"prog", "code">> \notin N1  BY DEF Yes, Idling
  <2>3. Yes("closed") \in N1 \/ (<<"port", "erase">> \in N1 /\ <<"pn", 3>> \in N1) \/
          <<"port", "program">> \in N1
    OBVIOUS
  <2> HIDE DEF N1, N2
  <2> QED BY <1>1, <1>2, <1>3, <2>1, <2>2, <2>3, ReachFrame
<1> HIDE DEF N0, N1, N2
<1>6. Carries(f, op, L, Both(R \cup N0), End, Both(R \cup N2))
  BY <1>4, <1>5, CarriesThen DEF End
<1> QED BY <1>6 DEF N0, N1, N2

\* The erase of the page begins.
LEMMA EndErase ==
  ASSUME NEW f, NEW op, NEW L, NEW R, NEW Z, Frame(op, "return", R, Z), ByteTouched \subseteq Z
  PROVE  Carries(f, op, L, Both(R \cup {Yes("sync"), <<"port", "erase">>, <<"pn", 3>>}), End,
                 Both(R
                      \cup {Idling, Yes("sync"), <<"mode", "write8">>, <<"port", "none">>,
                            Yes("closed"), <<"page", "erasing">>}))
<1> DEFINE N0 == {Yes("sync"), <<"port", "erase">>, <<"pn", 3>>}
           N1 == {Idling, Yes("sync"), <<"mode", "read8">>, <<"port", "erase">>, <<"pn", 3>>}
           N2 == {Idling, Yes("sync"), <<"mode", "write8">>, <<"port", "none">>, Yes("closed"),
                  <<"page", "erasing">>}
<1>1. /\ ByteTouched \subseteq Z
  BY DEF ByteThings, PortThings, ByteTouched, Report, Ran, SetTouched, Frame
<1>2. Report \subseteq Z /\ \A g \in R : g[1] \notin Z  BY DEF Frame
<1>3. Yes("sure") \notin N0 \cup N1 \cup N2
  BY DEF Yes, Idling, Fine, Report, Ran, Blocks, SetTouched, Port, PortThings
<1>4. Carries(f, op, L, Both(R \cup N0), Read8("control"), Both(R \cup N1))
  <2>1. \A g \in N1 : g \in {Idling, <<"mode", "read8">>} \/ (g \in N0 /\ g[1] \in PortThings)
        \/ (g = Yes("sync") /\ (Yes("sync") \in N0 \/ <<"mode", "write8">> \in N0))
    BY DEF Yes, Idling, Fine, Report, Ran, Blocks, SetTouched, Port, PortThings
  <2> HIDE DEF N0, N1
  <2> QED BY <1>1, <1>2, <1>3, <2>1, ReadByteFrame
<1>5. Carries(f, op, L, Both(R \cup N1), Write8("control", "end"), Both(R \cup N2))
  <2>1. \A g \in N2 : g \in {Idling, Yes("sync"), <<"mode", "write8">>} \/
          Port("control", "end", N1, g)
    BY DEF Yes, Idling, Fine, Report, Ran, Blocks, SetTouched, Port, PortThings
  <2>2. Yes("sync") \in N1 /\ <<"prog", "code">> \notin N1  BY DEF Yes, Idling
  <2>3. Yes("closed") \in N1 \/ (<<"port", "erase">> \in N1 /\ <<"pn", 3>> \in N1) \/
          <<"port", "program">> \in N1
    OBVIOUS
  <2> HIDE DEF N1, N2
  <2> QED BY <1>1, <1>2, <1>3, <2>1, <2>2, <2>3, ReachFrame
<1> HIDE DEF N0, N1, N2
<1>6. Carries(f, op, L, Both(R \cup N0), End, Both(R \cup N2))
  BY <1>4, <1>5, CarriesThen DEF End
<1> QED BY <1>6 DEF N0, N1, N2

\* The page is programmed.
LEMMA EndProgram ==
  ASSUME NEW f, NEW op, NEW L, NEW R, NEW Z, Frame(op, "return", R, Z), ByteTouched \subseteq Z
  PROVE  Carries(f, op, L, Both(R \cup {Yes("sync"), <<"port", "program">>, <<"page", "filled">>}),
                 End,
                 Both(R
                      \cup {Idling, Yes("sync"), <<"mode", "write8">>, <<"port", "none">>,
                            Yes("closed"), <<"page", "programming">>}))
<1> DEFINE N0 == {Yes("sync"), <<"port", "program">>, <<"page", "filled">>}
           N1 == {Idling, Yes("sync"), <<"mode", "read8">>, <<"port", "program">>,
                  <<"page", "filled">>}
           N2 == {Idling, Yes("sync"), <<"mode", "write8">>, <<"port", "none">>, Yes("closed"),
                  <<"page", "programming">>}
<1>1. /\ ByteTouched \subseteq Z
  BY DEF ByteThings, PortThings, ByteTouched, Report, Ran, SetTouched, Frame
<1>2. Report \subseteq Z /\ \A g \in R : g[1] \notin Z  BY DEF Frame
<1>3. Yes("sure") \notin N0 \cup N1 \cup N2
  BY DEF Yes, Idling, Fine, Report, Ran, Blocks, SetTouched, Port, PortThings
<1>4. Carries(f, op, L, Both(R \cup N0), Read8("control"), Both(R \cup N1))
  <2>1. \A g \in N1 : g \in {Idling, <<"mode", "read8">>} \/ (g \in N0 /\ g[1] \in PortThings)
        \/ (g = Yes("sync") /\ (Yes("sync") \in N0 \/ <<"mode", "write8">> \in N0))
    BY DEF Yes, Idling, Fine, Report, Ran, Blocks, SetTouched, Port, PortThings
  <2> HIDE DEF N0, N1
  <2> QED BY <1>1, <1>2, <1>3, <2>1, ReadByteFrame
<1>5. Carries(f, op, L, Both(R \cup N1), Write8("control", "end"), Both(R \cup N2))
  <2>1. \A g \in N2 : g \in {Idling, Yes("sync"), <<"mode", "write8">>} \/
          Port("control", "end", N1, g)
    BY DEF Yes, Idling, Fine, Report, Ran, Blocks, SetTouched, Port, PortThings
  <2>2. Yes("sync") \in N1 /\ <<"prog", "code">> \notin N1  BY DEF Yes, Idling
  <2>3. Yes("closed") \in N1 \/ (<<"port", "erase">> \in N1 /\ <<"pn", 3>> \in N1) \/
          <<"port", "program">> \in N1
    OBVIOUS
  <2> HIDE DEF N1, N2
  <2> QED BY <1>1, <1>2, <1>3, <2>1, <2>2, <2>3, ReachFrame
<1> HIDE DEF N0, N1, N2
<1>6. Carries(f, op, L, Both(R \cup N0), End, Both(R \cup N2))
  BY <1>4, <1>5, CarriesThen DEF End
<1> QED BY <1>6 DEF N0, N1, N2

\* One byte of the page's address.
LEMMA OutSet ==
  ASSUME NEW f, NEW op, NEW L, NEW q, NEW c \in {"erase", "program"}, NEW n \in 0 .. 2, NEW R,
         NEW Z, Frame(op, "return", R, Z), ByteTouched \subseteq Z
  PROVE  Carries(f, op, L,
                 Both(R
                      \cup {Idling, Yes("sync"), <<"mode", "write8">>, <<"port", c>>, <<"pn", n>>,
                            <<"page", q>>}), Out,
                 Both(R
                      \cup {Idling, Yes("sync"), <<"mode", "write8">>, <<"port", c>>,
                            <<"pn", n + 1>>, <<"page", q>>}))
<1> DEFINE N0 == {Idling, Yes("sync"), <<"mode", "write8">>, <<"port", c>>, <<"pn", n>>,
                  <<"page", q>>}
           N1 == {Idling, Yes("sync"), <<"mode", "read8">>, <<"port", c>>, <<"pn", n>>,
                  <<"page", q>>}
           N2 == {Idling, Yes("sync"), <<"mode", "write8">>, <<"port", c>>, <<"pn", n + 1>>,
                  <<"page", q>>}
<1>1. /\ ByteTouched \subseteq Z
  BY DEF ByteThings, PortThings, ByteTouched, Report, Ran, SetTouched, Frame
<1>2. Report \subseteq Z /\ \A g \in R : g[1] \notin Z  BY DEF Frame
<1>4. n \in 0 .. 2 /\ c \in {"erase", "program"}  OBVIOUS
<1>3. Yes("sure") \notin N0 \cup N1 \cup N2
  BY <1>4 DEF Yes, Idling, Fine, Report, Ran, Blocks, SetTouched, Port, PortThings
<1>5. Carries(f, op, L, Both(R \cup N0), Read8("control"), Both(R \cup N1))
  <2>1. \A g \in N1 : g \in {Idling, <<"mode", "read8">>} \/ (g \in N0 /\ g[1] \in PortThings)
        \/ (g = Yes("sync") /\ (Yes("sync") \in N0 \/ <<"mode", "write8">> \in N0))
    BY <1>4 DEF Yes, Idling, Fine, Report, Ran, Blocks, SetTouched, Port, PortThings
  <2> HIDE DEF N0, N1
  <2> QED BY <1>1, <1>2, <1>3, <2>1, ReadByteFrame
<1>6. Carries(f, op, L, Both(R \cup N1), Write8("data", "address"), Both(R \cup N2))
  <2>1. \A g \in N2 : g \in {Idling, Yes("sync"), <<"mode", "write8">>} \/
          Port("data", "address", N1, g)
    BY <1>4 DEF Yes, Idling, Fine, Report, Ran, Blocks, SetTouched, Port, PortThings
  <2>2. Yes("sync") \in N1 /\ <<"prog", "code">> \notin N1  BY DEF Yes, Idling
  <2> HIDE DEF N1, N2
  <2> QED BY <1>1, <1>2, <1>3, <2>1, <2>2, ReachFrame
<1> HIDE DEF N0, N1, N2
<1>7. Carries(f, op, L, Both(R \cup N0), Out, Both(R \cup N2))
  BY <1>5, <1>6, CarriesThen DEF Out
<1> QED BY <1>7 DEF N0, N1, N2

\* Two bytes of the status.
LEMMA InSet ==
  ASSUME NEW f, NEW op, NEW L, NEW q, NEW R, NEW Z, Frame(op, "return", R, Z),
         ByteTouched \subseteq Z
  PROVE  Carries(f, op, L, Both(R \cup {Yes("sync"), Yes("closed"), <<"page", q>>}), In,
                 Both(R
                      \cup {Idling, Yes("sync"), <<"mode", "read8">>, Yes("closed"),
                            <<"page", q>>}))
<1> DEFINE N0 == {Yes("sync"), Yes("closed"), <<"page", q>>}
           N1 == {Idling, Yes("sync"), <<"mode", "read8">>, Yes("closed"), <<"page", q>>}
<1>1. /\ ByteTouched \subseteq Z
  BY DEF ByteThings, PortThings, ByteTouched, Report, Ran, SetTouched, Frame
<1>2. Report \subseteq Z /\ \A g \in R : g[1] \notin Z  BY DEF Frame
<1>3. Yes("sure") \notin N0 \cup N1
  BY DEF Yes, Idling, Fine, Report, Ran, Blocks, SetTouched, Port, PortThings
<1>4. Carries(f, op, L, Both(R \cup N0), Read8("control"), Both(R \cup N1))
  <2>1. \A g \in N1 : g \in {Idling, <<"mode", "read8">>} \/ (g \in N0 /\ g[1] \in PortThings)
        \/ (g = Yes("sync") /\ (Yes("sync") \in N0 \/ <<"mode", "write8">> \in N0))
    BY DEF Yes, Idling, Fine, Report, Ran, Blocks, SetTouched, Port, PortThings
  <2> HIDE DEF N0, N1
  <2> QED BY <1>1, <1>2, <1>3, <2>1, ReadByteFrame
<1>5. Carries(f, op, L, Both(R \cup N1), Read8("data"), Both(R \cup N1))
  <2>1. \A g \in N1 : g \in {Idling, <<"mode", "read8">>} \/ (g \in N1 /\ g[1] \in PortThings)
        \/ (g = Yes("sync") /\ (Yes("sync") \in N1 \/ <<"mode", "write8">> \in N1))
    BY DEF Yes, Idling, Fine, Report, Ran, Blocks, SetTouched, Port, PortThings
  <2> HIDE DEF N1
  <2> QED BY <1>1, <1>2, <1>3, <2>1, ReadByteFrame
<1> HIDE DEF N0, N1
<1>6. Carries(f, op, L, Both(R \cup N0), In, Both(R \cup N1))
  BY <1>4, <1>5, CarriesThen DEF In
<1> QED BY <1>6 DEF N0, N1

\* The byte accesses the program of the code mode swallows.
LEMMA IssueSwallowed ==
  ASSUME NEW f, NEW op, NEW L, NEW q, NEW R, NEW Z, Frame(op, "return", R, Z),
         ByteTouched \subseteq Z
  PROVE  Carries(f, op, L,
                 Both(R
                      \cup {Idling, <<"prog", "code">>, <<"mode", "write8">>, <<"port", "none">>,
                            Yes("closed"), <<"page", q>>}), Issue("six"),
                 Both(R
                      \cup {Idling, <<"prog", "code">>, <<"mode", "write8">>, <<"port", "none">>,
                            Yes("closed"), <<"page", q>>}))
<1> DEFINE N0 == {Idling, <<"prog", "code">>, <<"mode", "write8">>, <<"port", "none">>,
                  Yes("closed"), <<"page", q>>}
<1>1. /\ ByteTouched \subseteq Z
  BY DEF ByteThings, PortThings, ByteTouched, Report, Ran, SetTouched, Frame
<1>2. Report \subseteq Z /\ \A g \in R : g[1] \notin Z  BY DEF Frame
<1>3. Yes("sure") \notin N0
  BY DEF Yes, Idling, Fine, Report, Ran, Blocks, SetTouched, Port, PortThings
<1>4. Carries(f, op, L, Both(R \cup N0), Write8("control", "end"), Both(R \cup N0))
  <2>1. \A g \in N0 : g \in {Idling, <<"prog", "code">>, <<"mode", "write8">>} \/
          (g \in N0 /\ g[1] \in PortThings)
    BY DEF Yes, Idling, Fine, Report, Ran, Blocks, SetTouched, Port, PortThings
  <2>2. {<<"prog", "code">>, <<"mode", "write8">>} \subseteq N0  OBVIOUS
  <2> HIDE DEF N0
  <2> QED BY <1>1, <1>2, <1>3, <2>1, <2>2, SwallowedFrame
<1>5. Carries(f, op, L, Both(R \cup N0), Write8("control", "begin"), Both(R \cup N0))
  <2>1. \A g \in N0 : g \in {Idling, <<"prog", "code">>, <<"mode", "write8">>} \/
          (g \in N0 /\ g[1] \in PortThings)
    BY DEF Yes, Idling, Fine, Report, Ran, Blocks, SetTouched, Port, PortThings
  <2>2. {<<"prog", "code">>, <<"mode", "write8">>} \subseteq N0  OBVIOUS
  <2> HIDE DEF N0
  <2> QED BY <1>1, <1>2, <1>3, <2>1, <2>2, SwallowedFrame
<1>6. Carries(f, op, L, Both(R \cup N0), Write8("data", "six"), Both(R \cup N0))
  <2>1. \A g \in N0 : g \in {Idling, <<"prog", "code">>, <<"mode", "write8">>} \/
          (g \in N0 /\ g[1] \in PortThings)
    BY DEF Yes, Idling, Fine, Report, Ran, Blocks, SetTouched, Port, PortThings
  <2>2. {<<"prog", "code">>, <<"mode", "write8">>} \subseteq N0  OBVIOUS
  <2> HIDE DEF N0
  <2> QED BY <1>1, <1>2, <1>3, <2>1, <2>2, SwallowedFrame
<1> HIDE DEF N0
<1>7. Carries(f, op, L, Both(R \cup N0), Issue("six"), Both(R \cup N0))
  BY <1>4, <1>5, <1>6, Chain3 DEF Issue
<1> QED BY <1>7 DEF N0

\* The read that ends it puts the right program into the buffer.
LEMMA EndSwallowed ==
  ASSUME NEW f, NEW op, NEW L, NEW q, NEW R, NEW Z, Frame(op, "return", R, Z),
         ByteTouched \subseteq Z
  PROVE  Carries(f, op, L,
                 Both(R
                      \cup {Idling, <<"prog", "code">>, <<"mode", "write8">>, <<"port", "none">>,
                            Yes("closed"), <<"page", q>>}), End,
                 Both(R
                      \cup {Idling, Yes("sync"), <<"mode", "write8">>, <<"port", "none">>,
                            Yes("closed"), <<"page", q>>}))
<1> DEFINE N0 == {Idling, <<"prog", "code">>, <<"mode", "write8">>, <<"port", "none">>,
                  Yes("closed"), <<"page", q>>}
           N1 == {Idling, Yes("sync"), <<"mode", "read8">>, <<"port", "none">>, Yes("closed"),
                  <<"page", q>>}
           N2 == {Idling, Yes("sync"), <<"mode", "write8">>, <<"port", "none">>, Yes("closed"),
                  <<"page", q>>}
<1>1. /\ ByteTouched \subseteq Z
  BY DEF ByteThings, PortThings, ByteTouched, Report, Ran, SetTouched, Frame
<1>2. Report \subseteq Z /\ \A g \in R : g[1] \notin Z  BY DEF Frame
<1>3. Yes("sure") \notin N0 \cup N1 \cup N2
  BY DEF Yes, Idling, Fine, Report, Ran, Blocks, SetTouched, Port, PortThings
<1>4. Carries(f, op, L, Both(R \cup N0), Read8("control"), Both(R \cup N1))
  <2>1. \A g \in N1 : g \in {Idling, <<"mode", "read8">>} \/ (g \in N0 /\ g[1] \in PortThings)
        \/ (g = Yes("sync") /\ (Yes("sync") \in N0 \/ <<"mode", "write8">> \in N0))
    BY DEF Yes, Idling, Fine, Report, Ran, Blocks, SetTouched, Port, PortThings
  <2> HIDE DEF N0, N1
  <2> QED BY <1>1, <1>2, <1>3, <2>1, ReadByteFrame
<1>5. Carries(f, op, L, Both(R \cup N1), Write8("control", "end"), Both(R \cup N2))
  <2>1. \A g \in N2 : g \in {Idling, Yes("sync"), <<"mode", "write8">>} \/
          Port("control", "end", N1, g)
    BY DEF Yes, Idling, Fine, Report, Ran, Blocks, SetTouched, Port, PortThings
  <2>2. Yes("sync") \in N1 /\ <<"prog", "code">> \notin N1  BY DEF Yes, Idling
  <2>3. Yes("closed") \in N1 \/ (<<"port", "erase">> \in N1 /\ <<"pn", 3>> \in N1) \/
          <<"port", "program">> \in N1
    OBVIOUS
  <2> HIDE DEF N1, N2
  <2> QED BY <1>1, <1>2, <1>3, <2>1, <2>2, <2>3, ReachFrame
<1> HIDE DEF N0, N1, N2
<1>6. Carries(f, op, L, Both(R \cup N0), End, Both(R \cup N2))
  BY <1>4, <1>5, CarriesThen DEF End
<1> QED BY <1>6 DEF N0, N1, N2

\* A word of the page.
LEMMA PageWordCarries ==
  ASSUME NEW f, NEW op, NEW L, NEW v, NEW q, NEW u, NEW R, NEW Z, Frame(op, "return", R, Z),
         {"page", "data0", "loose"} \cup Ran \subseteq Z,
         (v = "w1" /\ q = "erased" /\ u = "half") \/ (v = "w2" /\ q = "half" /\ u = "filled"),
         {<<"prog", "page">>, <<"port", "program">>, <<"pn", 3>>} \subseteq R
  PROVE  Carries(f, op, L, Both(R \cup {Idling, <<"page", q>>}), PageWord(v),
                 Both(R \cup {Idling, Yes("steady"), Fine, <<"page", u>>}))
<1> DEFINE N0 == {Idling, <<"page", q>>}
           N1 == {Idling, <<"data0", v>>, <<"page", q>>}
           N2 == {<<"page", u>>}
           N3 == {Idling, Yes("steady"), Fine, <<"page", u>>}
<1>1. /\ {"data0", "loose", "steady"} \cup Report \subseteq Z
      /\ {"page"} \cup Ran \subseteq Z
      /\ Report \subseteq Z
  BY DEF Ran, SetTouched, Frame
<1>2. Report \subseteq Z /\ \A g \in R : g[1] \notin Z  BY DEF Frame
<1>3. Yes("sure") \notin N0 \cup N1 \cup N2 \cup N3
  BY DEF Yes, Idling, Fine, Report, Ran, Blocks, SetTouched
<1>4. Carries(f, op, L, At(R \cup N0, {}), W("DATA0", v, "return"), At(R \cup N1, {}))
  <2>1. \A g \in N1 : g = Fine \/
          (g \in N0 /\ g[1] \notin {"data0", "loose", "steady"} \cup Report) \/
            (g = <<"data0", v>> /\ Idling \in R \cup N0)
        \/ (g = <<"loose", v>> /\ (Idling \in R \cup N0 \/ f = "V20X"))
        \/ (g = Yes("steady") /\ Yes("off") \in R \cup N0 /\ g \in R \cup N0)
    BY DEF Yes, Idling, Fine, Report, Ran, Blocks, SetTouched
  <2>2. Idling \in R \cup N0  OBVIOUS
  <2> HIDE DEF N0, N1
  <2> QED BY <1>1, <1>2, <1>3, <2>1, <2>2, Data0Frame
<1>5. Carries(f, op, L, At(R \cup N1, {}), W("COMMAND", SetRun("x14"), "return"), At(R \cup {}, N2))
  <2>1. \A g \in N2 : (g \in N1 \cup {} /\ g[1] \notin {"page"} \cup Ran)
        \/ (g = <<"page", "half">> /\ <<"page", "erased">> \in N1)
        \/ (g = <<"page", "filled">> /\ <<"page", "half">> \in N1)
    BY DEF Yes, Idling, Fine, Report, Ran, Blocks, SetTouched
  <2>2. {<<"page", "erased">>, <<"data0", "w1">>} \subseteq N1 \/
          {<<"page", "half">>, <<"data0", "w2">>} \subseteq N1  OBVIOUS
  <2> HIDE DEF N1, N2
  <2> QED BY <1>1, <1>2, <1>3, <2>1, <2>2, RunPageFrame
<1>6. Carries(f, op, L, At(R \cup {}, N2), Idle("return"), Both(R \cup N3))
  <2>1. \A g \in N3 : g \in {Idling, Yes("steady"), Fine} \/
          (g \in {} \cup N2 /\ g[1] \notin Report)
    BY DEF Yes, Idling, Fine, Report, Ran, Blocks, SetTouched
  <2> HIDE DEF N2, N3
  <2> QED BY <1>1, <1>2, <1>3, <2>1, IdleFrame
<1> HIDE DEF N0, N1, N2, N3
<1>7. Carries(f, op, L, At(R \cup N0, {}), PageWord(v), Both(R \cup N3))
  BY <1>4, <1>5, <1>6, Chain3 DEF PageWord
<1>8. Covers(Both(R \cup N0), At(R \cup N0, {}))  BY BothCovers
<1>9. Carries(f, op, L, Both(R \cup N0), PageWord(v), Both(R \cup N3))
  BY <1>7, <1>8, CarriesCovers, CoversSelf
<1> QED BY <1>9 DEF N0, N1, N2, N3

\* What is known when the address of the page was sent.
Addressed(c, q) == {Idling, Yes("sync"), <<"mode", "write8">>, <<"port", c>>, <<"pn", 3>>,
                    <<"page", q>>}
\* Less is known of a program that does more.
LEMMA CarriesLess ==
  ASSUME NEW f, NEW op, NEW L, NEW R, NEW p, NEW S, NEW T, NEW U, NEW V,
         Carries(f, op, L, Both(R \cup S), p, Both(R \cup T)), S \subseteq U, V \subseteq T
  PROVE  Carries(f, op, L, Both(R \cup U), p, Both(R \cup V))
<1>1. R \cup S \subseteq R \cup U /\ R \cup V \subseteq R \cup T  OBVIOUS
<1>2. Covers(Both(R \cup U), Both(R \cup S)) /\ Covers(Both(R \cup T), Both(R \cup V))
  BY <1>1, BothCovers
<1> QED BY <1>2, CarriesCovers

\* rvswd_flash_ch58x_59x: a command code is sent to a port that is at rest.
LEMMA IssueCarries ==
  ASSUME NEW f, NEW op, NEW L, NEW R, NEW Z, Frame(op, "return", R, Z), ByteTouched \subseteq Z,
         NEW q, NEW c
  PROVE  Carries(f, op, L, Both(R \cup Resting(q)), Issue(c), Both(R \cup Sent(c, q)))
<1> DEFINE K == IF c \in {"erase", "program"} THEN {} ELSE {Yes("closed")}
<1>1. K \subseteq {Yes("closed")} /\ (K # {} => c \notin {"erase", "program"})  OBVIOUS
<1>2. Sent(c, q) = {Idling, Yes("sync"), <<"mode", "write8">>, <<"port", c>>, <<"pn", 0>>,
                    <<"page", q>>} \cup K
  BY DEF Sent
<1>3. Resting(q) = {Idling, Yes("sync"), <<"mode", "write8">>, <<"port", "none">>, Yes("closed"),
                    <<"page", q>>}
  BY DEF Resting
<1> HIDE DEF K
<1>4. Carries(f, op, L,
              Both(R
                   \cup {Idling, Yes("sync"), <<"mode", "write8">>, <<"port", "none">>,
                         Yes("closed"), <<"page", q>>}),
              Issue(c),
              Both(R
                   \cup {Idling, Yes("sync"), <<"mode", "write8">>, <<"port", c>>, <<"pn", 0>>,
                         <<"page", q>>} \cup K))
  BY <1>1, IssueSet
<1>5. R \cup {Idling, Yes("sync"), <<"mode", "write8">>, <<"port", c>>, <<"pn", 0>>,
              <<"page", q>>} \cup K = R \cup Sent(c, q)
  BY <1>2
<1> QED BY <1>3, <1>4, <1>5

\* A command that touches no page is ended.
LEMMA EndCarries ==
  ASSUME NEW f, NEW op, NEW L, NEW R, NEW Z, Frame(op, "return", R, Z), ByteTouched \subseteq Z,
         NEW q,
         NEW S, {Yes("sync"), Yes("closed"), <<"page", q>>} \subseteq S
  PROVE  Carries(f, op, L, Both(R \cup S), End, Both(R \cup Resting(q)))
<1>1. Carries(f, op, L, Both(R \cup {Yes("sync"), Yes("closed"), <<"page", q>>}), End,
              Both(R \cup Resting(q)))
  BY EndSet DEF Resting
<1> QED BY <1>1, CarriesLess

\* A command is begun, with the write enable before it.
LEMMA BeginCarries ==
  ASSUME NEW f, NEW op, NEW L, NEW R, NEW Z, Frame(op, "return", R, Z), ByteTouched \subseteq Z,
         NEW q, NEW c
  PROVE  Carries(f, op, L, Both(R \cup Resting(q)), Begin(c), Both(R \cup Sent(c, q)))
<1>1. Carries(f, op, L, Both(R \cup Resting(q)), Issue("six"), Both(R \cup Sent("six", q)))
  BY IssueCarries
<1>2. {Yes("sync"), Yes("closed"), <<"page", q>>} \subseteq Sent("six", q)  BY DEF Sent
<1>3. Carries(f, op, L, Both(R \cup Sent("six", q)), End, Both(R \cup Resting(q)))
  BY <1>2, EndCarries
<1>4. Carries(f, op, L, Both(R \cup Resting(q)), Issue(c), Both(R \cup Sent(c, q)))  BY IssueCarries
<1> QED BY <1>1, <1>3, <1>4, Chain3 DEF Begin

\* The port is opened the first time.
LEMMA OpenFirst ==
  ASSUME NEW f, NEW op, NEW L, NEW R, NEW Z, Frame(op, "return", R, Z), ByteTouched \subseteq Z,
         NEW q,
         NEW S, {Yes("sync"), <<"page", q>>} \subseteq S
  PROVE  Carries(f, op, L, Both(R \cup S), Open, Both(R \cup Resting(q)))
<1>1. Yes("sure") \notin Resting(q)  BY DEF Resting, Yes, Idling
<1>3. Carries(f, op, L, Both(R \cup {Yes("sync"), <<"page", q>>}), Write8("control", "open"),
              Both(R \cup Resting(q)))
  <2> DEFINE N == {Yes("sync"), <<"page", q>>}
  <2>1. Yes("sync") \in N /\ <<"prog", "code">> \notin N  BY DEF Yes
  <2>2. \A g \in Resting(q) : g \in {Idling, Yes("sync"), <<"mode", "write8">>} \/
          Port("control", "open", N, g)
    BY DEF Resting, Port
  <2> HIDE DEF N
  <2>3. Carries(f, op, L, Both(R \cup N), Write8("control", "open"), Both(R \cup Resting(q)))
    BY <1>1, <2>1, <2>2, ReachFrame
  <2> QED BY <2>3 DEF N
<1>4. Carries(f, op, L, Both(R \cup S), Write8("control", "open"), Both(R \cup Resting(q)))
  BY <1>3, CarriesLess
<1>5. Carries(f, op, L, Both(R \cup Resting(q)), Begin("init"), Both(R \cup Sent("init", q)))
  BY BeginCarries
<1>6. {Yes("sync"), Yes("closed"), <<"page", q>>} \subseteq Sent("init", q)  BY DEF Sent
<1>7. Carries(f, op, L, Both(R \cup Sent("init", q)), End, Both(R \cup Resting(q)))
  BY <1>6, EndCarries
<1> QED BY <1>4, <1>5, <1>7, Chain3 DEF Open

\* And again after the erase: the byte accesses still take the buffer for the
\* program they left there, so that the first ones never reach the port.
LEMMA OpenAgain ==
  ASSUME NEW f, NEW op, NEW L, NEW R, NEW Z, Frame(op, "return", R, Z), ByteTouched \subseteq Z,
         NEW q
  PROVE  Carries(f, op, L,
                 Both(R
                      \cup {Idling, <<"prog", "code">>, <<"mode", "write8">>, <<"port", "none">>,
                            Yes("closed"), <<"page", q>>}),
                 Open, Both(R \cup Resting(q)))
<1> DEFINE N == {Idling, <<"prog", "code">>, <<"mode", "write8">>, <<"port", "none">>,
                 Yes("closed"), <<"page", q>>}
<1>1. Carries(f, op, L, Both(R \cup N), Write8("control", "open"), Both(R \cup N))
  <2>1. {<<"prog", "code">>, <<"mode", "write8">>} \subseteq N  OBVIOUS
  <2>2. Yes("sure") \notin N  BY DEF Yes, Idling
  <2>3. \A g \in N : g \in {Idling, <<"prog", "code">>, <<"mode", "write8">>} \/
          (g \in N /\ g[1] \in PortThings)
    BY DEF Yes, PortThings
  <2> HIDE DEF N
  <2> QED BY <2>1, <2>2, <2>3, SwallowedFrame
<1>2. Carries(f, op, L, Both(R \cup N), Issue("six"), Both(R \cup N))  BY IssueSwallowed
<1>3. Carries(f, op, L, Both(R \cup N), End, Both(R \cup Resting(q)))  BY EndSwallowed DEF Resting
<1> HIDE DEF N
<1>4. Carries(f, op, L, Both(R \cup Resting(q)), Issue("init"), Both(R \cup Sent("init", q)))
  BY IssueCarries
<1>5. {Yes("sync"), Yes("closed"), <<"page", q>>} \subseteq Sent("init", q)  BY DEF Sent
<1>6. Carries(f, op, L, Both(R \cup Sent("init", q)), End, Both(R \cup Resting(q)))
  BY <1>5, EndCarries
<1>7. Carries(f, op, L, Both(R \cup N), Begin("init"), Both(R \cup Sent("init", q)))
  BY <1>2, <1>3, <1>4, Chain3 DEF Begin
<1>8. Carries(f, op, L, Both(R \cup N), Open, Both(R \cup Resting(q)))
  BY <1>1, <1>6, <1>7, Chain3 DEF Open
<1> QED BY <1>8 DEF N

\* The three address bytes of an erase or a program command.
LEMMA AddressCarries ==
  ASSUME NEW f, NEW op, NEW L, NEW R, NEW Z, Frame(op, "return", R, Z), ByteTouched \subseteq Z,
         NEW q,
         NEW c \in {"erase", "program"}
  PROVE  Carries(f, op, L, Both(R \cup Sent(c, q)), PageAddress, Both(R \cup Addressed(c, q)))
<1> DEFINE S(n) == {Idling, Yes("sync"), <<"mode", "write8">>, <<"port", c>>, <<"pn", n>>,
                    <<"page", q>>}
<1>1. \A n \in 0 .. 2 : Carries(f, op, L, Both(R \cup S(n)), Out, Both(R \cup S(n + 1)))  BY OutSet
<1>2. S(0) = Sent(c, q) /\ S(3) = Addressed(c, q)  BY DEF Sent, Addressed
<1> HIDE DEF S
<1>3. /\ Carries(f, op, L, Both(R \cup S(0)), Out, Both(R \cup S(1)))
      /\ Carries(f, op, L, Both(R \cup S(1)), Out, Both(R \cup S(2)))
      /\ Carries(f, op, L, Both(R \cup S(2)), Out, Both(R \cup S(3)))
  <2>1. 0 + 1 = 1 /\ 1 + 1 = 2 /\ 2 + 1 = 3 /\ {0, 1, 2} \subseteq 0 .. 2  OBVIOUS
  <2> QED BY <1>1, <2>1
<1> QED BY <1>2, <1>3, Chain3 DEF PageAddress

\* rvswd_flash_ch58x_59x_wait_ready
LEMMA WaitReadyCarries ==
  ASSUME NEW f, NEW op, NEW L, NEW R, NEW Z, Frame(op, "return", R, Z), ByteTouched \subseteq Z,
         NEW S, NEW w, NEW q,
         (w = "erasing" /\ q = "erased") \/ (w = "programming" /\ q = "new"),
         Carries(f, op, L, Both(R \cup S), End, Both(R \cup Resting(w)))
  PROVE  Carries(f, op, L, Both(R \cup S), WaitReady, Both(R \cup Resting(q)))
<1> DEFINE K(u) == {Idling, Yes("sync"), <<"mode", "read8">>, Yes("closed"), <<"page", u>>}
           k == {Yes("sync"), Yes("closed"), <<"page", w>>}
<1>1. Carries(f, op, L, Both(R \cup Resting(w)), Begin("status"), Both(R \cup Sent("status", w)))
  BY BeginCarries
<1>2. k \subseteq Sent("status", w) /\ k \subseteq K(w)  BY DEF Sent
<1>3. Carries(f, op, L, Both(R \cup k), In, Both(R \cup K(w)))  BY InSet
<1>4. Yes("sure") \notin K(q) /\ Yes("closed") \in K(w)  BY DEF Yes, Idling
<1>5. \A g \in K(q) : \/ g \in K(w) /\ g[1] \notin {"page"} \cup Report
                      \/ g = <<"page", "erased">> /\ <<"page", "erasing">> \in K(w)
                      \/ g = <<"page", "new">> /\ <<"page", "programming">> \in K(w)
  BY DEF Yes, Idling, Report
<1>6. {"page"} \cup Report \subseteq Z  BY DEF ByteTouched, PortThings
<1>7. {Yes("sync"), Yes("closed"), <<"page", q>>} \subseteq K(q)  OBVIOUS
<1> HIDE DEF K, k
<1>8. Carries(f, op, L, Both(R \cup Sent("status", w)), In, Both(R \cup K(w)))
  BY <1>2, <1>3, CarriesLess
<1>9. Carries(f, op, L, Both(R \cup K(w)), In, Both(R \cup K(w)))  BY <1>2, <1>3, CarriesLess
<1>10. Carries(f, op, L, Both(R \cup K(w)), <<Access("ready", "", "", "return")>>,
               Both(R \cup K(q)))
  BY <1>4, <1>5, <1>6, ReadyFrame
<1>11. Carries(f, op, L, Both(R \cup K(q)), End, Both(R \cup Resting(q)))  BY <1>7, EndCarries
<1> QED BY <1>1, <1>8, <1>9, <1>10, <1>11, Chain6 DEF WaitReady

\* The page is erased, and seen to be.
LEMMA EraseCarries ==
  ASSUME NEW f, NEW op, NEW L, NEW R, NEW Z, Frame(op, "return", R, Z), ByteTouched \subseteq Z,
         NEW q
  PROVE  Carries(f, op, L, Both(R \cup Resting(q)), EraseCommand, Both(R \cup Resting("erased")))
<1>1. Carries(f, op, L, Both(R \cup Resting(q)), Begin("erase"), Both(R \cup Sent("erase", q)))
  BY BeginCarries
<1>2. Carries(f, op, L, Both(R \cup Sent("erase", q)), PageAddress,
              Both(R \cup Addressed("erase", q)))
  BY AddressCarries
<1>3. Carries(f, op, L, Both(R \cup {Yes("sync"), <<"port", "erase">>, <<"pn", 3>>}), End,
              Both(R \cup Resting("erasing")))
  BY EndErase DEF Resting
<1>4. {Yes("sync"), <<"port", "erase">>, <<"pn", 3>>} \subseteq Addressed("erase", q)
  BY DEF Addressed
<1>5. Carries(f, op, L, Both(R \cup Addressed("erase", q)), End, Both(R \cup Resting("erasing")))
  BY <1>3, <1>4, CarriesLess
<1>6. Carries(f, op, L, Both(R \cup Addressed("erase", q)), WaitReady,
              Both(R \cup Resting("erased")))
  BY <1>5, WaitReadyCarries
<1> QED BY <1>1, <1>2, <1>6, Chain3 DEF EraseCommand

\* What rvswd_flash_ch58x_59x_program_page changes.
PageTouched == {"mode", "sync", "prog", "x13", "x5", "data0", "loose", "page"} \cup Ran
\* More is known in a frame that is left alone by less.
LEMMA FrameMore ==
  ASSUME NEW op, NEW l, NEW R, NEW Z, Frame(op, l, R, Z), NEW X, NEW Y, Y \subseteq Z,
         Report \subseteq Y,
         \A g \in X : g[1] \notin Y
  PROVE  Frame(op, l, R \cup X, Y)
BY DEF Frame, Exit

\* rvswd_flash_ch58x_59x_program_page
LEMMA ProgramPageCarries ==
  ASSUME NEW f, NEW op, NEW L, NEW R, NEW Z, Frame(op, "return", R, Z), PageTouched \subseteq Z,
         Yes("sure") \in R, {<<"port", "program">>, <<"pn", 3>>} \subseteq R,
         \A g \in R : g[1] \in {"auto", "off", "calm"} => g \in {Mute, Yes("off"), Yes("calm")}
  PROVE  Carries(f, op, L, Both(R \cup {Idling, <<"page", "erased">>}), ProgramPage,
                 Both(R
                      \cup {Idling, Yes("steady"), Fine, Yes("sync"), <<"mode", "none">>,
                            <<"prog", "page">>, <<"page", "filled">>}))
<1> DEFINE N0 == {Idling, <<"page", "erased">>}
           N1 == {Idling, <<"page", "erased">>, Yes("sync"), <<"mode", "none">>}
           N2 == {Idling, Yes("steady"), <<"page", "erased">>, Yes("sync"), <<"mode", "none">>}
           N3 == {Idling, Yes("sync"), <<"mode", "none">>, <<"prog", "page">>, <<"page", "erased">>}
           N4 == {Idling, Yes("steady"), Fine, Yes("sync"), <<"mode", "none">>, <<"prog", "page">>,
                  <<"page", "half">>}
           N5 == {Idling, Yes("steady"), Fine, Yes("sync"), <<"mode", "none">>, <<"prog", "page">>,
                  <<"page", "filled">>}
<1>1. /\ {"mode", "sync"} \subseteq Z
      /\ {"data0", "loose", "steady"} \cup SetTouched("x13") \subseteq Z
      /\ {"data0", "loose", "steady"} \cup SetTouched("x5") \subseteq Z
      /\ Report \subseteq Z
      /\ {"prog", "sync"} \cup Report \subseteq Z
  BY DEF PageTouched, Ran, SetTouched, Frame
<1>2. Report \subseteq Z /\ \A g \in R : g[1] \notin Z  BY DEF Frame
<1>3. Yes("sure") \notin N0 \cup N1 \cup N2 \cup N3 \cup N4 \cup N5
  BY DEF Yes, Idling, Fine, Report, Ran, Blocks, SetTouched
<1>4. Carries(f, op, L, Both(R \cup N0), <<Access("nomode", "", "", "return")>>, Both(R \cup N1))
  <2>1. \A g \in N1 : g \in {Yes("sync"), <<"mode", "none">>} \/
          (g \in N0 /\ g[1] \notin {"mode", "sync"})
    BY DEF Yes, Idling, Fine, Report, Ran, Blocks, SetTouched
  <2> HIDE DEF N0, N1
  <2> QED BY <1>1, <1>2, <1>3, <2>1, NoModeFrame
<1>5. Carries(f, op, L, Both(R \cup N1), WriteReg("x13", "&word", "return"), Both(R \cup N2))
  <2>1. \A g \in N2 : g \in {Fine, Yes("halted"), Idling, Yes("steady"), <<"x13", "&word">>}
        \/ (g \in N1 /\ g[1] \notin {"data0", "loose", "steady"} \cup SetTouched("x13"))
    BY DEF Yes, Idling, Fine, Report, Ran, Blocks, SetTouched
  <2>2. "x13" \in Regs  BY DEF Regs
  <2>3. Idling \in R \cup N1  OBVIOUS
  <2> HIDE DEF N1, N2
  <2> QED BY <1>1, <1>2, <1>3, <2>1, <2>2, <2>3, RegFrame
<1>6. Carries(f, op, L, Both(R \cup N2), WriteReg("x5", "count", "return"), Both(R \cup N2))
  <2>1. \A g \in N2 : g \in {Fine, Yes("halted"), Idling, Yes("steady"), <<"x5", "count">>}
        \/ (g \in N2 /\ g[1] \notin {"data0", "loose", "steady"} \cup SetTouched("x5"))
    BY DEF Yes, Idling, Fine, Report, Ran, Blocks, SetTouched
  <2>2. "x5" \in Regs  BY DEF Regs
  <2>3. Idling \in R \cup N2  OBVIOUS
  <2> HIDE DEF N2
  <2> QED BY <1>1, <1>2, <1>3, <2>1, <2>2, <2>3, RegFrame
<1>7. Carries(f, op, L, Both(R \cup N2), W("ABSTRACTAUTO", "off", "return"), Both(R \cup N1))
  <2>1. \A g \in N1 : g \in {Fine, Yes("off")} \/
          (g \in N2 /\ g[1] \notin {"auto", "off", "calm"} \cup Report)
    BY DEF Yes, Idling, Fine, Report, Ran, Blocks, SetTouched
  <2>2. Yes("steady") \in N2  OBVIOUS
  <2> HIDE DEF N2, N1
  <2> QED BY <1>1, <1>2, <1>3, <2>1, <2>2, OffFrame
<1>8. Carries(f, op, L, At(R \cup N1, {}), Clear("return"), At(R \cup N1, {}))
  <2>1. \A g \in N1 : g = Fine \/ (g \in N1 /\ g[1] \notin Report)
    BY DEF Yes, Idling, Fine, Report, Ran, Blocks, SetTouched
  <2> HIDE DEF N1
  <2> QED BY <1>1, <1>2, <1>3, <2>1, ClearFrame DEF Clear
<1>9. Carries(f, op, L, At(R \cup N1, {}), W("PROGBUF", "page", "return"), At(R \cup N3, {}))
  <2>1. \A g \in N3 : g = Fine \/ (g \in N1 /\ g[1] \notin {"prog", "sync"} \cup Report) \/
          (g = <<"prog", "page">> /\ Idling \in R \cup N1)
        \/ (g = Yes("sync") /\ <<"mode", "none">> \in R \cup N1)
    BY DEF Yes, Idling, Fine, Report, Ran, Blocks, SetTouched
  <2> HIDE DEF N1, N3
  <2> QED BY <1>1, <1>2, <1>3, <2>1, ProgFrame
<1>10. Carries(f, op, L, Both(R \cup N3), PageWord("w1"), Both(R \cup N4))
  <2> DEFINE X == {Yes("sync"), <<"mode", "none">>, <<"prog", "page">>}
           Y == {"page", "data0", "loose"} \cup Ran
  <2>1. Y \subseteq Z /\ Report \subseteq Y /\ \A g \in X : g[1] \notin Y
    BY DEF PageTouched, Ran, Yes, Report
  <2> HIDE DEF Y
  <2>2. Frame(op, "return", R \cup X, Y)  BY <2>1, FrameMore
  <2>3. {<<"prog", "page">>, <<"port", "program">>, <<"pn", 3>>} \subseteq R \cup X  OBVIOUS
  <2>4. Y = {"page", "data0", "loose"} \cup Ran  BY DEF Y
  <2>5. R \cup N3 = (R \cup X) \cup {Idling, <<"page", "erased">>} \cup N3
        /\ (R \cup X) \cup {Idling, Yes("steady"), Fine, <<"page", "half">>} = R \cup N4
    OBVIOUS
  <2> HIDE DEF X
  <2>6. Carries(f, op, L, Both((R \cup X) \cup {Idling, <<"page", "erased">>}), PageWord("w1"),
                Both((R \cup X) \cup {Idling, Yes("steady"), Fine, <<"page", "half">>}))
    BY <2>2, <2>3, <2>4, PageWordCarries
  <2>7. Covers(Both(R \cup N3), Both((R \cup X) \cup {Idling, <<"page", "erased">>}))
    <3>1. (R \cup X) \cup {Idling, <<"page", "erased">>} \subseteq R \cup N3  BY <2>5
    <3> QED BY <3>1, BothCovers
  <2> HIDE DEF N3, N4
  <2>8. Carries(f, op, L, Both((R \cup X) \cup {Idling, <<"page", "erased">>}), PageWord("w1"),
                Both(R \cup N4))
    BY <2>5, <2>6
  <2> QED BY <2>7, <2>8, CarriesCovers, CoversSelf
<1>11. Carries(f, op, L, Both(R \cup N4), PageWord("w2"), Both(R \cup N5))
  <2> DEFINE X == {Yes("sync"), <<"mode", "none">>, <<"prog", "page">>}
           Y == {"page", "data0", "loose"} \cup Ran
  <2>1. Y \subseteq Z /\ Report \subseteq Y /\ \A g \in X : g[1] \notin Y
    BY DEF PageTouched, Ran, Yes, Report
  <2> HIDE DEF Y
  <2>2. Frame(op, "return", R \cup X, Y)  BY <2>1, FrameMore
  <2>3. {<<"prog", "page">>, <<"port", "program">>, <<"pn", 3>>} \subseteq R \cup X  OBVIOUS
  <2>4. Y = {"page", "data0", "loose"} \cup Ran  BY DEF Y
  <2>5. R \cup N4 = (R \cup X) \cup {Idling, <<"page", "half">>} \cup N4
        /\ (R \cup X) \cup {Idling, Yes("steady"), Fine, <<"page", "filled">>} = R \cup N5
    OBVIOUS
  <2> HIDE DEF X
  <2>6. Carries(f, op, L, Both((R \cup X) \cup {Idling, <<"page", "half">>}), PageWord("w2"),
                Both((R \cup X) \cup {Idling, Yes("steady"), Fine, <<"page", "filled">>}))
    BY <2>2, <2>3, <2>4, PageWordCarries
  <2>7. Covers(Both(R \cup N4), Both((R \cup X) \cup {Idling, <<"page", "half">>}))
    <3>1. (R \cup X) \cup {Idling, <<"page", "half">>} \subseteq R \cup N4  BY <2>5
    <3> QED BY <3>1, BothCovers
  <2> HIDE DEF N4, N5
  <2>8. Carries(f, op, L, Both((R \cup X) \cup {Idling, <<"page", "half">>}), PageWord("w2"),
                Both(R \cup N5))
    BY <2>5, <2>6
  <2> QED BY <2>7, <2>8, CarriesCovers, CoversSelf
<1>12. Covers(Both(R \cup N1), At(R \cup N1, {}))  BY BothCovers, CoversSelf
<1>13. Carries(f, op, L, Both(R \cup N2), W("ABSTRACTAUTO", "off", "return"), At(R \cup N1, {}))
  BY <1>7, <1>12, CarriesCovers, CoversSelf
<1>14. Covers(At(R \cup N3, {}), Both(R \cup N3))  BY BothCovers, CoversSelf
<1>15. Carries(f, op, L, At(R \cup N1, {}), W("PROGBUF", "page", "return"), Both(R \cup N3))
  BY <1>9, <1>14, CarriesCovers, CoversSelf
<1> HIDE DEF N0, N1, N2, N3, N4, N5
<1> DEFINE first == <<Access("nomode", "", "", "return")>>
<1>16. Carries(f, op, L, Both(R \cup N0), first, Both(R \cup N1))  BY <1>4
<1> HIDE DEF first
<1>17. Carries(f, op, L, Both(R \cup N0),
       first \o WriteReg("x13", "&word", "return") \o WriteReg("x5", "count", "return")
         \o W("ABSTRACTAUTO", "off", "return") \o Clear("return")
           \o W("PROGBUF", "page", "return") \o PageWord("w1") \o PageWord("w2"),
       Both(R \cup N5))
  BY <1>16, <1>5, <1>6, <1>13, <1>8, <1>15, <1>10, <1>11, Chain8
<1>18. Carries(f, op, L, Both(R \cup N0), ProgramPage, Both(R \cup N5))
  BY <1>17 DEF ProgramPage, first
<1> QED BY <1>18 DEF N0, N1, N2, N3, N4, N5

\* What rewriting a page changes.
RewriteTouched == CodeTouched \cup ByteTouched \cup PageTouched
\* rvswd_flash_ch58x_59x_rewrite_page
LEMMA RewriteCarries ==
  ASSUME NEW f, NEW op, NEW L, NEW R, NEW Z, Frame(op, "return", R, Z), RewriteTouched \subseteq Z,
         Yes("sure") \in R,
         \A g \in R : g[1] \in {"auto", "off", "calm"} => g \in {Mute, Yes("off"), Yes("calm")}
  PROVE  Carries(f, op, L,
                 Both(R
                      \cup {Idling, <<"page", "old">>, <<"mode", "none">>,
                            Yes("sync")}), RewritePage,
                 Both(R \cup Resting("new")))
<1> DEFINE X1 == {<<"page", "old">>, <<"mode", "none">>}
           N1 == {Idling, Yes("steady"), Fine, <<"prog", "code">>, Yes("sync")}
           X2 == {<<"mode", "write8">>, <<"port", "none">>, Yes("closed"), <<"page", "erased">>}
           N2 == {Idling, Yes("steady"), Fine, <<"prog", "code">>}
           X3 == {<<"port", "program">>, <<"pn", 3>>}
           N3 == {Idling, Yes("steady"), Fine, Yes("sync"), <<"mode", "none">>, <<"prog", "page">>,
                  <<"page", "filled">>}
           S0 == {Idling, <<"page", "old">>, <<"mode", "none">>, Yes("sync")}
           S4 == X2 \cup {Idling, <<"prog", "code">>}
           S5 == {Yes("sync"), <<"port", "program">>, <<"page", "filled">>}
<1>1. /\ ByteTouched \subseteq Z /\ CodeTouched \subseteq Z /\ PageTouched \subseteq Z
      /\ Report \subseteq CodeTouched /\ Report \subseteq PageTouched
  BY DEF RewriteTouched, CodeTouched, PageTouched, Ran
<1>2. /\ \A g \in X1 \cup X2 : g[1] \notin CodeTouched
      /\ \A g \in X3 : g[1] \notin PageTouched
  BY DEF CodeTouched, PageTouched, Ran, Report, Yes
<1>3. /\ \A g \in R \cup X1 \cup X2 \cup X3 : g[1] \in {"auto", "off", "calm"}
           => g \in {Mute, Yes("off"), Yes("calm")}
  BY DEF Yes
<1>4. /\ Frame(op, "return", R \cup X1, CodeTouched) /\ Frame(op, "return", R \cup X2, CodeTouched)
      /\ Frame(op, "return", R \cup X3, PageTouched)
  BY <1>1, <1>2, FrameMore
<1>5. Carries(f, op, L, Both(R \cup S0), EnableCodeMode, Both(R \cup (X1 \cup N1)))
  <2>1. {Yes("sync")} \subseteq {Yes("sync")} /\ <<"mode", "none">> \in R \cup X1 /\
          Yes("sure") \in R \cup X1  OBVIOUS
  <2>2. Carries(f, op, L, Both((R \cup X1) \cup {Idling}), EnableCodeMode,
                Both(R \cup X1 \cup {Idling, Yes("steady"), Fine, <<"prog", "code">>}
                     \cup {Yes("sync")}))
    BY <1>3, <1>4, <2>1, CodeModeCarries
  <2>3. /\ (R \cup X1) \cup {Idling} = R \cup (X1 \cup {Idling})
        /\ R \cup X1 \cup {Idling, Yes("steady"), Fine, <<"prog", "code">>}
             \cup {Yes("sync")} = R \cup (X1 \cup N1)
    OBVIOUS
  <2>4. X1 \cup {Idling} \subseteq S0  OBVIOUS
  <2> HIDE DEF X1, N1, S0
  <2>5. Carries(f, op, L, Both(R \cup (X1 \cup {Idling})), EnableCodeMode,
                Both(R \cup (X1 \cup N1)))
    BY <2>2, <2>3
  <2> QED BY <2>4, <2>5, CarriesLess
<1>6. Carries(f, op, L, Both(R \cup (X1 \cup N1)), Open, Both(R \cup Resting("old")))
  <2>1. {Yes("sync"), <<"page", "old">>} \subseteq X1 \cup N1  OBVIOUS
  <2> HIDE DEF X1, N1
  <2> QED BY <1>1, <2>1, OpenFirst
<1>7. Carries(f, op, L, Both(R \cup Resting("old")), EraseCommand, Both(R \cup Resting("erased")))
  BY <1>1, EraseCarries
<1>8. Carries(f, op, L, Both(R \cup Resting("erased")), EnableCodeMode, Both(R \cup S4))
  <2>1. Yes("sure") \in R \cup X2  OBVIOUS
  <2>2. Carries(f, op, L, Both((R \cup X2) \cup {Idling}), EnableCodeMode,
                Both(R \cup X2 \cup {Idling, Yes("steady"), Fine, <<"prog", "code">>} \cup {}))
    BY <1>3, <1>4, <2>1, CodeModeCarries
  <2>3. /\ (R \cup X2) \cup {Idling} = R \cup (X2 \cup {Idling})
        /\ R \cup X2 \cup {Idling, Yes("steady"), Fine, <<"prog", "code">>} \cup {} = R
             \cup (X2 \cup N2)
    OBVIOUS
  <2>4. X2 \cup {Idling} \subseteq Resting("erased") /\ S4 \subseteq X2 \cup N2  BY DEF Resting
  <2> HIDE DEF X2, N2, S4
  <2>5. Carries(f, op, L, Both(R \cup (X2 \cup {Idling})), EnableCodeMode,
                Both(R \cup (X2 \cup N2)))
    BY <2>2, <2>3
  <2> QED BY <2>4, <2>5, CarriesLess
<1>9. Carries(f, op, L, Both(R \cup S4), Open, Both(R \cup Resting("erased")))
  <2>1. S4 = {Idling, <<"prog", "code">>, <<"mode", "write8">>, <<"port", "none">>, Yes("closed"),
              <<"page", "erased">>}
    OBVIOUS
  <2> HIDE DEF S4
  <2> QED BY <1>1, <2>1, OpenAgain
<1>10. Carries(f, op, L, Both(R \cup Resting("erased")), Begin("program"),
               Both(R \cup Sent("program", "erased")))
  BY <1>1, BeginCarries
<1>11. Carries(f, op, L, Both(R \cup Sent("program", "erased")), PageAddress,
               Both(R \cup Addressed("program", "erased")))
  BY <1>1, AddressCarries
<1>12. Carries(f, op, L, Both(R \cup Addressed("program", "erased")), ProgramPage,
               Both(R \cup (X3 \cup N3)))
  <2>1. Yes("sure") \in R \cup X3 /\
          {<<"port", "program">>, <<"pn", 3>>} \subseteq R \cup X3  OBVIOUS
  <2>2. Carries(f, op, L, Both((R \cup X3) \cup {Idling, <<"page", "erased">>}), ProgramPage,
                Both((R \cup X3) \cup N3))
    BY <1>3, <1>4, <2>1, ProgramPageCarries
  <2>3. /\ (R \cup X3) \cup {Idling, <<"page", "erased">>} = R
             \cup (X3 \cup {Idling, <<"page", "erased">>})
        /\ (R \cup X3) \cup N3 = R \cup (X3 \cup N3)
    OBVIOUS
  <2>4. X3 \cup {Idling, <<"page", "erased">>} \subseteq Addressed("program", "erased")
    BY DEF Addressed
  <2> HIDE DEF X3, N3
  <2>5. Carries(f, op, L, Both(R \cup (X3 \cup {Idling, <<"page", "erased">>})), ProgramPage,
                Both(R \cup (X3 \cup N3)))
    BY <2>2, <2>3
  <2> QED BY <2>4, <2>5, CarriesLess
<1>13. Carries(f, op, L, Both(R \cup (X3 \cup N3)), WaitReady, Both(R \cup Resting("new")))
  <2>1. Carries(f, op, L, Both(R \cup S5), End, Both(R \cup Resting("programming")))
    BY <1>1, EndProgram DEF Resting
  <2>2. S5 \subseteq X3 \cup N3  OBVIOUS
  <2> HIDE DEF S5, X3, N3
  <2>3. Carries(f, op, L, Both(R \cup (X3 \cup N3)), End, Both(R \cup Resting("programming")))
    BY <2>1, <2>2, CarriesLess
  <2> QED BY <1>1, <2>3, WaitReadyCarries
<1> HIDE DEF S0, X1, N1, S4, X3, N3
<1>14. Carries(f, op, L, Both(R \cup S0), RewritePage, Both(R \cup Resting("new")))
  BY <1>5, <1>6, <1>7, <1>8, <1>9, <1>10, <1>11, <1>12, <1>13, Chain9 DEF RewritePage
<1> QED BY <1>14 DEF S0

-----------------------------------------------------------------------------
(* Reads by Access Memory (rvswd_memory_read32_access_memory).             *)

\* What every attempt of a read leaves alone.
ReadKeeps(op) ==
  {Yes("kept"), Yes("calm"), Mute}
    \cup (IF op = "read" THEN {<<"a1", "a1">>}
          ELSE {Yes("free"), Yes("unlocked"), Yes("off"), Yes("sure")})
\* What a read that passed is known to have found.
ReadFinds(op) == IF op = "read" THEN {Yes("answer")} ELSE {}
\* The labels of rvswd_memory_read32_access_memory.
ReadLabels == {"second", "third", "got"}

\* What its three attempts know when they start.
LEMMA ReadExpects ==
  ASSUME NEW f, NEW op
  PROVE  /\ E(f, op, "second") = ReadKeeps(op) \cup {Idling} /\
              E(f, op, "third") = ReadKeeps(op) \cup {Idling}
         /\ E(f, op, "got") = ReadKeeps(op) \cup ReadFinds(op)
         /\ \A g \in ReadKeeps(op) : g[1]
              \notin {"data0", "loose", "data1", "aim", "value", "answer"} \cup Ran
         /\ Yes("sure") \notin {Idling} \cup ReadFinds(op)
<1>1. /\ E(f, op, "second") = ReadKeeps(op) \cup {Idling} /\
           E(f, op, "third") = ReadKeeps(op) \cup {Idling}
  BY DEF E, ReadKeeps
<1>2. E(f, op, "got") = ReadKeeps(op) \cup ReadFinds(op)  BY DEF E, ReadKeeps, ReadFinds
<1>3. \A g \in ReadKeeps(op) : g[1]
        \notin {"data0", "loose", "data1", "aim", "value", "answer"} \cup Ran
  BY DEF ReadKeeps, Ran, Report, Yes, Mute
<1>4. Yes("sure") \notin {Idling} \cup ReadFinds(op)  BY DEF ReadFinds, Yes, Idling
<1> QED BY <1>1, <1>2, <1>3, <1>4

\* An access of an attempt: when it fails the next attempt begins.
LEMMA AttemptPasses ==
  ASSUME NEW f, NEW op, op # "resume", NEW x, NEW A, NEW B, Asks(f, op, x, A),
         x.do \in {"write", "read"}, ~(x.do = "write" /\ x.reg = "ABSTRACTAUTO"),
         x.fail \in {"second", "third", "return"}, ReadKeeps(op) \subseteq A.s,
         Yes("sure") \in B.s => Yes("sure") \in A.s,
         \A g \in ReadKeeps(op) : Gives(f, x, A, g, TRUE),
         \A g \in B.s \ ReadKeeps(op) : Gives(f, x, A, g, TRUE),
         \A g \in B.p : Gives(f, x, A, g, FALSE)
  PROVE  Passes(f, op, x, A, B)
<1>1. Yes("calm") \in A.s  BY DEF ReadKeeps
<1>2. CASE x.fail = "return"
  <2>1. Exits(f, op, x, A)  BY <1>1, <1>2 DEF Exits, Returns
  <2>2. \A g \in B.s : Gives(f, x, A, g, TRUE)  OBVIOUS
  <2> QED BY <2>1, <2>2, PassesWhen
<1>3. CASE x.fail \in {"second", "third"}
  <2>1. E(f, op, x.fail) = ReadKeeps(op) \cup {Idling}  BY <1>3, ReadExpects
  <2>2. \A g \in ReadKeeps(op) : g[1] # "diag"  BY ReadExpects DEF Ran, Report
  <2>3. \A g \in ReadKeeps(op) \cup {Idling} : Fails(f, x, A, g)  BY <2>2 DEF Fails, Settling
  <2>4. Exits(f, op, x, A)  BY <1>3, <2>1, <2>3 DEF Exits
  <2>5. \A g \in B.s : Gives(f, x, A, g, TRUE)  OBVIOUS
  <2> QED BY <2>4, <2>5, PassesWhen
<1> QED BY <1>2, <1>3

\* rvswd_memory_read32_access_memory: one attempt.
LEMMA OnceCarries ==
  ASSUME NEW f, NEW op, op # "resume", NEW L, NEW a, op = "read" => a = "a1",
         NEW l \in {"second", "third", "return"},
         l \in {"return"} \cup L
  PROVE  Carries(f, op, L, Both(ReadKeeps(op) \cup {Idling}), Once(a, l),
                 Both(ReadKeeps(op) \cup ReadFinds(op)))
<1> DEFINE K == ReadKeeps(op)
           D == IF op = "read" THEN {<<"data0", "a1">>} ELSE {}
           A0 == Both(K \cup {Idling})
           A1 == Both(K \cup {Idling, <<"data1", a>>})
           A2 == At(K \cup {<<"data1", a>>}, D)
           A3 == Both(K \cup ReadFinds(op))
           x1 == Access("write", "DATA1", a, l)
           x2 == Access("write", "COMMAND", ReadMem, l)
           x3 == Access("read", "", "", l)
<1>1. /\ A0.s = K \cup {Idling} /\ A0.p = K \cup {Idling}
      /\ A1.s = K \cup {Idling, <<"data1", a>>} /\ A1.p = K \cup {Idling, <<"data1", a>>}
      /\ A2.s = K \cup {<<"data1", a>>} /\ A2.p = D
      /\ A3.s = K \cup ReadFinds(op) /\ A3.p = K \cup ReadFinds(op)
  BY DEF Both, At
<1>2. /\ x1.do = "write" /\ x1.reg = "DATA1" /\ x1.val = a /\ x1.fail = l
      /\ x2.do = "write" /\ x2.reg = "COMMAND" /\ x2.val = ReadMem /\ x2.fail = l
      /\ x3.do = "read" /\ x3.reg = "" /\ x3.fail = l
  BY DEF Access
<1>3. Once(a, l) = <<x1>> \o <<x2>> \o <<x3>>  BY DEF Once, W, Read
<1>4. /\ Yes("kept") \in K /\ Mute \in K /\
           \A g \in K : g[1] \notin {"data0", "loose", "data1", "aim", "value", "answer"} \cup Ran
      /\ Idling \notin K /\ Yes("sure") \notin {Idling} \cup ReadFinds(op)
  <2>1. Idling \notin ReadKeeps(op)  BY DEF ReadKeeps, Idling, Yes, Mute
  <2> QED BY <2>1, ReadExpects DEF ReadKeeps
<1>5. op = "read" => <<"a1", "a1">> \in K /\ a = "a1"  BY DEF ReadKeeps
<1>6. /\ <<"data1", a>> # Yes("sure") /\ <<"data0", "a1">> # Yes("sure") /\ Idling # Yes("sure")
      /\ \A v : <<"data1", v>>[1] = "data1" /\ <<"data1", v>>[2] = v
      /\ Idling[1] = "busy" /\ \A g \in D : g = <<"data0", "a1">> /\ op = "read"
      /\ \A g \in ReadFinds(op) : g = Yes("answer") /\ op = "read"
  BY DEF Yes, Idling, ReadFinds
<1> HIDE DEF K, A0, A1, A2, A3, x1, x2, x3
<1>7. Passes(f, op, x1, A0, A1)
  <2>1. Asks(f, op, x1, A0)  BY <1>1, <1>2, <1>4 DEF Asks, WriteAsks
  <2>2. \A g \in A0.s : Keep(g, From(A0, TRUE), {"data1", "aim"} \cup Report) /\
          Keep(g, From(A0, FALSE), {"data1", "aim"} \cup Report)
    BY <1>1, <1>4, <1>6 DEF Keep, From, Ran, Report
  <2>3. \A g \in A0.s \cup {<<"data1", a>>} : Data1(a, A0, g, TRUE) /\ Data1(a, A0, g, FALSE)
    BY <1>1, <2>2 DEF Data1
  <2>4. \A g \in A0.s \cup {<<"data1", a>>} : Gives(f, x1, A0, g, TRUE) /\
          Gives(f, x1, A0, g, FALSE)
    BY <1>2, <2>3 DEF Gives, WriteGives
  <2>5. A1.s = A0.s \cup {<<"data1", a>>} /\ A1.p = A1.s /\ ReadKeeps(op) \subseteq A0.s
    BY <1>1 DEF K
  <2>6. Yes("sure") \in A1.s => Yes("sure") \in A0.s  BY <1>1, <1>6
  <2>7. x1.do \in {"write", "read"} /\ ~(x1.do = "write" /\ x1.reg = "ABSTRACTAUTO") /\
          x1.fail \in {"second", "third", "return"}
    BY <1>2
  <2>8. /\ \A g \in ReadKeeps(op) : Gives(f, x1, A0, g, TRUE)
        /\ \A g \in A1.s \ ReadKeeps(op) : Gives(f, x1, A0, g, TRUE)
        /\ \A g \in A1.p : Gives(f, x1, A0, g, FALSE)
    BY <2>4, <2>5
  <2> QED BY <2>1, <2>5, <2>6, <2>7, <2>8, AttemptPasses
<1>8. Passes(f, op, x2, A1, A2)
  <2>1. Asks(f, op, x2, A1)  BY <1>1, <1>2, <1>4 DEF Asks, WriteAsks, CommandAsks
  <2>2. \A g \in A2.s : Keep(g, From(A1, TRUE), {"data0", "loose"} \cup Ran)
    BY <1>1, <1>4, <1>6 DEF Keep, From, Ran, Report
  <2>3. \A g \in A2.s : FetchGives(A1, g, TRUE)  BY <2>2 DEF FetchGives
  <2>4. \A g \in D : FetchGives(A1, g, FALSE)
    <3>1. op = "read" => {<<"data1", "a1">>, <<"a1", "a1">>} \subseteq From(A1, FALSE)
      BY <1>1, <1>5 DEF From
    <3> QED BY <1>6, <3>1 DEF FetchGives
  <2>5. /\ \A g \in A2.s : Gives(f, x2, A1, g, TRUE)
        /\ \A g \in A2.p : Gives(f, x2, A1, g, FALSE)
    BY <1>1, <1>2, <2>3, <2>4 DEF Gives, WriteGives, CommandGives
  <2>6. Yes("sure") \in A2.s => Yes("sure") \in A1.s  BY <1>1
  <2>7. x2.do \in {"write", "read"} /\ ~(x2.do = "write" /\ x2.reg = "ABSTRACTAUTO") /\
          x2.fail \in {"second", "third", "return"}
    BY <1>2
  <2>8. ReadKeeps(op) \subseteq A1.s /\ ReadKeeps(op) \subseteq A2.s  BY <1>1 DEF K
  <2>9. /\ \A g \in ReadKeeps(op) : Gives(f, x2, A1, g, TRUE)
        /\ \A g \in A2.s \ ReadKeeps(op) : Gives(f, x2, A1, g, TRUE)
    BY <2>5, <2>8
  <2> QED BY <2>1, <2>5, <2>6, <2>7, <2>8, <2>9, AttemptPasses
<1>9. Passes(f, op, x3, A2, A3)
  <2>1. Asks(f, op, x3, A2)  BY <1>1, <1>2, <1>4 DEF Asks
  <2>2. \A g \in K : Keep(g, From(A2, TRUE), {"value", "answer", "steady"} \cup Report) /\
          Keep(g, From(A2, FALSE), {"value", "answer", "steady"} \cup Report)
    BY <1>1, <1>4 DEF Keep, From, Ran, Report
  <2>3. \A g \in ReadFinds(op) : g = Yes("answer") /\ <<"data0", "a1">> \in A2.s \cup A2.p
    BY <1>1, <1>6 DEF D
  <2>4. \A g \in A3.s : ReadGives(A2, g, TRUE) /\ ReadGives(A2, g, FALSE)
    BY <1>1, <2>2, <2>3 DEF ReadGives
  <2>5. \A g \in A3.s : Gives(f, x3, A2, g, TRUE) /\ Gives(f, x3, A2, g, FALSE)
    BY <1>2, <2>4 DEF Gives
  <2>6. Yes("sure") \in A3.s => Yes("sure") \in A2.s  BY <1>1, <1>4
  <2>7. x3.do \in {"write", "read"} /\ ~(x3.do = "write" /\ x3.reg = "ABSTRACTAUTO") /\
          x3.fail \in {"second", "third", "return"}
    BY <1>2
  <2>8. ReadKeeps(op) \subseteq A2.s /\ ReadKeeps(op) \subseteq A3.s /\ A3.p = A3.s  BY <1>1 DEF K
  <2>9. /\ \A g \in ReadKeeps(op) : Gives(f, x3, A2, g, TRUE)
        /\ \A g \in A3.s \ ReadKeeps(op) : Gives(f, x3, A2, g, TRUE)
        /\ \A g \in A3.p : Gives(f, x3, A2, g, FALSE)
    BY <2>5, <2>8
  <2> QED BY <2>1, <2>6, <2>7, <2>8, <2>9, AttemptPasses
<1>10. Carries(f, op, L, A0, <<x1>>, A1) /\ Carries(f, op, L, A1, <<x2>>, A2) /\
         Carries(f, op, L, A2, <<x3>>, A3)
  BY <1>2, <1>7, <1>8, <1>9, CarriesOne
<1>11. Carries(f, op, L, A0, <<x1>> \o <<x2>> \o <<x3>>, A3)
  <2> DEFINE p1 == <<x1>> p2 == <<x2>> p3 == <<x3>>
  <2>1. Carries(f, op, L, A0, p1, A1) /\ Carries(f, op, L, A1, p2, A2) /\
          Carries(f, op, L, A2, p3, A3)
    BY <1>10
  <2> HIDE DEF p1, p2, p3
  <2>2. Carries(f, op, L, A0, p1 \o p2 \o p3, A3)  BY <2>1, Chain3
  <2> QED BY <2>2 DEF p1, p2, p3
<1> QED BY <1>3, <1>11 DEF A0, A3, K

\* rvswd_memory_read32_access_memory
LEMMA ReadAccessCarries ==
  ASSUME NEW f, NEW op, op # "resume", NEW L, NEW a, op = "read" => a = "a1"
  PROVE  Carries(f, op, L, Both(ReadKeeps(op) \cup {Idling}), ReadAccess(a),
                 Both(ReadKeeps(op) \cup ReadFinds(op)))
<1> DEFINE A == Both(ReadKeeps(op) \cup {Idling})
           G == Both(ReadKeeps(op) \cup ReadFinds(op))
           p1 == Once(a, "second")
           p2 == Goto("got")
           p3 == Label("second")
           p4 == Once(a, "third")
           p5 == Label("third")
           p6 == Once(a, "return")
           p7 == Label("got")
           L1 == L \cup {"second"}
           L2 == L \cup {"second", "got"}
           L3 == L \cup {"got"}
           L4 == L \cup {"third", "got"}
<1>1. Carries(f, op, L1, A, p1, G)  BY OnceCarries
<1>2. \A l \in {"second", "third", "got"} : Yes("kept") \in E(f, op, l)  BY DEF E
<1>3. G.s = E(f, op, "got") /\ Yes("kept") \in G.s  BY ReadExpects DEF ReadKeeps, Both, At
<1>4. /\ A = Both(E(f, op, "second")) /\ A = Both(E(f, op, "third")) /\ G = Both(E(f, op, "got"))
  BY ReadExpects
<1> HIDE DEF A, G
<1>5. Carries(f, op, L2, G, p2, A) /\ Carries(f, op, L4, G, p2, A)  BY <1>3, GotoCarries
<1>6. Carries(f, op, L3, A, p3, A)  BY <1>2, <1>4, LabelCarries, CoversSelf
<1>7. Carries(f, op, L4, A, p4, G)  BY OnceCarries DEF A, G
<1>8. Carries(f, op, L3, A, p5, A)  BY <1>2, <1>4, LabelCarries, CoversSelf
<1>9. Carries(f, op, L3, A, p6, G)  BY OnceCarries DEF A, G
<1>10. Carries(f, op, L, G, p7, G)  BY <1>2, <1>4, LabelCarries, CoversSelf
<1>11. HasLabel(p3, "second") /\ HasLabel(p5, "third") /\ HasLabel(p7, "got")  BY LabelHas
<1> HIDE DEF p1, p2, p3, p4, p5, p6, p7
<1>12. Carries(f, op, L2, A, p1 \o p2, A)
  <2>1. Carries(f, op, L2, A, p1, G)  BY <1>1, CarriesMore
  <2> QED BY <1>5, <2>1, CarriesThen
<1>13. Carries(f, op, L3, A, p1 \o p2 \o p3, A)
  <2>1. \A l \in L2 : l \in L3 \/ HasLabel(p3, l)  BY <1>11
  <2> HIDE DEF L1, L2, L3, L4
  <2> QED BY <1>6, <1>12, <2>1, CarriesConcat
<1>14. Carries(f, op, L4, A, p1 \o p2 \o p3 \o p4, G)
  <2>1. Carries(f, op, L4, A, p1 \o p2 \o p3, A)  BY <1>13, CarriesMore
  <2> QED BY <1>7, <2>1, CarriesThen
<1>15. Carries(f, op, L4, A, p1 \o p2 \o p3 \o p4 \o p2, A)  BY <1>5, <1>14, CarriesThen
<1>16. Carries(f, op, L3, A, p1 \o p2 \o p3 \o p4 \o p2 \o p5, A)
  <2>1. \A l \in L4 : l \in L3 \/ HasLabel(p5, l)  BY <1>11
  <2> HIDE DEF L1, L2, L3, L4
  <2> QED BY <1>8, <1>15, <2>1, CarriesConcat
<1>17. Carries(f, op, L3, A, p1 \o p2 \o p3 \o p4 \o p2 \o p5 \o p6, G)  BY <1>9, <1>16, CarriesThen
<1>18. Carries(f, op, L, A, p1 \o p2 \o p3 \o p4 \o p2 \o p5 \o p6 \o p7, G)
  <2>1. \A l \in L3 : l \in L \/ HasLabel(p7, l)  BY <1>11
  <2> HIDE DEF L1, L2, L3, L4
  <2> QED BY <1>10, <1>17, <2>1, CarriesConcat
<1>19. ReadAccess(a) = p1 \o p2 \o p3 \o p4 \o p2 \o p5 \o p6 \o p7
  BY DEF ReadAccess, p1, p2, p3, p4, p5, p6, p7
<1> QED BY <1>18, <1>19 DEF A, G

-----------------------------------------------------------------------------
(* The streaming write (rvswd_memory_write_streaming).                     *)

\* What the setup of the stream changes.
StreamTouched == {"data0", "loose", "data1", "aim", "prog", "sync", "x8", "x9", "x10", "x11",
                  "started", "done", "a1"} \cup Ran

\* The part of a streaming write that stores its first word.
StreamFirst ==
  W("ABSTRACTAUTO", "off", "retry") \o Clear("retry") \o Probe("retry")
    \o W("PROGBUF", "stream", "retry") \o WriteReg("x10", "&data0", "retry")
      \o WriteReg("x11", "&data1", "retry")
    \o W("DATA1", "a1", "retry") \o W("DATA0", "w1", "retry") \o W("COMMAND", Run, "retry")
      \o Idle("retry")

\* rvswd_memory_write_streaming: the first word, stored by an explicit command.
LEMMA StreamFirstCarries ==
  ASSUME NEW f, NEW op, NEW L, NEW A, NEW R, NEW Z, Frame(op, "retry", R, Z),
         StreamTouched \subseteq Z,
         "retry" \in L, Yes("off") \in R, f # "X03X",
         Carries(f, op, L, A, W("ABSTRACTAUTO", "off", "retry"),
                 Both(R \cup {Idling, Yes("steady")})),
         \A g \in R : g[1] \notin {"a2", "mailbox"}
  PROVE  Carries(f, op, L, A, StreamFirst,
                 Both(R
                      \cup {Idling, Yes("steady"), Fine, <<"prog", "stream">>, Yes("last"),
                            <<"data1", "a2">>, <<"a1", "w1">>}))
<1> DEFINE N0 == {Idling, Yes("steady")}
           N1 == {Idling, Yes("steady"), <<"prog", "stream">>}
           N2 == {Idling, <<"prog", "stream">>, <<"data1", "a1">>}
           N3 == {Idling, <<"prog", "stream">>, <<"data1", "a1">>, <<"data0", "w1">>}
           N4 == {<<"prog", "stream">>}
           N5 == {Yes("last"), <<"data1", "a2">>, <<"a1", "w1">>}
           N6 == {Idling, Yes("steady"), Fine, <<"prog", "stream">>, Yes("last"), <<"data1", "a2">>,
                  <<"a1", "w1">>}
<1>1. /\ Report \subseteq Z
      /\ {"prog", "sync"} \cup Report \subseteq Z
      /\ {"data1", "aim"} \cup Report \subseteq Z
      /\ {"data0", "loose", "steady"} \cup Report \subseteq Z
  BY DEF StreamTouched, Report, Ran, SetTouched, Frame
<1>2. Report \subseteq Z /\ \A g \in R : g[1] \notin Z  BY DEF Frame
<1>4. Exit(op, "retry", R) /\ {Yes("kept"), Mute} \subseteq R  BY DEF Frame
<1>3. Yes("sure") \notin N0 \cup N1 \cup N2 \cup N3 \cup N4 \cup N5 \cup N6
  BY <1>4 DEF Yes, Idling, Fine, Report, Ran, Blocks, SetTouched
<1>5. Carries(f, op, L, At(R \cup N0, {}), Clear("retry"), At(R \cup N0, {}))
  <2>1. \A g \in N0 : g = Fine \/ (g \in N0 /\ g[1] \notin Report)
    BY <1>4 DEF Yes, Idling, Fine, Report, Ran, Blocks, SetTouched
  <2> HIDE DEF N0
  <2> QED BY <1>1, <1>2, <1>3, <2>1, ClearFrame DEF Clear
<1>6. Carries(f, op, L, Both(R \cup N0), Probe("retry"), Both(R \cup N0))
  <2> DEFINE x == Access("probe", "", "", "retry")
             A1 == Both(R \cup N0)
  <2>1. A1.s = R \cup N0 /\ A1.p = R \cup N0  BY DEF Both, At
  <2>2. {Idling, Yes("steady")} \subseteq A1.s /\ Yes("kept") \in A1.s /\ Exit(op, "retry", A1.s)
    BY <2>1 DEF Frame, Exit
  <2>3. \A g \in N0 : g[1] \notin Report  BY DEF Yes, Idling, Report
  <2>4. \A g \in A1.s \cup A1.p : g = Fine \/ (g \in A1.s /\ g[1] \notin Report)
    BY <1>2, <2>1, <2>3
  <2> HIDE DEF A1
  <2>5. Passes(f, op, Access("probe", "", "", "retry"), A1, A1)  BY <2>2, <2>4, ProbePasses
  <2>6. x.fail \in {"return"} \cup L  BY DEF Access
  <2>7. Carries(f, op, L, A1, <<x>>, A1)  BY <2>5, <2>6, CarriesOne
  <2> QED BY <2>7 DEF A1, Probe
<1>7. Carries(f, op, L, At(R \cup N0, {}), W("PROGBUF", "stream", "retry"), At(R \cup N1, {}))
  <2>1. \A g \in N1 : g = Fine \/ (g \in N0 /\ g[1] \notin {"prog", "sync"} \cup Report) \/
          (g = <<"prog", "stream">> /\ Idling \in R \cup N0)
        \/ (g = Yes("sync") /\ <<"mode", "none">> \in R \cup N0)
    BY <1>4 DEF Yes, Idling, Fine, Report, Ran, Blocks, SetTouched
  <2> HIDE DEF N0, N1
  <2> QED BY <1>1, <1>2, <1>3, <2>1, ProgFrame
<1>8. Carries(f, op, L, Both(R \cup N1), WriteReg("x10", "&data0", "retry"), Both(R \cup N1))
  <2>1. Idling \in R \cup N1 /\ {Yes("off"), Yes("steady"), Idling} \subseteq R \cup N1 /\
          "x10" \in Regs
    BY DEF Regs
  <2>2. \A g \in R : g[1] \notin {"data0", "loose", "steady"} \cup SetTouched("x10")
    BY <1>2 DEF SetTouched, StreamTouched, Ran
  <2>3. \A g \in N1 : g \in {Fine, Yes("halted"), Idling, Yes("steady")} \/
          (g \in N1 /\ g[1] \notin {"data0", "loose", "steady"} \cup SetTouched("x10"))
    BY DEF Yes, Idling, Fine, SetTouched, Report
  <2>4. Exit(op, "retry", R \cup N1) /\ {Yes("kept"), Mute} \subseteq R \cup N1  BY DEF Frame, Exit
  <2> HIDE DEF N1
  <2>5. \A g \in R \cup N1 :
                           \/ g \in {Fine, Yes("halted"), Idling, Yes("steady"),
                                     <<"x10", "&data0">>}
                           \/ g \in R \cup N1 /\
                                g[1] \notin {"data0", "loose", "steady"} \cup SetTouched("x10")
    BY <2>2, <2>3
  <2> QED BY <2>1, <2>4, <2>5, WriteRegCarries
<1>9. Carries(f, op, L, Both(R \cup N1), WriteReg("x11", "&data1", "retry"), Both(R \cup N1))
  <2>1. Idling \in R \cup N1 /\ {Yes("off"), Yes("steady"), Idling} \subseteq R \cup N1 /\
          "x11" \in Regs
    BY DEF Regs
  <2>2. \A g \in R : g[1] \notin {"data0", "loose", "steady"} \cup SetTouched("x11")
    BY <1>2 DEF SetTouched, StreamTouched, Ran
  <2>3. \A g \in N1 : g \in {Fine, Yes("halted"), Idling, Yes("steady")} \/
          (g \in N1 /\ g[1] \notin {"data0", "loose", "steady"} \cup SetTouched("x11"))
    BY DEF Yes, Idling, Fine, SetTouched, Report
  <2>4. Exit(op, "retry", R \cup N1) /\ {Yes("kept"), Mute} \subseteq R \cup N1  BY DEF Frame, Exit
  <2> HIDE DEF N1
  <2>5. \A g \in R \cup N1 :
                           \/ g \in {Fine, Yes("halted"), Idling, Yes("steady"),
                                     <<"x11", "&data1">>}
                           \/ g \in R \cup N1 /\
                                g[1] \notin {"data0", "loose", "steady"} \cup SetTouched("x11")
    BY <2>2, <2>3
  <2> QED BY <2>1, <2>4, <2>5, WriteRegCarries
<1>10. Carries(f, op, L, At(R \cup N1, {}), W("DATA1", "a1", "retry"), At(R \cup N2, {}))
  <2>1. \A g \in N2 : g = Fine \/ (g \in N1 /\ g[1] \notin {"data1", "aim"} \cup Report) \/
          (g = <<"data1", "a1">> /\ Idling \in R \cup N1)
        \/ (g = Yes("aim") /\ "a1" \notin {"a0", "a3"} /\ (Idling \in R \cup N1 \/ g \in N1))
    BY <1>4 DEF Yes, Idling, Fine, Report, Ran, Blocks, SetTouched
  <2> HIDE DEF N1, N2
  <2> QED BY <1>1, <1>2, <1>3, <2>1, Data1Frame
<1>11. Carries(f, op, L, At(R \cup N2, {}), W("DATA0", "w1", "retry"), At(R \cup N3, {}))
  <2>1. \A g \in N3 : g = Fine \/
          (g \in N2 /\ g[1] \notin {"data0", "loose", "steady"} \cup Report) \/
            (g = <<"data0", "w1">> /\ Idling \in R \cup N2)
        \/ (g = <<"loose", "w1">> /\ (Idling \in R \cup N2 \/ f = "V20X"))
        \/ (g = Yes("steady") /\ Yes("off") \in R \cup N2 /\ g \in R \cup N2)
    BY <1>4 DEF Yes, Idling, Fine, Report, Ran, Blocks, SetTouched
  <2> HIDE DEF N2, N3
  <2> QED BY <1>1, <1>2, <1>3, <2>1, Data0Frame
<1>12. Carries(f, op, L, Both(R \cup N3), W("COMMAND", Run, "retry"), At(R \cup N4, N5))
  <2> DEFINE A1 == Both(R \cup N3)
             B == At(R \cup N4, N5)
             x == Access("write", "COMMAND", Run, "retry")
  <2>1. A1.s = R \cup N3 /\ A1.p = R \cup N3 /\ B.s = R \cup N4 /\ B.p = N5  BY DEF Both, At
  <2>2. {<<"prog", "stream">>, <<"data1", "a1">>, <<"data0", "w1">>} \subseteq A1.s  BY <2>1
  <2>3. CommandAsks(f, Run, A1)  BY <2>2 DEF CommandAsks
  <2>4. \A g \in R
          \cup N4 : Keep(g, From(A1, TRUE), Blocks \cup {"data1", "aim", "x8", "x9"} \cup Ran)
    <3>1. \A g \in N4 : g \in N3 /\ g[1] \notin Blocks \cup {"data1", "aim", "x8", "x9"} \cup Ran
      BY DEF Blocks, Ran, Report
    <3>2. \A g \in R : g[1] \notin {"a2", "mailbox"}  OBVIOUS
    <3>3. \A g \in R : g[1] \notin Blocks \cup {"data1", "aim", "x8", "x9"} \cup Ran
      BY <1>2, <3>2 DEF Blocks, Ran, StreamTouched
    <3> QED BY <2>1, <3>1, <3>3 DEF Keep, From
  <2>5. \A g \in R \cup N4 : CommandGives(Run, A1, g, TRUE)
    BY <2>2, <2>4 DEF CommandGives, RunStreamGives
  <2>6. \A g \in N5 : RunStreamGives(A1, g, FALSE)
    <3>1. <<"data0", "w1">> \in From(A1, FALSE)  BY <2>2 DEF From
    <3>2. RunStreamGives(A1, Yes("last"), FALSE) /\ RunStreamGives(A1, <<"data1", "a2">>, FALSE)
      BY DEF RunStreamGives
    <3>3. <<"a1", "w1">>[1] = "a1" /\ <<"a1", "w1">>[2] = "w1"  OBVIOUS
    <3>4. RunStreamGives(A1, <<"a1", "w1">>, FALSE)  BY <3>1, <3>3 DEF RunStreamGives
    <3> QED BY <3>2, <3>4
  <2>7. \A g \in N5 : CommandGives(Run, A1, g, FALSE)  BY <2>2, <2>6 DEF CommandGives
  <2>8. Yes("kept") \in R /\ Yes("sure") \in R /\ Exit(op, "retry", A1.s)  BY <2>1 DEF Frame, Exit
  <2>9. Yes("kept") \in A1.s /\ (Yes("sure") \in B.s => Yes("sure") \in A1.s)  BY <2>1, <2>8
  <2>10. CommandGives(Run, A1, Yes("sure"), TRUE) /\ CommandGives(Run, A1, Yes("kept"), TRUE)
    BY <2>5, <2>8
  <2>11. (\A g \in B.s : CommandGives(Run, A1, g, TRUE)) /\
           (\A g \in B.p : CommandGives(Run, A1, g, FALSE))
    BY <2>1, <2>5, <2>7
  <2> HIDE DEF A1, B
  <2>12. Passes(f, op, Access("write", "COMMAND", Run, "retry"), A1, B)
    BY <2>3, <2>8, <2>9, <2>10, <2>11, CommandPasses
  <2>13. x.fail \in {"return"} \cup L  BY DEF Access
  <2>14. Carries(f, op, L, A1, <<x>>, B)  BY <2>12, <2>13, CarriesOne
  <2> QED BY <2>14 DEF A1, B, W
<1>13. Carries(f, op, L, At(R \cup N4, N5), Idle("retry"), Both(R \cup N6))
  <2>1. \A g \in N6 : g \in {Idling, Yes("steady"), Fine} \/
          (g \in N4 \cup N5 /\ g[1] \notin Report)
    BY <1>4 DEF Yes, Idling, Fine, Report, Ran, Blocks, SetTouched
  <2> HIDE DEF N4, N5, N6
  <2> QED BY <1>1, <1>2, <1>3, <2>1, IdleFrame
<1>14. Covers(At(R \cup N0, {}), Both(R \cup N0))  BY BothCovers, CoversSelf
<1>15. Carries(f, op, L, At(R \cup N0, {}), Clear("retry"), Both(R \cup N0))
  BY <1>5, <1>14, CarriesCovers, CoversSelf
<1>16. Covers(Both(R \cup N0), At(R \cup N0, {}))  BY BothCovers, CoversSelf
<1>17. Carries(f, op, L, Both(R \cup N0), Probe("retry"), At(R \cup N0, {}))
  BY <1>6, <1>16, CarriesCovers, CoversSelf
<1>18. Covers(At(R \cup N1, {}), Both(R \cup N1))  BY BothCovers, CoversSelf
<1>19. Carries(f, op, L, At(R \cup N0, {}), W("PROGBUF", "stream", "retry"), Both(R \cup N1))
  BY <1>7, <1>18, CarriesCovers, CoversSelf
<1>20. Covers(Both(R \cup N1), At(R \cup N1, {}))  BY BothCovers, CoversSelf
<1>21. Carries(f, op, L, Both(R \cup N1), WriteReg("x11", "&data1", "retry"), At(R \cup N1, {}))
  BY <1>9, <1>20, CarriesCovers, CoversSelf
<1>22. Covers(At(R \cup N3, {}), Both(R \cup N3))  BY BothCovers, CoversSelf
<1>23. Carries(f, op, L, At(R \cup N2, {}), W("DATA0", "w1", "retry"), Both(R \cup N3))
  BY <1>11, <1>22, CarriesCovers, CoversSelf
<1> HIDE DEF N0, N1, N2, N3, N4, N5, N6
<1>24. Covers(Both(R \cup N0), At(R \cup N0, {}))  BY BothCovers
<1>25. Carries(f, op, L, A, W("ABSTRACTAUTO", "off", "retry"), At(R \cup N0, {}))
  BY <1>24, CarriesCovers, CoversSelf DEF N0
<1>26. Carries(f, op, L, A, StreamFirst, Both(R \cup N6))
  BY <1>25, <1>15, <1>17, <1>19, <1>8, <1>21, <1>10, <1>23, <1>12, <1>13, Chain10 DEF StreamFirst
<1> QED BY <1>26 DEF N6

\* What the streaming write knows: it is given up, autoexec was switched on,
\* its last word is on the way.
Dropped == {Yes("sure"), Yes("kept"), Yes("steady"), Idling, Yes("told")}
\* What is known when the first word was streamed,
Switching == {Yes("kept"), Yes("sure"), Idling, <<"prog", "stream">>, Yes("last"),
              <<"data1", "a2">>, <<"a1", "w1">>}
\* when autoexec is on,
Switched == Switching \cup {Yes("auto")}
\* and when the second word was given.
Stored == {Yes("kept"), Yes("sure"), <<"a1", "w1">>}
\* What switching autoexec off adds.
Ceased == {Yes("off"), Yes("calm"), <<"a2", "w2">>}

\* What the two clean-up labels of the stream expect.
LEMMA DroppedExpects ==
  ASSUME NEW f, NEW op, NEW l \in {"retry", "abandon"}
  PROVE  E(f, op, l) = Dropped /\ Yes("kept") \in E(f, op, l)
BY DEF E, Dropped

\* Autoexec is switched on for the words after the first.
LEMMA SwitchCarries ==
  ASSUME NEW f \in Streaming, NEW op, op # "resume", NEW L, "retry" \in L
  PROVE  Carries(f, op, L, Both(Switching), W("ABSTRACTAUTO", "on", "retry"), Both(Switched))
<1> DEFINE A == Both(Switching)
           B == Both(Switched)
           x == Access("write", "ABSTRACTAUTO", "on", "retry")
<1>1. A.s = Switching /\ A.p = Switching /\ B.s = Switched /\ B.p = Switched  BY DEF Both, At
<1>2. x.reg = "ABSTRACTAUTO" /\ x.val = "on" /\ x.fail = "retry" /\
        x = Access("write", "ABSTRACTAUTO", "on", "retry")
  BY DEF Access
<1>3. {Yes("kept"), Yes("sure"), Idling} \subseteq A.s /\ Exit(op, "retry", A.s)
  BY <1>1 DEF Switching, Exit
<1>4. \A g \in Switching : g[1] \notin {"auto", "off", "calm"} \cup Report
  BY DEF Switching, Report, Yes, Idling
<1>5. \A g \in Switching : Keep(g, From(A, TRUE), {"auto", "off", "calm"} \cup Report) /\
        Keep(g, From(A, FALSE), {"auto", "off", "calm"} \cup Report)
  BY <1>1, <1>4 DEF Keep, From
<1>6. \A g \in Switched : Autoexec("on", A, g, TRUE) /\ Autoexec("on", A, g, FALSE)
  <2>1. \A g \in Switching : Autoexec("on", A, g, TRUE) /\ Autoexec("on", A, g, FALSE)
    BY <1>5 DEF Autoexec
  <2>2. Autoexec("on", A, Yes("auto"), TRUE) /\ Autoexec("on", A, Yes("auto"), FALSE)
    BY <1>3 DEF Autoexec
  <2> QED BY <2>1, <2>2 DEF Switched
<1> HIDE DEF A, B, x
<1>7. WriteAsks(f, op, x, A)  BY <1>2, <1>3 DEF WriteAsks
<1>8. \A g \in Switched : WriteGives(f, x, A, g, TRUE) /\ WriteGives(f, x, A, g, FALSE)
  BY <1>2, <1>6 DEF WriteGives
<1>9. WriteGives(f, x, A, Yes("sure"), TRUE) /\ WriteGives(f, x, A, Yes("kept"), TRUE)
  BY <1>8 DEF Switched, Switching
<1>10. (\A g \in B.s : WriteGives(f, x, A, g, TRUE)) /\
         (\A g \in B.p : WriteGives(f, x, A, g, FALSE))
  BY <1>1, <1>8
<1>11. ~("ABSTRACTAUTO" = "ABSTRACTAUTO" /\ "retry" = "return")  OBVIOUS
<1>12. Passes(f, op, x, A, B)  BY <1>2, <1>3, <1>7, <1>9, <1>10, <1>11, WritePasses, Zenon
<1>13. x.fail \in {"return"} \cup L  BY <1>2
<1>14. Carries(f, op, L, A, <<x>>, B)  BY <1>12, <1>13, CarriesOne
<1> QED BY <1>14 DEF A, B, x, W

\* The last word, stored by autoexec.
LEMMA StreamLastCarries ==
  ASSUME NEW f, NEW op, op # "resume", NEW L, "abandon" \in L
  PROVE  Carries(f, op, L, Both(Switched), W("DATA0", "w2", "abandon"),
                 At(Stored, {<<"a2", "w2">>}))
<1> DEFINE A == Both(Switched)
           B == At(Stored, {<<"a2", "w2">>})
           x == Access("write", "DATA0", "w2", "abandon")
           T == {"data0", "loose", "data1", "aim", "x8", "x9", "a2", "busy", "steady"} \cup Report
<1>1. A.s = Switched /\ A.p = Switched /\ B.s = Stored /\ B.p = {<<"a2", "w2">>}  BY DEF Both, At
<1>2. x.fail = "abandon"  BY DEF Access
<1>3. {Yes("kept"), Yes("sure"), Yes("auto")} \subseteq A.s /\ Exit(op, "abandon", A.s) /\
        StreamReady(A)
  BY <1>1 DEF Switched, Switching, Exit, StreamReady
<1>4. \A g \in Stored : g \in Switched /\ g[1] \notin T
  BY DEF Stored, Switched, Switching, Report, Yes
<1>5. \A g \in Stored : Stream("w2", A, g, TRUE)  BY <1>1, <1>4 DEF Stream, Keep, From
<1>6. Stream("w2", A, <<"a2", "w2">>, FALSE)  BY <1>3 DEF Stream, From
<1>7. (\A g \in B.s : Stream("w2", A, g, TRUE)) /\ (\A g \in B.p : Stream("w2", A, g, FALSE))
  BY <1>1, <1>5, <1>6
<1> HIDE DEF A, B
<1>8. Passes(f, op, Access("write", "DATA0", "w2", "abandon"), A, B)  BY <1>3, <1>7, StreamPasses
<1>9. x.fail \in {"return"} \cup L  BY <1>2
<1>10. Carries(f, op, L, A, <<x>>, B)  BY <1>8, <1>9, CarriesOne
<1> QED BY <1>10 DEF A, B, x, W

\* Autoexec is switched off again.
LEMMA CeaseCarries ==
  ASSUME NEW f, NEW op, op # "resume", NEW L, "abandon" \in L
  PROVE  Carries(f, op, L, At(Stored, {<<"a2", "w2">>}), W("ABSTRACTAUTO", "off", "abandon"),
                 At(Stored, Ceased))
<1> DEFINE A == At(Stored, {<<"a2", "w2">>})
           B == At(Stored, Ceased)
           x == Access("write", "ABSTRACTAUTO", "off", "abandon")
<1>1. A.s = Stored /\ A.p = {<<"a2", "w2">>} /\ B.s = Stored /\ B.p = Ceased  BY DEF At
<1>2. x.fail = "abandon"  BY DEF Access
<1>3. {Yes("kept"), Yes("sure")} \subseteq A.s /\ Exit(op, "abandon", A.s)  BY <1>1 DEF Stored, Exit
<1>4. \A g \in Stored \cup {<<"a2", "w2">>} : g[1] \notin {"auto", "off", "calm"} \cup Report
  BY DEF Stored, Report, Yes
<1>5. \A g \in Stored : Autoexec("off", A, g, TRUE)  BY <1>1, <1>4 DEF Autoexec, Keep, From
<1>6. Autoexec("off", A, <<"a2", "w2">>, FALSE)
  <2>1. <<"a2", "w2">> \in From(A, FALSE)  BY <1>1 DEF From
  <2> QED BY <1>4, <2>1 DEF Autoexec, Keep
<1>7. Autoexec("off", A, Yes("off"), FALSE) /\ Autoexec("off", A, Yes("calm"), FALSE)
  BY DEF Autoexec
<1>8. (\A g \in B.s : Autoexec("off", A, g, TRUE)) /\ (\A g \in B.p : Autoexec("off", A, g, FALSE))
  BY <1>1, <1>5, <1>6, <1>7 DEF Ceased
<1> HIDE DEF A, B
<1>9. "abandon" # "return"  OBVIOUS
<1>10. Passes(f, op, Access("write", "ABSTRACTAUTO", "off", "abandon"), A, B)
  BY <1>1, <1>3, <1>8, <1>9, OffPasses
<1>11. x.fail \in {"return"} \cup L  BY <1>2
<1>12. Carries(f, op, L, A, <<x>>, B)  BY <1>10, <1>11, CarriesOne
<1> QED BY <1>12 DEF A, B, x, W

\* The last word is waited for.
LEMMA AwaitCarries ==
  ASSUME NEW f, NEW op, op # "resume", NEW L, "abandon" \in L
  PROVE  Carries(f, op, L, At(Stored, Ceased), Idle("abandon"), Both(Stored \cup Ceased))
<1> DEFINE A == At(Stored, Ceased)
           B == At(Stored \cup {Idling, Yes("steady"), Fine}, Ceased)
           C == Both(Stored \cup Ceased)
           x == Access("wait", "", "", "abandon")
           y == Access("check", "", "", "abandon")
<1>1. /\ A.s = Stored /\ A.p = Ceased /\ B.s = Stored \cup {Idling, Yes("steady"), Fine} /\
           B.p = Ceased
      /\ C.s = Stored \cup Ceased /\ C.p = Stored \cup Ceased
  BY DEF At, Both
<1>2. x.fail = "abandon" /\ y.fail = "abandon"  BY DEF Access
<1>3. \A g \in Stored \cup Ceased : g[1] \notin Report  BY DEF Stored, Ceased, Report, Yes
<1>4. /\ Yes("kept") \in Stored /\ Yes("sure") \in Stored
      /\ Exit(op, "abandon", A.s) /\ Exit(op, "abandon", B.s)
  BY <1>1 DEF Stored, Exit
<1> HIDE DEF A, B, C
<1>5. Passes(f, op, Access("wait", "", "", "abandon"), A, B)
  <2>1. /\ Yes("kept") \in A.s /\ (Yes("sure") \in B.s => Yes("sure") \in A.s)
        /\ \A g \in B.s : g \in {Idling, Yes("steady"), Fine} \/ (g \in A.s /\ g[1] \notin Report)
        /\ \A g \in B.p : g \in {Idling, Yes("steady"), Fine} \/
             (g \in A.s \cup A.p /\ g[1] \notin Report)
    BY <1>1, <1>3, <1>4
  <2> QED BY <1>4, <2>1, WaitPasses
<1>6. Passes(f, op, Access("check", "", "", "abandon"), B, C)
  <2>1. {Yes("kept"), Fine} \subseteq B.s /\ {Idling, Yes("steady")} \subseteq B.s /\
          (Yes("sure") \in C.s => Yes("sure") \in B.s)
    BY <1>1, <1>4
  <2>2. C.s \cup C.p \subseteq B.s \cup B.p  BY <1>1
  <2> QED BY <1>4, <2>1, <2>2, CheckPasses
<1>7. x.fail \in {"return"} \cup L /\ y.fail \in {"return"} \cup L  BY <1>2
<1>8. Carries(f, op, L, A, <<x>>, B) /\ Carries(f, op, L, B, <<y>>, C)
  BY <1>5, <1>6, <1>7, CarriesOne
<1>9. Carries(f, op, L, A, Wait("abandon"), B) /\ Carries(f, op, L, B, Check("abandon"), C)
  BY <1>8 DEF x, y, Wait, Check
<1>10. Carries(f, op, L, A, Wait("abandon") \o Check("abandon"), C)  BY <1>9, CarriesThen
<1> QED BY <1>10 DEF A, C, Idle

\* A streaming write keeps this while it stores its first word.
StreamKeeps == {Yes("kept"), Yes("sure"), Yes("calm"), Mute, Yes("off")}
\* What the stream starts from.
StreamStart == {Yes("kept"), Yes("sure"), Yes("steady"), Idling}

\* Autoexec is off before the first word.
LEMMA StreamOffCarries ==
  ASSUME NEW f, NEW op, op # "resume", NEW L, "retry" \in L
  PROVE  Carries(f, op, L, Both(StreamStart), W("ABSTRACTAUTO", "off", "retry"),
                 Both(StreamKeeps \cup {Idling, Yes("steady")}))
<1> DEFINE A == Both(StreamStart)
           T == StreamKeeps \cup {Idling, Yes("steady")}
           B == Both(T)
           x == Access("write", "ABSTRACTAUTO", "off", "retry")
<1>1. A.s = StreamStart /\ A.p = StreamStart /\ B.s = T /\ B.p = T  BY DEF Both, At
<1>2. x.fail = "retry"  BY DEF Access
<1>3. {Yes("kept"), Yes("sure"), Yes("steady")} \subseteq A.s /\ Exit(op, "retry", A.s)
  BY <1>1 DEF StreamStart, Exit
<1>4. \A g \in StreamStart : g[1] \notin {"auto", "off", "calm"} \cup Report
  BY DEF StreamStart, Report, Yes, Idling
<1>5. \A g \in StreamStart : Autoexec("off", A, g, TRUE) /\ Autoexec("off", A, g, FALSE)
  BY <1>1, <1>4 DEF Autoexec, Keep, From
<1>6. \A g \in {Mute, Yes("off"), Yes("calm")} : Autoexec("off", A, g, TRUE) /\
        Autoexec("off", A, g, FALSE)
  BY <1>3 DEF Autoexec
<1>7. \A g \in T : g \in StreamStart \cup {Mute, Yes("off"), Yes("calm")}
  BY DEF StreamStart, StreamKeeps
<1>8. (\A g \in B.s : Autoexec("off", A, g, TRUE)) /\ (\A g \in B.p : Autoexec("off", A, g, FALSE))
  BY <1>1, <1>5, <1>6, <1>7
<1> HIDE DEF A, B
<1>9. "retry" # "return"  OBVIOUS
<1>10. Passes(f, op, Access("write", "ABSTRACTAUTO", "off", "retry"), A, B)
  BY <1>3, <1>8, <1>9, OffPasses
<1>11. x.fail \in {"return"} \cup L  BY <1>2
<1>12. Carries(f, op, L, A, <<x>>, B)  BY <1>10, <1>11, CarriesOne
<1> QED BY <1>12 DEF A, B, x, W

\* rvswd_memory_write_streaming: both words are stored, or it is given up with
\* autoexec switched off as far as a write can do it.
LEMMA StreamingCarries ==
  ASSUME NEW f \in Streaming, NEW L
  PROVE  Carries(f, "write", L, Both(StreamStart), WriteStreaming, Both(Dropped))
<1> DEFINE op == "write"
           L1 == L \cup {"retry"}
           L2 == L \cup {"retry", "abandon"}
           A0 == Both(StreamStart)
           A1 == Both(Switching)
           A2 == Both(Switched)
           A3 == At(Stored, {<<"a2", "w2">>})
           A4 == At(Stored, Ceased)
           A5 == Both(Stored \cup Ceased)
           A6 == Both(Dropped)
           p1 == StreamFirst
           p2 == W("ABSTRACTAUTO", "on", "retry")
           p3 == W("DATA0", "w2", "abandon")
           p4 == W("ABSTRACTAUTO", "off", "abandon")
           p5 == Idle("abandon")
           p6 == Done
           p7 == Label("abandon")
           p8 == Clean("ABSTRACTAUTO", "off")
           p9 == Clean("ABSTRACTCS", "clear")
           p10 == Label("retry")
<1>1. op # "resume" /\ "retry" \in L1 /\ "retry" \in L2 /\ "abandon" \in L2 /\ f # "X03X"
  BY DEF Streaming
<1>2. Carries(f, op, L2, A0, p1, A1)
  <2> DEFINE R == StreamKeeps
             Z == StreamTouched
             S == R \cup {Idling, Yes("steady"), Fine, <<"prog", "stream">>, Yes("last"),
                          <<"data1", "a2">>, <<"a1", "w1">>}
  <2>1. Frame(op, "retry", R, Z)
    <3>1. Exit(op, "retry", R) /\ {Yes("kept"), Mute} \subseteq R  BY DEF Exit, StreamKeeps
    <3>2. Report \subseteq Z  BY DEF StreamTouched, Ran
    <3>3. \A g \in R : g[1] \notin Z  BY DEF StreamKeeps, StreamTouched, Ran, Report, Yes, Mute
    <3> QED BY <3>1, <3>2, <3>3 DEF Frame
  <2>2. Carries(f, op, L2, A0, W("ABSTRACTAUTO", "off", "retry"),
                Both(R \cup {Idling, Yes("steady")}))
    BY <1>1, StreamOffCarries
  <2>3. \A g \in R : g[1] \notin {"a2", "mailbox"}  BY DEF StreamKeeps, Yes, Mute
  <2>4. Yes("off") \in R  BY DEF StreamKeeps
  <2> HIDE DEF R
  <2>5. StreamTouched \subseteq Z  OBVIOUS
  <2> HIDE DEF Z, op, L2, A0
  <2>6. Carries(f, op, L2, A0, StreamFirst, Both(S))
    BY <1>1, <2>1, <2>2, <2>3, <2>4, <2>5, StreamFirstCarries
  <2>7. Switching \subseteq S  BY DEF S, R, Switching, StreamKeeps
  <2> HIDE DEF S
  <2>8. Covers(Both(S), A1)  BY <2>7, BothCovers
  <2> QED BY <2>6, <2>8, CarriesCovers, CoversSelf DEF p1
<1>3. Carries(f, op, L2, A1, p2, A2)  BY <1>1, SwitchCarries
<1>4. Carries(f, op, L2, A2, p3, A3)  BY <1>1, StreamLastCarries
<1>5. Carries(f, op, L2, A3, p4, A4)  BY <1>1, CeaseCarries
<1>6. Carries(f, op, L2, A4, p5, A5)  BY <1>1, AwaitCarries
<1>7. Carries(f, op, L2, A5, p6, A6)
  <2>1. A5.s = Stored \cup Ceased /\ A5.p = Stored \cup Ceased  BY DEF Both, At
  <2>2. FinalS(f, op) \subseteq Stored \cup Ceased  BY DEF FinalS, Stored, Ceased
  <2>3. FinalP(f, op) \subseteq Stored \cup Ceased  BY <2>2 DEF FinalP, Stored, Ceased
  <2> HIDE DEF A5, op
  <2> QED BY <2>1, <2>2, <2>3, DoneCarries
<1>8. Carries(f, op, L1, A6, p7, A6)
  <2>1. E(f, op, "abandon") = Dropped /\ Yes("kept") \in E(f, op, "abandon")  BY DroppedExpects
  <2> QED BY <2>1, LabelCarries, CoversSelf
<1>9. Carries(f, op, L1, A6, p8, A6) /\ Carries(f, op, L1, A6, p9, A6)
  <2>1. A6.s = Dropped /\ A6.p = Dropped  BY DEF Both, At
  <2>2. {Yes("kept"), Yes("sure"), Yes("steady")} \subseteq Dropped /\
          \A g \in Dropped : g[1] \notin {"calm", "auto"}
    BY DEF Dropped, Yes, Idling
  <2> HIDE DEF A6
  <2>3. Yes("kept") \in A6.s /\ {Yes("sure"), Yes("steady")} \subseteq A6.s /\
          (Yes("sure") \in A6.s => Yes("sure") \in A6.s)
        /\ \A g \in A6.s \cup A6.p : g \in A6.s /\ g[1] \notin {"calm", "auto"}
    BY <2>1, <2>2
  <2>4. Carries(f, op, L1, A6, Clean("ABSTRACTAUTO", "off"), A6)  BY <2>3, CleanCarries
  <2>5. Carries(f, op, L1, A6, Clean("ABSTRACTCS", "clear"), A6)  BY <2>3, CleanCarries
  <2> QED BY <2>4, <2>5
<1>10. Carries(f, op, L, A6, p10, A6)
  <2>1. E(f, op, "retry") = Dropped /\ Yes("kept") \in E(f, op, "retry")  BY DroppedExpects
  <2> QED BY <2>1, LabelCarries, CoversSelf
<1>11. HasLabel(p7, "abandon") /\ HasLabel(p10, "retry")  BY LabelHas
<1>12. WriteStreaming = p1 \o p2 \o p3 \o p4 \o p5 \o p6 \o p7 \o p8 \o p9 \o p10
  BY DEF WriteStreaming, StreamFirst
<1> HIDE DEF p1, p2, p3, p4, p5, p6, p7, p8, p9, p10, A0, A1, A2, A3, A4, A5, A6
<1>13. Carries(f, op, L2, A0, p1 \o p2 \o p3 \o p4 \o p5 \o p6, A6)
  BY <1>2, <1>3, <1>4, <1>5, <1>6, <1>7, Chain6
<1>14. Carries(f, op, L1, A0, p1 \o p2 \o p3 \o p4 \o p5 \o p6 \o p7, A6)
  <2>1. \A l \in L2 : l \in L1 \/ HasLabel(p7, l)  BY <1>11
  <2> HIDE DEF L1, L2
  <2> QED BY <1>8, <1>13, <2>1, CarriesConcat
<1>15. Carries(f, op, L1, A0, p1 \o p2 \o p3 \o p4 \o p5 \o p6 \o p7 \o p8, A6)
  BY <1>9, <1>14, CarriesThen
<1>16. Carries(f, op, L1, A0, p1 \o p2 \o p3 \o p4 \o p5 \o p6 \o p7 \o p8 \o p9, A6)
  BY <1>9, <1>15, CarriesThen
<1>17. Carries(f, op, L, A0, p1 \o p2 \o p3 \o p4 \o p5 \o p6 \o p7 \o p8 \o p9 \o p10, A6)
  <2>1. \A l \in L1 : l \in L \/ HasLabel(p10, l)  BY <1>11
  <2> HIDE DEF L1, L2
  <2> QED BY <1>10, <1>16, <2>1, CarriesConcat
<1> QED BY <1>12, <1>17 DEF A0, A6

\* What the second attempt of a block write starts with: by slow words, or by
\* the accesses of the V20X, which need autoexec off and do not look.
Retried == {Yes("kept"), Yes("sure"), Yes("steady"), Yes("calm"), Idling}
\* What is known when the V20X writes the block again, word by word.
RetriedAccess == {Yes("kept"), Yes("calm"), Mute, Idling}

\* The clean-up before the second attempt.
LEMMA RetryCarries ==
  ASSUME NEW f, NEW op, NEW L
  PROVE  /\ Carries(f, op, L, Both(Dropped), Retry, Both(Retried))
         /\ Carries(f, op, L, Both(Dropped), Retry, Both(RetriedAccess))
<1> DEFINE A0 == Both(Dropped)
           A1 == Both(Dropped \cup {Yes("calm")})
           A2 == Both(Retried)
           A3 == Both(RetriedAccess)
           x == Access("newtry", "", "", "return")
           p1 == Clean("ABSTRACTAUTO", "off")
           p2 == Clean("ABSTRACTCS", "clear")
           p3 == NewTry
<1>1. /\ A0.s = Dropped /\ A0.p = Dropped /\ A1.s = Dropped \cup {Yes("calm")} /\
           A1.p = Dropped \cup {Yes("calm")}
      /\ A2.s = Retried /\ A2.p = Retried /\ A3.s = RetriedAccess /\ A3.p = RetriedAccess
  BY DEF Both, At
<1>2. /\ {Yes("kept"), Yes("sure"), Yes("steady")} \subseteq Dropped /\
           \A g \in Dropped : g[1] \notin {"calm", "auto"}
      /\ Retried \subseteq Dropped \cup {Yes("calm")} /\ \A g \in Retried : g[1] \notin Report
      /\ Yes("sure") \notin RetriedAccess
      /\ \A g \in RetriedAccess : g = Mute \/
           (g \in Dropped \cup {Yes("calm")} /\ g[1] \notin Report)
  BY DEF Dropped, Retried, RetriedAccess, Report, Yes, Idling, Mute
<1>3. x.do = "newtry" /\ x.fail = "return"  BY DEF Access
<1> HIDE DEF A0, A1, A2, A3, x
<1>4. Carries(f, op, L, A0, p1, A1)
  <2>1. Yes("kept") \in A0.s /\ {Yes("sure"), Yes("steady")} \subseteq A0.s /\
          (Yes("sure") \in A1.s => Yes("sure") \in A0.s)
        /\ \A g \in A1.s \cup A1.p : (g \in A0.s /\ g[1] \notin {"calm", "auto"}) \/ g = Yes("calm")
    BY <1>1, <1>2
  <2> QED BY <2>1, CleanCarries
<1>5. Carries(f, op, L, A1, p2, A1)
  <2>1. Yes("kept") \in A1.s /\ \A g \in A1.s \cup A1.p : g \in A1.s  BY <1>1, <1>2
  <2> QED BY <2>1, CleanCarries
<1>6. Asks(f, op, x, A1) /\ Exits(f, op, x, A1)
  <2>1. Yes("kept") \in A1.s  BY <1>1, <1>2
  <2> QED BY <1>3, <2>1 DEF Asks, Exits, Jumps
<1>7. Passes(f, op, x, A1, A2)
  <2>1. \A g \in A2.s \cup A2.p : Gives(f, x, A1, g, TRUE) /\ Gives(f, x, A1, g, FALSE)
    BY <1>1, <1>2, <1>3 DEF Gives, Keep, From
  <2>2. Yes("sure") \in A2.s => Yes("sure") \in A1.s  BY <1>1, <1>2
  <2> QED BY <1>6, <2>1, <2>2, PassesWhen
<1>8. Passes(f, op, x, A1, A3)
  <2>1. \A g \in A3.s \cup A3.p : g = Mute \/ Gives(f, x, A1, g, TRUE)
    BY <1>1, <1>2, <1>3 DEF Gives, Keep, From
  <2>2. Yes("calm") \in A1.s /\ Yes("sure") \notin A3.s  BY <1>1, <1>2
  <2>3. Flow(f, op, x, A1, A3)  BY <1>3, <1>6, <2>1, <2>2 DEF Flow
  <2> QED BY <2>3, FlowPasses
<1>9. Carries(f, op, L, A1, <<x>>, A2) /\ Carries(f, op, L, A1, <<x>>, A3)
  BY <1>3, <1>7, <1>8, CarriesOne
<1>10. Carries(f, op, L, A1, p3, A2) /\ Carries(f, op, L, A1, p3, A3)  BY <1>9 DEF p3, x, NewTry
<1> HIDE DEF p1, p2, p3
<1>11. Carries(f, op, L, A0, p1 \o p2 \o p3, A2) /\ Carries(f, op, L, A0, p1 \o p2 \o p3, A3)
  BY <1>4, <1>5, <1>10, Chain3
<1> QED BY <1>11 DEF Retry, A0, A2, A3, p1, p2, p3

\* The second attempt of the L103 and the V30X.
LEMMA SlowAgainCarries ==
  ASSUME NEW f, NEW op, op # "resume", f # "X03X", NEW L
  PROVE  Carries(f, op, L, Both(Retried), WriteSlow,
                 Both({Yes("kept"), Yes("calm"), Yes("off"), <<"a1", "w1">>, <<"a2", "w2">>}))
<1> DEFINE R == {Yes("kept"), Yes("calm"), Mute, Yes("sure")}
           Z == {"prog", "sync"} \cup SlowTouched("a1") \cup SlowTouched("a2")
           T == R \cup {Idling, Yes("off")}
           A == Both(Retried)
           B == Both(T)
           C == Both({Yes("kept"), Yes("calm"), Yes("off"), <<"a1", "w1">>, <<"a2", "w2">>})
           S == R \cup {Idling, Yes("off"), Yes("steady"), Fine, Yes("halted"), <<"a1", "w1">>,
                        <<"a2", "w2">>}
           x == Access("write", "ABSTRACTAUTO", "off", "return")
<1>1. Frame(op, "return", R, Z)
  <2>1. Exit(op, "return", R) /\ {Yes("kept"), Mute} \subseteq R  BY DEF Exit
  <2>2. Report \subseteq Z  BY DEF SlowTouched, Ran
  <2>3. \A g \in R : g[1] \notin Z  BY DEF SlowTouched, Ran, Report, Yes, Mute
  <2> QED BY <2>1, <2>2, <2>3 DEF Frame
<1>2. A.s = Retried /\ A.p = Retried /\ B.s = T /\ B.p = T /\ x.fail = "return"
  BY DEF Both, At, Access
<1>3. {Yes("kept"), Yes("sure"), Yes("steady"), Yes("calm")} \subseteq A.s /\
        Exit(op, "return", A.s)
  BY <1>2 DEF Retried, Exit
<1>4. \A g \in T : g \in {Yes("off"), Yes("calm"), Mute} \/
        (g \in Retried /\ g[1] \notin {"auto", "off", "calm"} \cup Report)
  BY DEF Retried, Report, Yes, Idling
<1>5. \A g \in T : Autoexec("off", A, g, TRUE) /\ Autoexec("off", A, g, FALSE)
  BY <1>2, <1>3, <1>4 DEF Autoexec, Keep, From
<1>6. (\A g \in B.s : Autoexec("off", A, g, TRUE)) /\ (\A g \in B.p : Autoexec("off", A, g, FALSE))
  BY <1>2, <1>5
<1> HIDE DEF A
<1>7. Carries(f, op, L, A, W("ABSTRACTAUTO", "off", "return"), B)
  <2> HIDE DEF B
  <2>1. Passes(f, op, Access("write", "ABSTRACTAUTO", "off", "return"), A, B)
    BY <1>3, <1>6, OffPasses
  <2>2. x.fail \in {"return"} \cup L  BY <1>2
  <2>3. Carries(f, op, L, A, <<x>>, B)  BY <2>1, <2>2, CarriesOne
  <2> QED BY <2>3 DEF x, W
<1>8. {"prog", "sync"} \cup SlowTouched("a1") \cup SlowTouched("a2") \subseteq Z  OBVIOUS
<1> HIDE DEF R, Z
<1>9. Carries(f, op, L, A, WriteSlow, Both(S))  BY <1>1, <1>7, <1>8, WriteSlowFrom
<1>10. {Yes("kept"), Yes("calm"), Yes("off"), <<"a1", "w1">>, <<"a2", "w2">>} \subseteq S  BY DEF R
<1> HIDE DEF S
<1>11. Covers(Both(S), C)  BY <1>10, BothCovers
<1> QED BY <1>9, <1>11, CarriesCovers, CoversSelf DEF A

\* The V20X's single word, and its block word by word.
LEMMA AccessCarries ==
  ASSUME NEW f, NEW op, op # "resume", f # "X03X", NEW L
  PROVE  /\ Carries(f, op, L, Both(RetriedAccess), WriteAccess("a1", "w1"),
                    At({Yes("kept"), Yes("calm"), Mute, Yes("aim")}, {<<"a1", "w1">>}))
         /\ Carries(f, op, L, At({Yes("kept"), Yes("calm"), Mute, Yes("aim")}, {<<"a1", "w1">>}),
                    WriteAccess("a2", "w2"),
                    At({Yes("kept"), Yes("calm")}, {<<"a1", "w1">>, <<"a2", "w2">>}))
<1> DEFINE R == {Yes("kept"), Yes("calm"), Mute}
           Z == {"data1", "aim", "data0", "loose"} \cup Blocks \cup Ran
           A0 == At(R \cup {Idling}, {})
           A1 == At(R \cup {Yes("aim")}, {<<"a1", "w1">>})
           A2 == At(R \cup {Yes("aim")}, {<<"a2", "w2">>} \cup {<<"a1", "w1">>})
           B0 == Both(RetriedAccess)
           B1 == At({Yes("kept"), Yes("calm"), Mute, Yes("aim")}, {<<"a1", "w1">>})
           B2 == At({Yes("kept"), Yes("calm")}, {<<"a1", "w1">>, <<"a2", "w2">>})
           p1 == WriteAccess("a1", "w1")
           p2 == WriteAccess("a2", "w2")
<1>1. Frame(op, "return", R, Z)
  <2>1. Exit(op, "return", R) /\ {Yes("kept"), Mute} \subseteq R  BY DEF Exit
  <2>2. Report \subseteq Z  BY DEF Ran
  <2>3. \A g \in R : g[1] \notin Z  BY DEF Blocks, Ran, Report, Yes, Mute
  <2> QED BY <2>1, <2>2, <2>3 DEF Frame
<1>2. {"data1", "aim", "data0", "loose"} \cup Blocks \cup Ran \subseteq Z  OBVIOUS
<1>3. /\ "a1" \in Blocks \cup {"peripheral"} /\ "a2" \in Blocks \cup {"peripheral"}
      /\ Written("a1", "w1") \cup {} = {<<"a1", "w1">>} /\ Written("a2", "w2") = {<<"a2", "w2">>}
      /\ \A g \in {<<"a1", "w1">>} : g[1] \in Blocks \ {"a2"}
      /\ "a1" # "peripheral" /\ "a2" # "peripheral"
  BY DEF Blocks, Written
<1>4. Covers(B0, A0) /\ Covers(A1, B1) /\ Covers(B1, A1) /\ Covers(A2, B2)
  BY DEF Covers, Both, At, RetriedAccess
<1> HIDE DEF R, Z, B0, B1, B2
<1>5. Carries(f, op, L, A0, p1, A1)
  <2> DEFINE I == {Idling}
             K == {}
  <2>1. I # {} /\ I \subseteq {Idling, Yes("aim")} /\ \A g \in K : g[1] \in Blocks \ {"a1"}  OBVIOUS
  <2> HIDE DEF I, K
  <2>2. Carries(f, op, L, At(R \cup I, K), WriteAccess("a1", "w1"),
                At(R \cup {Yes("aim")}, Written("a1", "w1") \cup K))
    BY <1>1, <1>2, <1>3, <2>1, WriteAccessCarries
  <2>3. Written("a1", "w1") \cup K = {<<"a1", "w1">>}  BY <1>3 DEF K
  <2> QED BY <2>2, <2>3 DEF I, K
<1>6. Carries(f, op, L, A1, p2, A2)
  <2> DEFINE I == {Yes("aim")}
             K == {<<"a1", "w1">>}
  <2>1. I # {} /\ I \subseteq {Idling, Yes("aim")} /\ \A g \in K : g[1] \in Blocks \ {"a2"}  BY <1>3
  <2> HIDE DEF I, K
  <2>2. Carries(f, op, L, At(R \cup I, K), WriteAccess("a2", "w2"),
                At(R \cup {Yes("aim")}, Written("a2", "w2") \cup K))
    BY <1>1, <1>2, <1>3, <2>1, WriteAccessCarries
  <2> QED BY <1>3, <2>2 DEF I, K
<1> HIDE DEF A0, A1, A2, p1, p2
<1>7. Carries(f, op, L, B0, p1, B1) /\ Carries(f, op, L, B1, p2, B2)
  BY <1>4, <1>5, <1>6, CarriesCovers
<1> QED BY <1>7 DEF B0, B1, B2, p1, p2

\* rvswd_memory_write32_direct and the loader runs end with a clean-up.
LEMMA ClearedCarries ==
  ASSUME NEW f, NEW op, op # "resume", NEW L, NEW A, NEW B, FinalS(f, op) \subseteq A.s,
         FinalP(f, op) \subseteq A.s \cup A.p
  PROVE  Carries(f, op, L, A, Cleared, B)
<1> DEFINE S == {Yes("kept"), Yes("told"), Yes("calm")}
           C == Both(S)
           p1 == Done
           p2 == Label("cleanup")
           p3 == Clean("ABSTRACTCS", "clear")
           p4 == GiveUp
<1>1. E(f, op, "cleanup") = S /\ C.s = S /\ C.p = S /\ S = {Yes("kept"), Yes("told"), Yes("calm")}
  BY DEF E, Both, At
<1>2. C = Both(E(f, op, "cleanup")) /\ Yes("kept") \in E(f, op, "cleanup")  BY <1>1
<1> HIDE DEF C, S
<1>3. Carries(f, op, L, A, p1, C)  BY DoneCarries
<1>4. Carries(f, op, L, C, p2, C)  BY <1>2, LabelCarries, CoversSelf
<1>5. Carries(f, op, L, C, p3, C)
  <2>1. Yes("kept") \in C.s /\ \A g \in C.s \cup C.p : g \in C.s  BY <1>1
  <2> QED BY <2>1, CleanCarries
<1>6. Carries(f, op, L, C, p4, B)
  <2>1. {Yes("kept"), Yes("told"), Yes("calm")} \subseteq C.s  BY <1>1
  <2> QED BY <2>1, GiveUpCarries
<1> HIDE DEF p1, p2, p3, p4
<1>7. Carries(f, op, L, A, p1 \o p2 \o p3 \o p4, B)  BY <1>3, <1>4, <1>5, <1>6, Chain4
<1> QED BY <1>7 DEF Cleared, p1, p2, p3, p4

\* The end of a program has the clean-up label.
LEMMA ClearedHas ==
  HasLabel(Cleared, "cleanup")
<1> DEFINE S == {Access("done", "", "", "return"), Access("label", "cleanup", "", "return"),
                 Access("clean", "ABSTRACTCS", "clear", "return"), Access("giveup", "", "",
                                                                          "return")}
           p1 == Done
           p2 == Label("cleanup")
           p3 == Clean("ABSTRACTCS", "clear")
           p4 == GiveUp
<1>1. p1 \in Seq(S) /\ p2 \in Seq(S) /\ p3 \in Seq(S) /\ p4 \in Seq(S)
  BY DEF Done, Label, Clean, GiveUp
<1>2. HasLabel(p2, "cleanup")  BY LabelHas
<1> HIDE DEF p1, p2, p3, p4, S
<1>3. p1 \o p2 \in Seq(S) /\ p1 \o p2 \o p3 \in Seq(S)  BY <1>1
<1>4. HasLabel(p1 \o p2, "cleanup")  BY <1>1, <1>2, LabelAfter
<1>5. HasLabel(p1 \o p2 \o p3, "cleanup")  BY <1>1, <1>3, <1>4, LabelAfter
<1>6. HasLabel(p1 \o p2 \o p3 \o p4, "cleanup")  BY <1>1, <1>3, <1>5, LabelAfter
<1> QED BY <1>6 DEF Cleared, p1, p2, p3, p4

-----------------------------------------------------------------------------
(* The programs of the operations.                                         *)

\* What an operation knows when it starts, its debug module unlocked.
Opening(f, op) == {g \in FirstS(f, op) : g[1] \notin Report} \cup {Yes("unlocked")}

\* What an operation knows before its first access, once the unlock sequence is sent.
LEMMA OpeningKnows ==
  ASSUME NEW f \in AllFamilies, NEW op
  PROVE  /\ First(f, op) = Both(FirstS(f, op))
         /\ {Yes("steady"), Yes("calm"), Yes("released"), Yes("kept"), Idling, <<"a1", "a1">>,
             Yes("free"),
             <<"page", "old">>, <<"mode", "none">>, Yes("sync"), Yes("unlocked")}
               \subseteq Opening(f, op)
         /\ f \notin Streaming => {Yes("sure"), Mute, Yes("off")} \subseteq Opening(f, op)
         /\ op = "write" => Yes("sure") \in Opening(f, op)
         /\ op # "write" => Mute \in Opening(f, op)
         /\ f # "X03X" => Opening(f, op) \subseteq FirstS(f, op)
         /\ \A g \in Opening(f, op) : g[1] \notin Report
<1>1. First(f, op) = Both(FirstS(f, op))  BY DEF First, Both, At
<1> DEFINE S == {Yes("steady"), Yes("calm"), Yes("released"), Yes("kept"), Idling, <<"a1", "a1">>,
                 Yes("free"),
             <<"page", "old">>, <<"mode", "none">>, Yes("sync")}
<1>2. S \subseteq FirstS(f, op) /\ \A g \in S : g[1] \notin Report
  BY DEF FirstS, Report, Yes, Idling
<1>3. \A g \in {Yes("sure"), Mute, Yes("off"), Yes("unlocked")} : g[1] \notin Report
  BY DEF Report, Yes, Mute
<1>4. S \subseteq Opening(f, op)  BY <1>2 DEF Opening
<1>5. f \notin Streaming => {Yes("sure"), Mute, Yes("off")} \subseteq FirstS(f, op)  BY DEF FirstS
<1>6. op = "write" => Yes("sure") \in FirstS(f, op)  BY DEF FirstS
<1>7. op # "write" => Mute \in FirstS(f, op)  BY DEF FirstS
<1>8. f # "X03X" => Yes("unlocked") \in FirstS(f, op)  BY DEF FirstS
<1>9. f # "X03X" => Opening(f, op) \subseteq FirstS(f, op)  BY <1>8 DEF Opening
<1>10. f \notin Streaming => {Yes("sure"), Mute, Yes("off")} \subseteq Opening(f, op)
  BY <1>3, <1>5 DEF Opening
<1>11. /\ op = "write" => Yes("sure") \in Opening(f, op)
       /\ op # "write" => Mute \in Opening(f, op)
  BY <1>3, <1>6, <1>7 DEF Opening
<1>12. Yes("unlocked") \in Opening(f, op) /\ \A g \in Opening(f, op) : g[1] \notin Report
  BY <1>3 DEF Opening
<1> QED BY <1>1, <1>4, <1>9, <1>10, <1>11, <1>12

\* A memory write unlocks the debug module of the family that loses it.
LEMMA UnlockFirst ==
  ASSUME NEW f \in AllFamilies, NEW op, op # "resume", NEW L
  PROVE  Carries(f, op, L, First(f, op), UnlockForWrite(f), Both(Opening(f, op)))
<1> DEFINE A == First(f, op)
           B == Both(Opening(f, op))
<1>1. A.s = FirstS(f, op) /\ A.p = FirstS(f, op) /\ B.s = Opening(f, op) /\ B.p = Opening(f, op)
  BY DEF First, Both, At
<1>2. /\ {Yes("calm"), Yes("kept"), Yes("free")} \subseteq FirstS(f, op)
      /\ \A g \in Opening(f, op) : g = Yes("unlocked") \/
           (g \in FirstS(f, op) /\ g[1] \notin Report)
      /\ Yes("sure") # Yes("unlocked")
  BY DEF FirstS, Opening, Yes
<1>3. f # "X03X" => Opening(f, op) \subseteq FirstS(f, op)  BY OpeningKnows
<1> HIDE DEF A, B
<1>4. CASE f = "X03X"
  <2>1. Yes("kept") \in A.s /\ Exit(op, "return", A.s) /\ Yes("free") \in A.s /\
          (Yes("sure") \in B.s => Yes("sure") \in A.s)
    BY <1>1, <1>2 DEF Exit
  <2>2. \A g \in B.s \cup B.p : (g \in A.s /\ g[1] \notin Report) \/
          (g = Yes("unlocked") /\ Yes("free") \in A.s)
    BY <1>1, <1>2
  <2>3. Carries(f, op, L, A, Unlock, B)  BY <2>1, <2>2, UnlockCarries
  <2> QED BY <1>4, <2>3 DEF UnlockForWrite, A, B
<1>5. CASE f # "X03X"
  <2>1. Covers(A, B)  BY <1>1, <1>3, <1>5 DEF Covers
  <2>2. Carries(f, op, L, A, <<>>, B)  BY <2>1, CarriesNone
  <2> QED BY <1>5, <2>2 DEF UnlockForWrite, A, B
<1> QED BY <1>4, <1>5

\* The function pointer write32 of the family.
WordTouched == {"prog", "sync", "x8", "x9", "data1", "aim", "data0", "loose"} \cup Blocks \cup Ran
\* What a single word write is known to have done: nobody waits for the V20X's.
Stores(f, a, v) == IF f = "V20X" THEN {} ELSE {Idling, <<a, v>>}

\* rvswd_memory_ops.write32 of every family writes its word.
LEMMA Write32Carries ==
  ASSUME NEW f \in AllFamilies, NEW op, op # "resume", NEW L, "cleanup" \in L, NEW a \in Blocks,
         NEW v,
         NEW R, NEW Z, Frame(op, "return", R, Z), WordTouched \subseteq Z, Yes("unlocked") \in R
  PROVE  /\ Carries(f, op, L, Both(R \cup {Idling}), Write32(f, a, v), Both(R \cup Stores(f, a, v)))
         /\ f = "V20X"
              => Carries(f, op, L, Both(R \cup {Idling}), Write32(f, a, v), At(R, {<<a, v>>}))
<1>1. Written(a, v) = {<<a, v>>} /\ a \in Blocks \cup {"peripheral"} /\ a # "peripheral"
  BY DEF Written, Blocks
<1>2. Yes("kept") \in R /\ \A g \in R : g[1] \notin Z  BY DEF Frame
<1>3. CASE f = "X03X"
  <2> DEFINE K == {}
             S == R \cup {Idling, Yes("steady"), Fine, <<a, v>>} \cup K
  <2>1. \A g \in K : g[1] \in Blocks \ {a}  OBVIOUS
  <2>2. {"data1", "aim", "data0", "loose"} \cup Blocks \cup Ran \subseteq Z  BY DEF WordTouched
  <2>3. R \cup {Idling} \cup K = R \cup {Idling}  OBVIOUS
  <2> HIDE DEF K
  <2>4. Carries(f, op, L, Both(R \cup {Idling} \cup K), WriteDirect(a, v), Both(S))
    BY <2>1, <2>2, WriteDirectCarries
  <2>5. R \cup {Idling, <<a, v>>} \subseteq S  OBVIOUS
  <2> HIDE DEF S
  <2>6. Covers(Both(S), Both(R \cup {Idling, <<a, v>>}))  BY <2>5, BothCovers
  <2>7. Carries(f, op, L, Both(R \cup {Idling}), WriteDirect(a, v), Both(R \cup {Idling, <<a, v>>}))
    BY <2>3, <2>4, <2>6, CarriesCovers, CoversSelf
  <2> QED BY <1>3, <2>7 DEF Write32, Stores
<1>4. CASE f = "V20X"
  <2> DEFINE I == {Idling}
             K == {}
             C == At(R \cup {Yes("aim")}, Written(a, v) \cup K)
  <2>1. I # {} /\ I \subseteq {Idling, Yes("aim")} /\ \A g \in K : g[1] \in Blocks \ {a}  OBVIOUS
  <2>2. {"data1", "aim", "data0", "loose"} \cup Blocks \cup Ran \subseteq Z  BY DEF WordTouched
  <2>3. Covers(Both(R \cup {Idling}), At(R \cup I, K)) /\ Covers(C, Both(R)) /\
          Covers(C, At(R, {<<a, v>>}))
    BY <1>1 DEF Covers, Both, At
  <2> HIDE DEF I, K
  <2>4. Carries(f, op, L, At(R \cup I, K), WriteAccess(a, v), C)
    BY <1>1, <1>4, <2>1, <2>2, WriteAccessCarries
  <2> HIDE DEF C
  <2>5. /\ Carries(f, op, L, Both(R \cup {Idling}), WriteAccess(a, v), Both(R))
        /\ Carries(f, op, L, Both(R \cup {Idling}), WriteAccess(a, v), At(R, {<<a, v>>}))
    BY <2>3, <2>4, CarriesCovers
  <2>6. R \cup Stores(f, a, v) = R /\ Write32(f, a, v) = WriteAccess(a, v)
    BY <1>4 DEF Stores, Write32
  <2> QED BY <2>5, <2>6
<1>5. CASE f \notin {"X03X", "V20X"}
  <2> DEFINE S == R \cup {Idling, Yes("steady"), Fine, Yes("halted")} \cup Written(a, v)
  <2>1. {"prog", "sync"} \cup SlowTouched(a) \subseteq Z  BY DEF WordTouched, SlowTouched
  <2>2. Carries(f, op, L, Both(R \cup {Yes("kept")}), Write32Slow(a, v), Both(S))
    BY <1>1, <1>5, <2>1, Write32SlowCarries
  <2>3. R \cup {Idling, <<a, v>>} \subseteq S /\ R \cup {Yes("kept")} \subseteq R \cup {Idling}
    BY <1>1, <1>2
  <2> HIDE DEF S
  <2>4. Covers(Both(S), Both(R \cup {Idling, <<a, v>>})) /\
          Covers(Both(R \cup {Idling}), Both(R \cup {Yes("kept")}))
    BY <2>3, BothCovers
  <2>5. Carries(f, op, L, Both(R \cup {Idling}), Write32Slow(a, v), Both(R \cup {Idling, <<a, v>>}))
    BY <2>2, <2>4, CarriesCovers
  <2>6. Stores(f, a, v) = {Idling, <<a, v>>} /\ Write32(f, a, v) = Write32Slow(a, v)
    BY <1>5 DEF Stores, Write32
  <2> QED BY <1>5, <2>5, <2>6
<1> QED BY <1>3, <1>4, <1>5

\* The block write of a family whose words need no second attempt.
LEMMA DirectBlock ==
  ASSUME NEW f, f = "X03X", NEW L
  PROVE  Carries(f, "write", L, Both(Opening(f, "write")), WriteBlock(f), Final(f, "write"))
<1> DEFINE op == "write"
           M == L \cup {"cleanup"}
           R == {Yes("kept"), Yes("calm"), Mute, Yes("off"), Yes("unlocked")}
           Z == {"data1", "aim", "data0", "loose"} \cup Blocks \cup Ran
           K0 == {}
           K1 == {<<"a1", "w1">>}
           S0 == R \cup {Idling} \cup K0
           S1 == R \cup {Idling, Yes("steady"), Fine, <<"a1", "w1">>} \cup K0
           S2 == R \cup {Idling} \cup K1
           S3 == R \cup {Idling, Yes("steady"), Fine, <<"a2", "w2">>} \cup K1
           p1 == WriteDirect("a1", "w1")
           p2 == WriteDirect("a2", "w2")
           A == Both(Opening(f, op))
           F == Final(f, op)
<1>1. Frame(op, "return", R, Z)
  <2>1. Exit(op, "return", R) /\ {Yes("kept"), Mute} \subseteq R  BY DEF Exit
  <2>2. Report \subseteq Z  BY DEF Ran
  <2>3. \A g \in R : g[1] \notin Z  BY DEF Blocks, Ran, Report, Yes, Mute
  <2> QED BY <2>1, <2>2, <2>3 DEF Frame
<1>2. /\ "a1" \in Blocks /\ "a2" \in Blocks /\ "cleanup" \in M /\ Yes("unlocked") \in R /\
           op # "resume"
      /\ (\A g \in K0 : g[1] \in Blocks \ {"a1"}) /\ \A g \in K1 : g[1] \in Blocks \ {"a2"}
      /\ {"data1", "aim", "data0", "loose"} \cup Blocks \cup Ran \subseteq Z
  BY DEF Blocks
<1>3. S0 \subseteq Opening(f, op)
  <2>1. f \in AllFamilies /\ f \notin Streaming  BY DEF AllFamilies, Streaming
  <2>2. {Yes("calm"), Yes("kept"), Idling, Yes("unlocked"), Mute, Yes("off")}
          \subseteq Opening(f, op)
    BY <2>1, OpeningKnows
  <2> QED BY <2>2
<1>4. S2 \subseteq S1  OBVIOUS
<1>5. FinalS(f, op) \subseteq S3 /\ FinalP(f, op) \subseteq S3 /\ Both(S3).s = S3
  BY DEF FinalS, FinalP, Both, At
<1> HIDE DEF R, Z, K0, K1, op, M, A, F
<1>6. Carries(f, op, M, Both(S0), p1, Both(S1))  BY <1>1, <1>2, WriteDirectCarries
<1>7. Carries(f, op, M, Both(S2), p2, Both(S3))  BY <1>1, <1>2, WriteDirectCarries
<1>8. Carries(f, op, L, Both(S3), Cleared, F)  BY <1>2, <1>5, ClearedCarries
<1> HIDE DEF S0, S1, S2, S3, p1, p2
<1>9. Covers(A, Both(S0)) /\ Covers(Both(S1), Both(S2))  BY <1>3, <1>4, BothCovers DEF A
<1>10. Carries(f, op, M, A, p1, Both(S2))  BY <1>6, <1>9, CarriesCovers
<1>11. Carries(f, op, M, A, p1 \o p2, Both(S3))  BY <1>7, <1>10, CarriesThen
<1>12. \A l \in M : l \in L \/ HasLabel(Cleared, l)  BY ClearedHas DEF M
<1>13. Carries(f, op, L, A, p1 \o p2 \o Cleared, F)  BY <1>8, <1>11, <1>12, CarriesConcat
<1>14. WriteBlock(f) = p1 \o p2 \o Cleared  BY DEF WriteBlock, p1, p2
<1> QED BY <1>13, <1>14 DEF A, F, op

\* The block write of a CH58x or CH59x, whatever the operation it is part of.
SlowStart == {Yes("kept"), Yes("sure"), Yes("calm"), Mute, Idling, Yes("steady")}

\* The block write of the CH58x and CH59x is the slow one.
LEMMA SlowBlock ==
  ASSUME NEW f, f \in {"CH58X", "CH59X"}, NEW op, op # "resume", NEW L, NEW X,
         \A g \in X : g = Yes("unlocked") \/ g = Yes("free")
  PROVE  Carries(f, op, L, Both(SlowStart \cup X), WriteBlock(f),
                 Both({Yes("kept"), Yes("sure"), Yes("calm"), Mute, Idling, Yes("off"),
                       Yes("halted"), <<"a1", "w1">>, <<"a2", "w2">>}))
<1> DEFINE R == {Yes("kept"), Yes("sure"), Yes("calm"), Mute}
           Z == {"prog", "sync"} \cup SlowTouched("a1") \cup SlowTouched("a2")
           S == R \cup {Idling, Yes("steady")}
           T == R \cup {Idling, Yes("off"), Yes("steady"), Fine, Yes("halted"), <<"a1", "w1">>,
                        <<"a2", "w2">>}
           U == {Yes("kept"), Yes("sure"), Yes("calm"), Mute, Idling, Yes("off"), Yes("halted"),
                 <<"a1", "w1">>, <<"a2", "w2">>}
<1>1. Frame(op, "return", R, Z)
  <2>1. Exit(op, "return", R) /\ {Yes("kept"), Mute} \subseteq R  BY DEF Exit
  <2>2. Report \subseteq Z  BY DEF SlowTouched, Ran
  <2>3. \A g \in R : g[1] \notin Z  BY DEF SlowTouched, Ran, Report, Yes, Mute
  <2> QED BY <2>1, <2>2, <2>3 DEF Frame
<1>2. /\ {"prog", "sync"} \cup SlowTouched("a1") \cup SlowTouched("a2") \subseteq Z
      /\ Yes("sure") \in R /\ f # "X03X" /\ \A g \in R : g[1] \in {"auto", "off", "calm"}
           => g \in {Mute, Yes("off"), Yes("calm")}
  BY DEF Yes
<1>3. S \subseteq SlowStart \cup X /\ U \subseteq T  BY DEF SlowStart
<1> HIDE DEF R, Z
<1>4. Carries(f, op, L, Both(R \cup {Idling, Yes("steady")}), WriteSlow,
              Both(R
                   \cup {Idling, Yes("off"), Yes("steady"), Fine, Yes("halted"), <<"a1", "w1">>,
                         <<"a2", "w2">>}))
  BY <1>1, <1>2, WriteSlowCarries
<1>5. Carries(f, op, L, Both(S), WriteSlow, Both(T))  BY <1>4
<1> HIDE DEF S, T, U
<1>6. Covers(Both(SlowStart \cup X), Both(S)) /\ Covers(Both(T), Both(U))  BY <1>3, BothCovers
<1>7. Carries(f, op, L, Both(SlowStart \cup X), WriteSlow, Both(U))  BY <1>5, <1>6, CarriesCovers
<1>8. WriteBlock(f) = WriteSlow  BY DEF WriteBlock
<1> QED BY <1>7, <1>8 DEF U

\* The block write of the families that stream, with its second attempt.
LEMMA StreamBlock ==
  ASSUME NEW f \in Streaming, NEW L
  PROVE  Carries(f, "write", L, Both(Opening(f, "write")), WriteBlock(f), Final(f, "write"))
<1> DEFINE op == "write"
           A == Both(Opening(f, op))
           F == Final(f, op)
           B == Both(Dropped)
           C == Both(Retried)
           D == Both(RetriedAccess)
           G == At({Yes("kept"), Yes("calm"), Mute, Yes("aim")}, {<<"a1", "w1">>})
           H == At({Yes("kept"), Yes("calm")}, {<<"a1", "w1">>, <<"a2", "w2">>})
           T == {Yes("kept"), Yes("calm"), Yes("off"), <<"a1", "w1">>, <<"a2", "w2">>}
<1>0. op # "resume" /\ f # "X03X" /\ f \in AllFamilies  BY DEF Streaming, AllFamilies
<1>1. StreamStart \subseteq Opening(f, op)
  <2>1. {Yes("steady"), Yes("kept"), Idling} \subseteq Opening(f, op) /\
          Yes("sure") \in Opening(f, op)
    BY <1>0, OpeningKnows
  <2> QED BY <2>1 DEF StreamStart
<1>2. Covers(A, Both(StreamStart))  BY <1>1, BothCovers
<1>3. Carries(f, op, L, Both(StreamStart), WriteStreaming, B)  BY StreamingCarries
<1>4. Carries(f, op, L, A, WriteStreaming, B)  BY <1>2, <1>3, CarriesCovers, CoversSelf
<1>5. Carries(f, op, L, B, Retry, C) /\ Carries(f, op, L, B, Retry, D)  BY RetryCarries
<1>6. CASE f = "V20X"
  <2>1. Carries(f, op, L, D, WriteAccess("a1", "w1"), G) /\
          Carries(f, op, L, G, WriteAccess("a2", "w2"), H)
    BY <1>0, AccessCarries
  <2>2. Covers(H, F)
    <3>1. FinalS(f, op) = {Yes("kept"), Yes("calm")} /\
            FinalP(f, op) \subseteq {Yes("kept"), Yes("calm"), <<"a1", "w1">>, <<"a2", "w2">>}
      BY <1>6 DEF FinalS, FinalP
    <3> QED BY <3>1 DEF Covers, Final, At
  <2> HIDE DEF A, B, D, G, H, F, op
  <2>3. Carries(f, op, L, A, WriteStreaming \o Retry \o WriteAccess("a1", "w1")
                \o WriteAccess("a2", "w2"), H)
    BY <1>4, <1>5, <2>1, Chain4
  <2>4. WriteBlock(f) = WriteStreaming \o Retry \o WriteAccess("a1", "w1")
          \o WriteAccess("a2", "w2")
    BY <1>6 DEF WriteBlock
  <2>5. Carries(f, op, L, A, WriteBlock(f), F)  BY <2>2, <2>3, <2>4, CarriesCovers, CoversSelf
  <2> QED BY <2>5 DEF A, F, op
<1>7. CASE f # "V20X"
  <2>1. Carries(f, op, L, C, WriteSlow, Both(T))  BY <1>0, SlowAgainCarries
  <2>2. Covers(Both(T), F)
    <3>1. FinalS(f, op) \subseteq T /\ FinalP(f, op) \subseteq T  BY <1>7 DEF FinalS, FinalP
    <3> QED BY <3>1 DEF Covers, Final, Both, At
  <2> HIDE DEF A, B, C, F, op, T
  <2>3. Carries(f, op, L, A, WriteStreaming \o Retry \o WriteSlow, Both(T))
    BY <1>4, <1>5, <2>1, Chain3
  <2>4. WriteBlock(f) = WriteStreaming \o Retry \o WriteSlow
    BY <1>7 DEF WriteBlock, Streaming
  <2>5. Carries(f, op, L, A, WriteBlock(f), F)  BY <2>2, <2>3, <2>4, CarriesCovers, CoversSelf
  <2> QED BY <2>5 DEF A, F, op
<1> QED BY <1>6, <1>7

\* Writing a block.
LEMMA WriteProgram ==
  ASSUME NEW f \in AllFamilies
  PROVE  Carries(f, "write", {}, First(f, "write"), Program(f, "write"), Final(f, "write"))
<1> DEFINE op == "write"
           A == First(f, op)
           B == Both(Opening(f, op))
           F == Final(f, op)
<1>1. Program(f, op) = UnlockForWrite(f) \o WriteBlock(f)  BY DEF Program
<1>2. Carries(f, op, {}, A, UnlockForWrite(f), B)  BY UnlockFirst
<1>3. Carries(f, op, {}, B, WriteBlock(f), F)
  <2>1. CASE f = "X03X"  BY <2>1, DirectBlock
  <2>2. CASE f \in Streaming  BY <2>2, StreamBlock
  <2>3. CASE f \in {"CH58X", "CH59X"}
    <3> DEFINE X == {Yes("unlocked")}
               S == SlowStart \cup X
               U == {Yes("kept"), Yes("sure"), Yes("calm"), Mute, Idling, Yes("off"), Yes("halted"),
                     <<"a1", "w1">>, <<"a2", "w2">>}
    <3>1. \A g \in X : g = Yes("unlocked") \/ g = Yes("free")  OBVIOUS
    <3> HIDE DEF X
    <3>2. Carries(f, op, {}, Both(SlowStart \cup X), WriteBlock(f), Both(U))
      BY <2>3, <3>1, SlowBlock
    <3>3. S \subseteq Opening(f, op)
      <4>1. f \notin Streaming  BY <2>3 DEF Streaming
      <4>2. {Yes("calm"), Yes("kept"), Yes("steady"), Idling, Yes("unlocked"), Yes("sure"),
             Mute} \subseteq Opening(f, op)
        BY <4>1, OpeningKnows
      <4> QED BY <4>2 DEF SlowStart, X
    <3>4. FinalS(f, op) \subseteq U /\ FinalP(f, op) \subseteq U  BY <2>3 DEF FinalS, FinalP
    <3>5. Covers(Both(U), F)  BY <3>4 DEF Covers, Final, Both, At
    <3> HIDE DEF S, U
    <3>6. Covers(B, Both(S))  BY <3>3, BothCovers
    <3> QED BY <3>2, <3>5, <3>6, CarriesCovers DEF S
  <2> QED BY <2>1, <2>2, <2>3 DEF AllFamilies, Streaming
<1> HIDE DEF A, B, F, op
<1>4. Carries(f, op, {}, A, UnlockForWrite(f) \o WriteBlock(f), F)  BY <1>2, <1>3, CarriesThen
<1> QED BY <1>1, <1>4 DEF A, F, op

\* Writing a word.
LEMMA Write32Program ==
  ASSUME NEW f \in AllFamilies
  PROVE  Carries(f, "write32", {}, First(f, "write32"), Program(f, "write32"), Final(f, "write32"))
<1> DEFINE op == "write32"
           M == {"cleanup"}
           A == First(f, op)
           F == Final(f, op)
           R == {Yes("kept"), Yes("calm"), Mute, Yes("unlocked")}
           Z == WordTouched
           B == Both(R \cup {Idling})
           C == IF f = "V20X" THEN At(R, {<<"a1", "w1">>}) ELSE Both(R \cup Stores(f, "a1", "w1"))
           p1 == UnlockForWrite(f)
           p2 == Write32(f, "a1", "w1")
<1>1. Program(f, op) = p1 \o p2 \o Cleared  BY DEF Program
<1>2. Frame(op, "return", R, Z)
  <2>1. Exit(op, "return", R) /\ {Yes("kept"), Mute} \subseteq R  BY DEF Exit
  <2>2. Report \subseteq Z  BY DEF WordTouched, Ran
  <2>3. \A g \in R : g[1] \notin Z  BY DEF WordTouched, Blocks, Ran, Report, Yes, Mute
  <2> QED BY <2>1, <2>2, <2>3 DEF Frame
<1>3. R \cup {Idling} \subseteq Opening(f, op)
  <2>1. {Yes("calm"), Yes("kept"), Idling, Yes("unlocked"), Mute} \subseteq Opening(f, op)
    BY OpeningKnows
  <2> QED BY <2>1
<1>4. Carries(f, op, M, A, p1, Both(Opening(f, op)))  BY UnlockFirst
<1>5. FinalS(f, op) \subseteq C.s /\ FinalP(f, op) \subseteq C.s \cup C.p
  <2>1. CASE f = "V20X"
    <3>1. C.s = R /\ C.p = {<<"a1", "w1">>}  BY <2>1 DEF At
    <3> QED BY <2>1, <3>1 DEF FinalS, FinalP
  <2>2. CASE f # "V20X"
    <3>1. C.s = R \cup {Idling, <<"a1", "w1">>}  BY <2>2 DEF At, Both, Stores
    <3> QED BY <2>2, <3>1 DEF FinalS, FinalP
  <2> QED BY <2>1, <2>2
<1>6. "a1" \in Blocks /\ WordTouched \subseteq Z /\ Yes("unlocked") \in R /\ "cleanup" \in M /\
        op # "resume"
  BY DEF Blocks
<1> HIDE DEF A, F, R, Z, M, op
<1>7. Covers(Both(Opening(f, op)), B)  BY <1>3, BothCovers
<1>8. Carries(f, op, M, A, p1, B)  BY <1>4, <1>7, CarriesCovers, CoversSelf
<1>9. /\ Carries(f, op, M, Both(R \cup {Idling}), Write32(f, "a1", "w1"),
                 Both(R \cup Stores(f, "a1", "w1")))
      /\ f = "V20X"
           => Carries(f, op, M, Both(R \cup {Idling}), Write32(f, "a1", "w1"),
                      At(R, {<<"a1", "w1">>}))
  BY <1>2, <1>6, Write32Carries
<1>10. Carries(f, op, M, B, p2, C)  BY <1>9
<1>11. Carries(f, op, {}, C, Cleared, F)  BY <1>5, <1>6, ClearedCarries
<1> HIDE DEF B, C, p1, p2
<1>12. Carries(f, op, M, A, p1 \o p2, C)  BY <1>8, <1>10, CarriesThen
<1>13. \A l \in M : l \in {} \/ HasLabel(Cleared, l)  BY ClearedHas DEF M
<1>14. Carries(f, op, {}, A, p1 \o p2 \o Cleared, F)  BY <1>11, <1>12, <1>13, CarriesConcat
<1> QED BY <1>1, <1>14 DEF A, F, op

\* Reading a word.
LEMMA ReadProgram ==
  ASSUME NEW f \in AllFamilies
  PROVE  Carries(f, "read", {}, First(f, "read"), Program(f, "read"), Final(f, "read"))
<1> DEFINE op == "read"
           A == First(f, op)
           F == Final(f, op)
           R == {Yes("kept"), Yes("calm"), Mute, <<"a1", "a1">>}
<1>1. Program(f, op) = ReadWord(f, "a1")  BY DEF Program
<1>2. R \cup {Idling} \subseteq FirstS(f, op)  BY DEF FirstS, Streaming
<1>3. FinalS(f, op) = {Yes("kept"), Yes("calm"), Yes("answer")} /\
        FinalP(f, op) = {Yes("kept"), Yes("calm"), Yes("answer")}
  BY DEF FinalS, FinalP
<1>4. Covers(A, Both(R \cup {Idling}))
  <2>1. A = Both(FirstS(f, op))  BY OpeningKnows
  <2> QED BY <1>2, <2>1, BothCovers
<1>5. CASE f \in {"CH58X", "CH59X"}
  <2> DEFINE Z == {"prog", "sync", "x8", "data0", "loose", "last", "value", "answer"} \cup Ran
             B == At(R \cup {Yes("answer")}, {})
  <2>1. Frame(op, "return", R, Z)
    <3>1. Exit(op, "return", R) /\ {Yes("kept"), Mute} \subseteq R  BY DEF Exit
    <3>2. Report \subseteq Z  BY DEF Ran
    <3>3. \A g \in R : g[1] \notin Z  BY DEF Ran, Report, Yes, Mute
    <3> QED BY <3>1, <3>2, <3>3 DEF Frame
  <2>2. {"prog", "sync", "x8", "data0", "loose", "last", "value", "answer"} \cup Ran \subseteq Z /\
          <<"a1", "a1">> \in R
    OBVIOUS
  <2>3. Covers(B, F)  BY <1>3 DEF Covers, At, Final
  <2> HIDE DEF R, Z
  <2>4. Carries(f, op, {}, Both(R \cup {Idling}), ReadSync("a1"), At(R \cup {Yes("answer")}, {}))
    BY <2>1, <2>2, ReadSyncCarries
  <2> HIDE DEF A, F, B, op
  <2>5. Carries(f, op, {}, A, ReadSync("a1"), F)  BY <1>4, <2>3, <2>4, CarriesCovers DEF B
  <2> QED BY <1>1, <1>5, <2>5 DEF ReadWord, A, F, op
<1>6. CASE f \notin {"CH58X", "CH59X"}
  <2>1. ReadKeeps(op) = R /\ ReadFinds(op) = {Yes("answer")}  BY DEF ReadKeeps, ReadFinds
  <2>2. Carries(f, op, {}, Both(ReadKeeps(op) \cup {Idling}), ReadAccess("a1"),
                Both(ReadKeeps(op) \cup ReadFinds(op)))
    BY ReadAccessCarries
  <2>3. Covers(Both(R \cup {Yes("answer")}), F)  BY <1>3 DEF Covers, Both, At, Final
  <2> HIDE DEF R, A, F, op
  <2>4. Carries(f, op, {}, A, ReadAccess("a1"), F)  BY <1>4, <2>1, <2>2, <2>3, CarriesCovers
  <2> QED BY <1>1, <1>6, <2>4 DEF ReadWord, A, F, op
<1> QED BY <1>5, <1>6

\* An access of a resume: it returns before the request, and cleans up after it.
LEMMA ResumePasses ==
  ASSUME NEW f, NEW op, op = "resume", NEW x, NEW A, NEW B, x.do = "write" \/ x.do = "hart",
         x.fail = "release",
         Yes("kept") \in A.s, Yes("calm") \in A.s, Asks(f, op, x, A),
         Yes("sure") \in B.s => Yes("sure") \in A.s,
         x.do = "write" => Gives(f, x, A, Yes("kept"), TRUE) /\ Gives(f, x, A, Yes("calm"), TRUE),
         (\A g \in B.s : Gives(f, x, A, g, TRUE)) /\ (\A g \in B.p : Gives(f, x, A, g, FALSE))
  PROVE  Passes(f, op, x, A, B)
<1>1. E(f, op, "release") = {Yes("kept"), Yes("told"), Yes("calm")}  BY DEF E
<1>2. \A g \in {Yes("kept"), Yes("told"), Yes("calm")} : Fails(f, x, A, g)
  <2>1. x.do \in Settling => x.do = "write"  BY DEF Settling
  <2>2. \A g \in {Yes("kept"), Yes("calm")} : g[1] # "diag" /\ g \in A.s  BY DEF Yes
  <2>3. \A g \in {Yes("kept"), Yes("calm")} : x.do \in Settling => Gives(f, x, A, g, TRUE)  BY <2>1
  <2> QED BY <2>2, <2>3 DEF Fails
<1>3. Exits(f, op, x, A)  BY <1>1, <1>2 DEF Exits
<1> QED BY <1>3, PassesWhen

\* Resuming the target.
LEMMA ResumeProgram ==
  ASSUME NEW f \in AllFamilies
  PROVE  Carries(f, "resume", {}, First(f, "resume"), Program(f, "resume"), Final(f, "resume"))
<1> DEFINE op == "resume"
           L == {"release"}
           K == {Yes("kept"), Yes("calm")}
           S == {Yes("kept"), Yes("told"), Yes("calm")}
           A0 == First(f, op)
           A1 == Both(K \cup {Yes("free")})
           A2 == Both(K \cup {Yes("running")})
           A3 == Both(K \cup {Yes("running"), <<"request", "none">>})
           A4 == Both(S)
           A5 == Both(S \cup {Yes("released")})
           F == Final(f, op)
           x1 == Access("write", "DMOD", "", "return")
           x2 == Access("write", "CONTROL", "resume", "release")
           x3 == Access("hart", "running", "", "release")
           x4 == Access("write", "CONTROL", "idle", "release")
           p1 == W("DMOD", "", "return")
           p2 == W("CONTROL", "resume", "release")
           p3 == Hart("running", "release")
           p4 == W("CONTROL", "idle", "release")
           p5 == Done
           p6 == Label("release")
           p7 == Clean("CONTROL", "idle")
           p8 == GiveUp
<1>1. Program(f, op) = p1 \o p2 \o p3 \o p4 \o p5 \o p6 \o p7 \o p8  BY DEF Program, Resume
<1>2. /\ x1.do = "write" /\ x1.reg = "DMOD" /\ x1.fail = "return"
      /\ x2.do = "write" /\ x2.reg = "CONTROL" /\ x2.val = "resume" /\ x2.fail = "release"
      /\ x3.do = "hart" /\ x3.reg = "running" /\ x3.fail = "release"
      /\ x4.do = "write" /\ x4.reg = "CONTROL" /\ x4.val = "idle" /\ x4.fail = "release"
  BY DEF Access
<1>3. /\ A1.s = K \cup {Yes("free")} /\ A1.p = A1.s /\ A2.s = K \cup {Yes("running")} /\ A2.p = A2.s
      /\ A3.s = K \cup {Yes("running"), <<"request", "none">>} /\ A3.p = A3.s
      /\ A4.s = S /\ A4.p = S /\ A5.s = S \cup {Yes("released")} /\ A5.p = A5.s
      /\ A0.s = FirstS(f, op) /\ A0.p = FirstS(f, op)
  BY DEF Both, At, First
<1>4. /\ K \cup {Yes("free"), Yes("released")} \subseteq FirstS(f, op)
      /\ \A g \in K \cup {Yes("free")} : g[1] \notin Report
      /\ \A g \in K : g[1] \notin HartThings \cup Report
      /\ Yes("running")[1] \notin Report
      /\ \A g \in S : g[1] \notin HartThings
      /\ Yes("sure")
           \notin K \cup S
             \cup {Yes("free"), Yes("running"), <<"request", "none">>, Yes("released")}
      /\ {Yes("kept"), Yes("calm")} \subseteq K
  BY DEF FirstS, Report, HartThings, Yes
<1> HIDE DEF A0, A1, A2, A3, A4, A5, x1, x2, x3, x4
<1>5. Passes(f, op, x1, A0, A1)
  <2>1. Asks(f, op, x1, A0)  BY <1>2, <1>3, <1>4 DEF Asks, WriteAsks
  <2>2. Exits(f, op, x1, A0)  BY <1>2, <1>3, <1>4 DEF Exits, Returns
  <2>3. \A g \in A1.s : Gives(f, x1, A0, g, TRUE) /\ Gives(f, x1, A0, g, FALSE)
    BY <1>2, <1>3, <1>4 DEF Gives, WriteGives, Keep, From
  <2>4. Yes("sure") \notin A1.s  BY <1>3, <1>4
  <2> HIDE DEF op, K, S
  <2> QED BY <1>3, <2>1, <2>2, <2>3, <2>4, PassesWhen
<1>6. Passes(f, op, x2, A1, A2)
  <2>1. Asks(f, op, x2, A1)  BY <1>2, <1>3, <1>4 DEF Asks, WriteAsks
  <2>2. \A g \in K : ControlGives("resume", A1.s, g)  BY <1>3, <1>4 DEF ControlGives, Keep
  <2>3. ControlGives("resume", A1.s, Yes("running"))  BY <1>3 DEF ControlGives
  <2>4. From(A1, TRUE) = A1.s /\ From(A1, FALSE) = A1.s  BY <1>3 DEF From
  <2>5. \A g \in A2.s : Gives(f, x2, A1, g, TRUE) /\ Gives(f, x2, A1, g, FALSE)
    BY <1>2, <1>3, <2>2, <2>3, <2>4 DEF Gives, WriteGives
  <2>6. Yes("sure") \notin A2.s /\ K \subseteq A2.s /\ K \subseteq A1.s  BY <1>3, <1>4
  <2> HIDE DEF K, S
  <2>7. Gives(f, x2, A1, Yes("kept"), TRUE) /\ Gives(f, x2, A1, Yes("calm"), TRUE) /\
          {Yes("kept"), Yes("calm")} \subseteq A1.s
    BY <1>4, <2>5, <2>6
  <2>8. (\A g \in A2.s : Gives(f, x2, A1, g, TRUE)) /\ (\A g \in A2.p : Gives(f, x2, A1, g, FALSE))
    BY <1>3, <2>5
  <2>9. (x2.do = "write" \/ x2.do = "hart") /\ x2.fail = "release"  BY <1>2
  <2> QED BY <2>1, <2>6, <2>7, <2>8, <2>9, ResumePasses
<1>7. Passes(f, op, x3, A2, A2)
  <2>1. Asks(f, op, x3, A2)  BY <1>2, <1>3, <1>4 DEF Asks
  <2>2. \A g \in A2.s : Gives(f, x3, A2, g, TRUE) /\ Gives(f, x3, A2, g, FALSE)
    BY <1>2, <1>3, <1>4 DEF Gives, Keep, From
  <2>3. {Yes("kept"), Yes("calm")} \subseteq A2.s  BY <1>3, <1>4
  <2> HIDE DEF K, S
  <2>8. (\A g \in A2.s : Gives(f, x3, A2, g, TRUE)) /\ (\A g \in A2.p : Gives(f, x3, A2, g, FALSE))
    BY <1>3, <2>2
  <2>9. (x3.do = "write" \/ x3.do = "hart") /\ x3.fail = "release"  BY <1>2
  <2>10. x3.do = "write"
           => Gives(f, x3, A2, Yes("kept"), TRUE) /\ Gives(f, x3, A2, Yes("calm"), TRUE)
    BY <1>2
  <2> QED BY <2>1, <2>3, <2>8, <2>10, <2>9, ResumePasses
<1>8. Passes(f, op, x4, A2, A3)
  <2>1. Asks(f, op, x4, A2)  BY <1>2, <1>3, <1>4 DEF Asks, WriteAsks
  <2>2. \A g \in K : ControlGives("idle", A2.s, g)  BY <1>3, <1>4 DEF ControlGives, Keep
  <2>3. ControlGives("idle", A2.s, Yes("running")) /\
          ControlGives("idle", A2.s, <<"request", "none">>)
    BY <1>3 DEF ControlGives
  <2>4. From(A2, TRUE) = A2.s /\ From(A2, FALSE) = A2.s  BY <1>3 DEF From
  <2>5. \A g \in A3.s : Gives(f, x4, A2, g, TRUE) /\ Gives(f, x4, A2, g, FALSE)
    BY <1>2, <1>3, <2>2, <2>3, <2>4 DEF Gives, WriteGives
  <2>6. Yes("sure") \notin A3.s /\ K \subseteq A3.s /\ K \subseteq A2.s  BY <1>3, <1>4
  <2> HIDE DEF K, S
  <2>7. Gives(f, x4, A2, Yes("kept"), TRUE) /\ Gives(f, x4, A2, Yes("calm"), TRUE) /\
          {Yes("kept"), Yes("calm")} \subseteq A2.s
    BY <1>4, <2>5, <2>6
  <2>8. (\A g \in A3.s : Gives(f, x4, A2, g, TRUE)) /\ (\A g \in A3.p : Gives(f, x4, A2, g, FALSE))
    BY <1>3, <2>5
  <2>9. (x4.do = "write" \/ x4.do = "hart") /\ x4.fail = "release"  BY <1>2
  <2> QED BY <2>1, <2>6, <2>7, <2>8, <2>9, ResumePasses
<1>9. /\ Carries(f, op, L, A0, <<x1>>, A1) /\ Carries(f, op, L, A1, <<x2>>, A2)
      /\ Carries(f, op, L, A2, <<x3>>, A2) /\ Carries(f, op, L, A2, <<x4>>, A3)
  BY <1>2, <1>5, <1>6, <1>7, <1>8, CarriesOne
<1>10. /\ Carries(f, op, L, A0, p1, A1) /\ Carries(f, op, L, A1, p2, A2)
       /\ Carries(f, op, L, A2, p3, A2) /\ Carries(f, op, L, A2, p4, A3)
  BY <1>9 DEF p1, p2, p3, p4, x1, x2, x3, x4, W, Hart
<1>11. Carries(f, op, L, A3, p5, A4)
  <2>1. FinalS(f, op) \subseteq A3.s /\ FinalP(f, op) \subseteq A3.s \cup A3.p
    BY <1>3 DEF FinalS, FinalP
  <2> QED BY <2>1, DoneCarries
<1>12. Carries(f, op, {}, A4, p6, A4)
  <2>1. E(f, op, "release") = S /\ Yes("kept") \in E(f, op, "release")  BY DEF E
  <2>2. A4 = Both(E(f, op, "release"))  BY <2>1 DEF A4
  <2> QED BY <2>1, <2>2, LabelCarries, CoversSelf
<1>13. Carries(f, op, {}, A4, p7, A5)
  <2>1. Yes("kept") \in A4.s /\ Yes("sure") \notin A5.s  BY <1>3, <1>4
  <2>2. \A g \in A5.s \cup A5.p : (g \in A4.s /\ g[1] \notin HartThings) \/ g = Yes("released")
    BY <1>3, <1>4
  <2> HIDE DEF op, K, S
  <2> QED BY <2>1, <2>2, CleanCarries
<1>14. Carries(f, op, {}, A5, p8, F)
  <2>1. {Yes("kept"), Yes("told"), Yes("calm"), Yes("released")} \subseteq A5.s  BY <1>3
  <2> QED BY <2>1, GiveUpCarries
<1>15. HasLabel(p6, "release")  BY LabelHas
<1> HIDE DEF p1, p2, p3, p4, p5, p6, p7, p8, op, F
<1>16. Carries(f, op, L, A0, p1 \o p2 \o p3 \o p4 \o p5, A4)  BY <1>10, <1>11, Chain5
<1>17. Carries(f, op, {}, A0, p1 \o p2 \o p3 \o p4 \o p5 \o p6, A4)
  <2>1. \A l \in L : l \in {} \/ HasLabel(p6, l)  BY <1>15
  <2> HIDE DEF L
  <2> QED BY <1>12, <1>16, <2>1, CarriesConcat
<1>18. Carries(f, op, {}, A0, p1 \o p2 \o p3 \o p4 \o p5 \o p6 \o p7, A5)
  BY <1>13, <1>17, CarriesThen
<1>19. Carries(f, op, {}, A0, p1 \o p2 \o p3 \o p4 \o p5 \o p6 \o p7 \o p8, F)
  BY <1>14, <1>18, CarriesThen
<1> QED BY <1>1, <1>19 DEF A0, F, op

\* The resets.
LEMMA ResetPrograms ==
  ASSUME NEW f \in AllFamilies, NEW op \in {"reset_halt", "reset_run", "soft_reset_run"}
  PROVE  Carries(f, op, {}, First(f, op), Program(f, op), Final(f, op))
<1> DEFINE K == {Yes("kept"), Yes("calm")}
           A0 == First(f, op)
           A1 == Both(K \cup {Yes("reset")})
           A2 == Both(K \cup {Yes("halted"), <<"dpc", "vector">>})
           A3 == Both(K \cup {Yes("running"), <<"dpc", "vector">>})
           F == Final(f, op)
<1>1. /\ A1.s = K \cup {Yes("reset")} /\ A1.p = A1.s /\
           A2.s = K \cup {Yes("halted"), <<"dpc", "vector">>} /\ A2.p = A2.s
      /\ A3.s = K \cup {Yes("running"), <<"dpc", "vector">>} /\ A3.p = A3.s
      /\ A0.s = FirstS(f, op) /\ A0.p = FirstS(f, op)
  BY DEF Both, At, First
<1>2. /\ K \subseteq FirstS(f, op)
      /\ \A g \in K : g[1] \notin HartThings \cup Report
      /\ Yes("sure")
           \notin K \cup {Yes("reset"), Yes("halted"), Yes("running"), <<"dpc", "vector">>}
      /\ \A g \in {Yes("halted"), <<"dpc", "vector">>} : g[1] \notin Report
      /\ {Yes("kept"), Yes("calm")} \subseteq K /\ op # "resume"
  BY DEF FirstS, Report, HartThings, Yes
<1> HIDE DEF A0, A1, A2, A3
<1>3. ASSUME NEW v \in {"reset", "reset_halt"}
      PROVE Carries(f, op, {}, A0, W("CONTROL", v, "return"), A1)
  <2>1. \A g \in A1.s \cup A1.p : ControlGives(v, A0.s, g) /\ ControlGives(v, A0.s \cup A0.p, g)
    BY <1>1, <1>2 DEF ControlGives, Keep
  <2>2. Yes("kept") \in A0.s /\ Exit(op, "return", A0.s) /\ Yes("sure") \notin A1.s
    BY <1>1, <1>2 DEF Exit
  <2> HIDE DEF K
  <2> QED BY <2>1, <2>2, ControlCarries
<1>4. Carries(f, op, {}, A1, W("CONTROL", "halt", "return"), A2)
  <2>1. \A g \in A2.s \cup A2.p : ControlGives("halt", A1.s, g) /\
          ControlGives("halt", A1.s \cup A1.p, g)
    BY <1>1, <1>2 DEF ControlGives, Keep
  <2>2. Yes("kept") \in A1.s /\ Exit(op, "return", A1.s) /\ Yes("sure") \notin A2.s
    BY <1>1, <1>2 DEF Exit
  <2> HIDE DEF K
  <2> QED BY <2>1, <2>2, ControlCarries
<1>5. Carries(f, op, {}, A1, W("CONTROL", "idle", "return"), A3)
  <2>1. \A g \in A3.s \cup A3.p : ControlGives("idle", A1.s, g) /\
          ControlGives("idle", A1.s \cup A1.p, g)
    BY <1>1, <1>2 DEF ControlGives, Keep
  <2>2. Yes("kept") \in A1.s /\ Exit(op, "return", A1.s) /\ Yes("sure") \notin A3.s
    BY <1>1, <1>2 DEF Exit
  <2> HIDE DEF K
  <2> QED BY <2>1, <2>2, ControlCarries
<1>6. Carries(f, op, {}, A3, W("CONTROL", "resume", "return"), A3)
  <2>1. \A g \in A3.s \cup A3.p : ControlGives("resume", A3.s, g) /\
          ControlGives("resume", A3.s \cup A3.p, g)
    BY <1>1, <1>2 DEF ControlGives, Keep
  <2>2. Yes("kept") \in A3.s /\ Exit(op, "return", A3.s) /\ Yes("running") \in A3.s
    BY <1>1, <1>2 DEF Exit
  <2> HIDE DEF K
  <2> QED BY <2>1, <2>2, ControlCarries
<1>7. Carries(f, op, {}, A2, Hart("halted", "return"), A2)
  <2>1. Yes("kept") \in A2.s /\ Exit(op, "return", A2.s) /\ \A g \in A2.s \cup A2.p : g \in A2.s /\
          g[1] \notin Report
    BY <1>1, <1>2 DEF Exit
  <2> HIDE DEF K
  <2> QED BY <2>1, HartCarries
<1> DEFINE p1 == W("CONTROL", "reset_halt", "return")
           p2 == W("CONTROL", "halt", "return")
           p3 == Hart("halted", "return")
           q1 == W("CONTROL", "reset", "return")
           q2 == W("CONTROL", "idle", "return")
           q3 == W("CONTROL", "resume", "return")
<1>8. /\ Carries(f, op, {}, A0, p1, A1) /\ Carries(f, op, {}, A1, p2, A2) /\
           Carries(f, op, {}, A2, p3, A2)
      /\ Carries(f, op, {}, A0, q1, A1) /\ Carries(f, op, {}, A1, q2, A3) /\
           Carries(f, op, {}, A3, q3, A3)
  BY <1>3, <1>4, <1>5, <1>6, <1>7
<1> HIDE DEF p1, p2, p3, q1, q2, q3
<1>9. /\ Carries(f, op, {}, A0, p1 \o p2 \o p3, A2) /\ Carries(f, op, {}, A0, q1 \o q2, A3)
      /\ Carries(f, op, {}, A0, q1 \o q2 \o q3, A3)
  BY <1>8, Chain3, CarriesThen
<1>10. CASE op = "reset_halt"
  <2>1. Program(f, op) = p1 \o p2 \o p3  BY <1>10 DEF Program, ResetAndHalt, p1, p2, p3
  <2>2. Covers(A2, F)
    <3>1. FinalS(f, op) \subseteq A2.s /\ FinalP(f, op) \subseteq A2.s
      BY <1>1, <1>10 DEF FinalS, FinalP
    <3> QED BY <3>1 DEF Covers, Final
  <2> HIDE DEF F
  <2>3. Carries(f, op, {}, A0, p1 \o p2 \o p3, F)  BY <1>9, <2>2, CarriesCovers, CoversSelf
  <2> QED BY <2>1, <2>3 DEF A0, F
<1>11. CASE op # "reset_halt"
  <2>1. Program(f, op) = q1 \o q2 \/ Program(f, op) = q1 \o q2 \o q3
    <3>1. CASE op = "reset_run"  BY <3>1 DEF Program, ResetAndRun, q1, q2
    <3>2. CASE op = "soft_reset_run"  BY <3>2 DEF Program, SoftResetAndRun, ResetAndRun, q1, q2, q3
    <3> QED BY <1>11, <3>1, <3>2
  <2>2. Covers(A3, F)
    <3>1. FinalS(f, op) \subseteq A3.s /\ FinalP(f, op) \subseteq A3.s
      BY <1>1, <1>11 DEF FinalS, FinalP
    <3> QED BY <3>1 DEF Covers, Final
  <2> HIDE DEF F
  <2>3. Carries(f, op, {}, A0, q1 \o q2, F) /\ Carries(f, op, {}, A0, q1 \o q2 \o q3, F)
    BY <1>9, <2>2, CarriesCovers, CoversSelf
  <2> QED BY <2>1, <2>3 DEF A0, F
<1> QED BY <1>10, <1>11

\* What the mailbox holds when the loader starts, and what else is known then.
Mailed(f, op) ==
  {Yes("kept"), Yes("calm"), Mute}
    \cup (IF NeedsMail(f, op) /\ f # "V20X" THEN {<<"mailbox", "mail">>} ELSE {})
\* What is known once the mailbox is written.
Posted(f, op) == Mailed(f, op) \cup {Yes("free")} \cup (IF f = "V20X" THEN {} ELSE {Idling})
\* The mailbox write of wchlink_target_ports_execute_loader.
Mailing(f, op) ==
  IF NeedsMail(f, op) THEN UnlockForWrite(f) \o Write32(f, "mailbox", "mail") ELSE <<>>

\* The word for the loader is written to its mailbox.
LEMMA MailCarries ==
  ASSUME NEW f \in AllFamilies, NEW op, op = "program" \/ op = "verify"
  PROVE  Carries(f, op, {"cleanup"}, First(f, op), Mailing(f, op), Both(Posted(f, op)))
<1> DEFINE L == {"cleanup"}
           A == First(f, op)
           B == Both(Opening(f, op))
           C == Both(Posted(f, op))
           R == {Yes("kept"), Yes("calm"), Mute, Yes("free"), Yes("unlocked")}
           Z == WordTouched
           p1 == UnlockForWrite(f)
           p2 == Write32(f, "mailbox", "mail")
<1>1. op # "resume" /\ op # "write"  OBVIOUS
<1>2. R \cup {Idling} \subseteq Opening(f, op)
  <2>1. {Yes("kept"), Yes("calm"), Yes("free"), Yes("unlocked"), Idling} \subseteq Opening(f, op) /\
          Mute \in Opening(f, op)
    BY <1>1, OpeningKnows
  <2> QED BY <2>1
<1>3. CASE NeedsMail(f, op)
  <2>1. Frame(op, "return", R, Z)
    <3>1. Exit(op, "return", R) /\ {Yes("kept"), Mute} \subseteq R  BY <1>1 DEF Exit
    <3>2. Report \subseteq Z  BY DEF WordTouched, Ran
    <3>3. \A g \in R : g[1] \notin Z  BY DEF WordTouched, Blocks, Ran, Report, Yes, Mute
    <3> QED BY <3>1, <3>2, <3>3 DEF Frame
  <2>2. "mailbox" \in Blocks /\ WordTouched \subseteq Z /\ Yes("unlocked") \in R /\ "cleanup" \in L
    BY DEF Blocks
  <2>3. Posted(f, op) \subseteq R \cup Stores(f, "mailbox", "mail")
    BY <1>3 DEF Posted, Mailed, Stores
  <2>4. Carries(f, op, L, A, p1, B)  BY <1>1, UnlockFirst
  <2> HIDE DEF A, R, Z, L
  <2>5. Carries(f, op, L, Both(R \cup {Idling}), Write32(f, "mailbox", "mail"),
                Both(R \cup Stores(f, "mailbox", "mail")))
    BY <1>1, <2>1, <2>2, Write32Carries
  <2>6. Covers(B, Both(R \cup {Idling})) /\ Covers(Both(R \cup Stores(f, "mailbox", "mail")), C)
    BY <1>2, <2>3, BothCovers
  <2> HIDE DEF B, C
  <2>7. Carries(f, op, L, B, p2, C)  BY <2>5, <2>6, CarriesCovers
  <2> HIDE DEF p1, p2
  <2>8. Carries(f, op, L, A, p1 \o p2, C)  BY <2>4, <2>7, CarriesThen
  <2>9. Mailing(f, op) = p1 \o p2  BY <1>3 DEF Mailing, p1, p2
  <2> QED BY <2>8, <2>9 DEF A, C, L
<1>4. CASE ~NeedsMail(f, op)
  <2>1. Posted(f, op) \subseteq FirstS(f, op)
    <3>1. {Yes("kept"), Yes("calm"), Yes("free"), Idling} \subseteq FirstS(f, op)  BY DEF FirstS
    <3>2. Mute \in FirstS(f, op)  BY <1>1 DEF FirstS
    <3>3. Posted(f, op) \subseteq {Yes("kept"), Yes("calm"), Yes("free"), Idling, Mute}
      BY <1>4 DEF Posted, Mailed
    <3> QED BY <3>1, <3>2, <3>3
  <2>2. A = Both(FirstS(f, op))  BY OpeningKnows
  <2>3. Covers(A, C)  BY <2>1, <2>2, BothCovers
  <2>4. Mailing(f, op) = <<>>  BY <1>4 DEF Mailing
  <2> QED BY <2>3, <2>4, CarriesNone
<1> QED BY <1>3, <1>4

\* What the loader's run needs and leaves alone.
Prepares(f, op) == Mailed(f, op)
                     \cup (IF f = "V20X" /\ op = "initialize" THEN {<<"dcsr", "debug">>} ELSE {})
\* What the execution of the loader of a family changes.
LoaderZ(f) == LoaderTouched \cup (IF f = "V20X" THEN {} ELSE {"dcsr"})

\* A loader runs and its result is read: initialize, program and verify.
LEMMA RunCarries ==
  ASSUME NEW f \in AllFamilies, NEW op, op = "initialize" \/ op = "program" \/ op = "verify", NEW L,
         NEW first, first = (op = "initialize")
  PROVE  /\ Carries(f, op, L, Both(Prepares(f, op) \cup LoaderFrom(f)), Execute(f, first),
                    Both(Prepares(f, op) \cup {Yes("halted"), <<"value", "result">>}))
         /\ Carries(f, op, L, Both(Prepares(f, op) \cup {Yes("halted"), <<"value", "result">>}),
                    Cleared, Final(f, op))
<1> DEFINE R == Prepares(f, op)
           Z == LoaderZ(f)
           T == R \cup {Yes("halted"), <<"value", "result">>}
<1>1. Frame(op, "return", R, Z)
  <2>1. Exit(op, "return", R) /\ {Yes("kept"), Mute} \subseteq R  BY DEF Exit, Prepares, Mailed
  <2>2. Report \subseteq Z  BY DEF LoaderZ, LoaderTouched, Ran
  <2>3. \A g \in {Yes("kept"), Yes("calm"), Mute, <<"mailbox", "mail">>} : g[1] \notin Z
    BY DEF LoaderZ, LoaderTouched, HartThings, Ran, Report, Yes, Mute
  <2>4. f = "V20X" => <<"dcsr", "debug">>[1] \notin Z
    BY DEF LoaderZ, LoaderTouched, HartThings, Ran, Report
  <2>5. \A g \in R : g \in {Yes("kept"), Yes("calm"), Mute, <<"mailbox", "mail">>} \/
          (f = "V20X" /\ g = <<"dcsr", "debug">>)
    BY DEF Prepares, Mailed
  <2>6. \A g \in R : g[1] \notin Z  BY <2>3, <2>4, <2>5
  <2> QED BY <2>1, <2>2, <2>6 DEF Frame
<1>2. Prepared(f, op, R)
  <2>1. op \in LoaderOps /\ op # "erase_all"  BY DEF LoaderOps
  <2>2. NeedsMail(f, op) /\ f # "V20X" => <<"mailbox", "mail">> \in R  BY DEF Prepares, Mailed
  <2> QED BY <2>1, <2>2 DEF Prepared
<1>3. /\ LoaderTouched \cup (IF f = "V20X" THEN {} ELSE {"dcsr"}) \subseteq Z
      /\ f = "V20X" /\ op = "initialize" => <<"dcsr", "debug">> \in R
  BY DEF LoaderZ, Prepares
<1>4. op # "resume" /\
        ((first = TRUE /\ op = "initialize") \/ (first = FALSE /\ op # "initialize"))  OBVIOUS
<1>5. FinalS(f, op) \subseteq T /\ FinalP(f, op) \subseteq T \cup T
  <2>1. {Yes("kept"), Yes("calm")} \subseteq R  BY DEF Prepares, Mailed
  <2> QED BY <2>1 DEF FinalS, FinalP, LoaderOps
<1>6. Both(T).s = T /\ Both(T).p = T  BY DEF Both, At
<1> HIDE DEF R, Z
<1>7. Carries(f, op, L, Both(R \cup LoaderFrom(f)), Execute(f, first), Both(T))
  BY <1>1, <1>2, <1>3, <1>4, ExecuteCarries
<1> HIDE DEF T
<1>8. Carries(f, op, L, Both(T), Cleared, Final(f, op))  BY <1>4, <1>5, <1>6, ClearedCarries
<1> QED BY <1>7, <1>8 DEF R, T

\* The unlock before the loader's run.
LEMMA UnlockPosted ==
  ASSUME NEW f \in AllFamilies, NEW op, op = "program" \/ op = "verify", NEW L
  PROVE  Carries(f, op, L, Both(Posted(f, op)), Unlock, Both(Prepares(f, op) \cup LoaderFrom(f)))
<1> DEFINE A == Both(Posted(f, op))
           B == Both(Prepares(f, op) \cup LoaderFrom(f))
<1>1. /\ A.s = Posted(f, op) /\ A.p = Posted(f, op)
      /\ B.s = Prepares(f, op) \cup LoaderFrom(f) /\ B.p = Prepares(f, op) \cup LoaderFrom(f)
  BY DEF Both, At
<1>2. Yes("kept") \in A.s /\ Exit(op, "return", A.s) /\ Yes("free") \in A.s
  BY <1>1 DEF Posted, Mailed, Exit
<1>3. Prepares(f, op) = Mailed(f, op)  BY DEF Prepares
<1>4. \A g \in B.s : g = Yes("unlocked") \/ g \in A.s
  BY <1>1, <1>3 DEF Posted, Mailed, LoaderFrom
<1>5. \A g \in A.s : g[1] \notin Report  BY <1>1 DEF Posted, Mailed, Report, Yes, Mute, Idling
<1>6. Yes("sure") \in B.s => Yes("sure") \in A.s  BY <1>4 DEF Yes
<1>7. \A g \in B.s \cup B.p : (g \in A.s /\ g[1] \notin Report) \/
        (g = Yes("unlocked") /\ Yes("free") \in A.s)
  BY <1>1, <1>2, <1>4, <1>5
<1> HIDE DEF A, B
<1>8. Carries(f, op, L, A, Unlock, B)  BY <1>2, <1>6, <1>7, UnlockCarries
<1> QED BY <1>8 DEF A, B

\* Programming and verifying the flash.
LEMMA LoaderProgram ==
  ASSUME NEW f \in AllFamilies, NEW op, op = "program" \/ op = "verify"
  PROVE  Carries(f, op, {}, First(f, op), Program(f, op), Final(f, op))
<1> DEFINE M == {"cleanup"}
           A == First(f, op)
           B == Both(Posted(f, op))
           C == Both(Prepares(f, op) \cup LoaderFrom(f))
           D == Both(Prepares(f, op) \cup {Yes("halted"), <<"value", "result">>})
           F == Final(f, op)
           p1 == Mailing(f, op)
           p2 == Execute(f, FALSE)
<1>1. Carries(f, op, M, A, p1, B)  BY MailCarries
<1>2. Carries(f, op, M, B, Unlock, C)  BY UnlockPosted
<1>3. Carries(f, op, M, C, p2, D)
  <2>1. FALSE = (op = "initialize")  OBVIOUS
  <2> QED BY <2>1, RunCarries
<1>4. Carries(f, op, {}, D, Cleared, F)
  <2>1. FALSE = (op = "initialize")  OBVIOUS
  <2> QED BY <2>1, RunCarries
<1>5. Covers(C, C)  BY CoversSelf
<1>6. Carries(f, op, M, C, <<>>, C)  BY <1>5, CarriesNone
<1>7. Program(f, op) = p1 \o Unlock \o <<>> \o p2 \o Cleared
  <2>1. Program(f, op) = ExecuteLoader(f, op)  BY DEF Program
  <2>2. op # "initialize"  OBVIOUS
  <2> QED BY <2>1, <2>2 DEF ExecuteLoader, Mailing
<1> HIDE DEF A, B, C, D, F, M, p1, p2
<1>8. Carries(f, op, M, A, p1 \o Unlock \o <<>> \o p2, D)  BY <1>1, <1>2, <1>3, <1>6, Chain4
<1>9. \A l \in M : l \in {} \/ HasLabel(Cleared, l)  BY ClearedHas DEF M
<1>10. Carries(f, op, {}, A, p1 \o Unlock \o <<>> \o p2 \o Cleared, F)
  BY <1>4, <1>8, <1>9, CarriesConcat
<1> QED BY <1>7, <1>10 DEF A, F

\* The preparation of the loader's first run.
LEMMA PrepareX03X ==
  ASSUME NEW f, f = "X03X", NEW op, op = "initialize", NEW L
  PROVE  Carries(f, op, L, Both(ReadKeeps(op) \cup {Idling}), Prepare(f),
                 Both(ReadKeeps(op) \cup {Idling}))
<1> DEFINE R == ReadKeeps(op)
           Z == {"prog", "sync"} \cup SlowTouched("peripheral")
           A == Both(R \cup {Idling})
           B == Both(R \cup ReadFinds(op))
           C == Both(R \cup {Yes("kept")})
           D == Both(R \cup {Idling, Yes("steady"), Fine, Yes("halted")}
                     \cup Written("peripheral", "set"))
           p1 == ReadAccess("peripheral")
           p2 == Write32Slow("peripheral", "set")
<1>1. R = {Yes("kept"), Yes("calm"), Mute, Yes("free"), Yes("unlocked"), Yes("off"), Yes("sure")}
  BY DEF ReadKeeps
<1>2. Frame(op, "return", R, Z)
  <2>1. Exit(op, "return", R) /\ {Yes("kept"), Mute} \subseteq R  BY <1>1 DEF Exit
  <2>2. Report \subseteq Z  BY DEF SlowTouched, Ran
  <2>3. \A g \in R : g[1] \notin Z  BY <1>1 DEF SlowTouched, Ran, Report, Yes, Mute
  <2> QED BY <2>1, <2>2, <2>3 DEF Frame
<1>3. op # "resume" /\ (op = "read" => "peripheral" = "a1") /\ Yes("unlocked") \in R /\
        Yes("kept") \in R
      /\ "peripheral" \in Blocks \cup {"peripheral"} /\
           {"prog", "sync"} \cup SlowTouched("peripheral") \subseteq Z
  BY <1>1
<1>4. Carries(f, op, L, A, p1, B)
  <2> HIDE DEF R
  <2>1. Carries(f, op, L, Both(ReadKeeps(op) \cup {Idling}), ReadAccess("peripheral"),
                Both(ReadKeeps(op) \cup ReadFinds(op)))
    BY <1>3, ReadAccessCarries
  <2> QED BY <2>1 DEF R
<1> HIDE DEF R, Z
<1>5. Carries(f, op, L, C, p2, D)  BY <1>2, <1>3, Write32SlowCarries
<1>6. Covers(B, C) /\ Covers(D, A)
  <2>1. R \cup {Yes("kept")} \subseteq R \cup ReadFinds(op)  BY <1>3
  <2>2. R \cup {Idling}
          \subseteq R \cup {Idling, Yes("steady"), Fine, Yes("halted")}
            \cup Written("peripheral", "set")  OBVIOUS
  <2> QED BY <2>1, <2>2, BothCovers
<1> HIDE DEF A, B, C, D, p1, p2
<1>7. Carries(f, op, L, B, p2, A)  BY <1>5, <1>6, CarriesCovers
<1>8. Carries(f, op, L, A, p1 \o p2 \o p1 \o p2, A)  BY <1>4, <1>7, Chain4
<1>9. Prepare(f) = p1 \o p2 \o p1 \o p2  BY DEF Prepare, p1, p2
<1> QED BY <1>8, <1>9 DEF A, R

\* The prepare function of the L103.
LEMMA PrepareL103 ==
  ASSUME NEW f, f = "L103", NEW op, op = "initialize", NEW L
  PROVE  Carries(f, op, L, Both({Yes("kept"), Yes("calm"), Mute, Idling}), Prepare(f),
                 Both({Yes("kept"), Yes("calm"), Mute, Idling}))
<1> DEFINE R == {Yes("kept"), Yes("calm"), Mute}
           Z == {"prog", "sync", "dcsr"} \cup SlowTouched("peripheral")
           N == {Idling}
           A == Both(R \cup {Idling})
           C == Both(R \cup {Yes("kept")})
           D == Both(R \cup {Idling, Yes("steady"), Fine, Yes("halted")}
                     \cup Written("peripheral", "set"))
           p1 == DebugControl
           p2 == Write32Slow("peripheral", "set")
<1>1. Frame(op, "return", R, Z)
  <2>1. Exit(op, "return", R) /\ {Yes("kept"), Mute} \subseteq R  BY DEF Exit
  <2>2. Report \subseteq Z  BY DEF SlowTouched, Ran
  <2>3. \A g \in R : g[1] \notin Z  BY DEF SlowTouched, Ran, Report, Yes, Mute
  <2> QED BY <2>1, <2>2, <2>3 DEF Frame
<1>2. /\ "peripheral" \in Blocks \cup {"peripheral"} /\
           {"prog", "sync"} \cup SlowTouched("peripheral") \subseteq Z
      /\ "dcsr" \in Regs /\ {"data0", "loose", "steady"} \cup SetTouched("dcsr") \subseteq Z
      /\ Yes("kept") \in R /\ f # "X03X" /\ Idling \in R \cup N
      /\ \A g \in N : \/ g \in {Fine, Yes("halted"), Idling, Yes("steady"), <<"dcsr", "debug">>}
                      \/ g \in N /\ g[1] \notin {"data0", "loose", "steady"} \cup SetTouched("dcsr")
  BY DEF Regs, SetTouched, SlowTouched, Ran
<1>3. {Yes("kept"), Yes("calm"), Mute, Idling} = R \cup {Idling}  OBVIOUS
<1> HIDE DEF R, Z
<1>4. Carries(f, op, L, A, p1, A)
  <2> HIDE DEF N
  <2>1. Carries(f, op, L, Both(R \cup N), WriteReg("dcsr", "debug", "return"), Both(R \cup N))
    BY <1>1, <1>2, RegFrame
  <2> QED BY <2>1 DEF N, DebugControl
<1>5. Carries(f, op, L, C, p2, D)  BY <1>1, <1>2, Write32SlowCarries
<1>6. Covers(A, C) /\ Covers(D, A)
  <2>1. R \cup {Yes("kept")} \subseteq R \cup {Idling}  BY <1>2
  <2>2. R \cup {Idling}
          \subseteq R \cup {Idling, Yes("steady"), Fine, Yes("halted")}
            \cup Written("peripheral", "set")  OBVIOUS
  <2> QED BY <2>1, <2>2, BothCovers
<1> HIDE DEF A, C, D, p1, p2
<1>7. Carries(f, op, L, A, p2, A)  BY <1>5, <1>6, CarriesCovers
<1>8. Carries(f, op, L, A, p1 \o p2, A)  BY <1>4, <1>7, CarriesThen
<1>9. Prepare(f) = p1 \o p2  BY DEF Prepare, p1, p2
<1> QED BY <1>3, <1>8, <1>9 DEF A

\* The prepare function of the V20X, whose peripheral write nobody waits for.
LEMMA PrepareV20X ==
  ASSUME NEW f, f = "V20X", NEW op, op = "initialize", NEW L
  PROVE  Carries(f, op, L, Both({Yes("kept"), Yes("calm"), Mute, Idling}), Prepare(f),
                 Both({Yes("kept"), Yes("calm"), Mute, <<"dcsr", "debug">>}))
<1> DEFINE R == {Yes("kept"), Yes("calm"), Mute}
           S == {Yes("kept"), Yes("calm"), Mute, <<"dcsr", "debug">>}
           Y == {"data0", "loose", "steady"} \cup SetTouched("dcsr")
           Z == {"data1", "aim", "data0", "loose"} \cup Blocks \cup Ran
           N == {Idling}
           T == {Idling, <<"dcsr", "debug">>}
           I == {Idling}
           K == {}
           A == Both(R \cup N)
           B == Both(R \cup T)
           C == At(S \cup I, K)
           D == At(S \cup {Yes("aim")}, Written("peripheral", "set") \cup K)
           E1 == Both(S)
           p1 == DebugControl
           p2 == WriteAccess("peripheral", "set")
<1>1. Frame(op, "return", R, Y)
  <2>1. Exit(op, "return", R) /\ {Yes("kept"), Mute} \subseteq R  BY DEF Exit
  <2>2. Report \subseteq Y  BY DEF SetTouched
  <2>3. \A g \in R : g[1] \notin Y  BY DEF SetTouched, Report, Yes, Mute
  <2> QED BY <2>1, <2>2, <2>3 DEF Frame
<1>2. Frame(op, "return", S, Z)
  <2>1. Exit(op, "return", S) /\ {Yes("kept"), Mute} \subseteq S  BY DEF Exit
  <2>2. Report \subseteq Z  BY DEF Ran
  <2>3. \A g \in S : g[1] \notin Z  BY DEF Blocks, Ran, Report, Yes, Mute
  <2> QED BY <2>1, <2>2, <2>3 DEF Frame
<1>3. /\ "dcsr" \in Regs /\ {"data0", "loose", "steady"} \cup SetTouched("dcsr") \subseteq Y /\
           Idling \in R \cup N
      /\ \A g \in T : \/ g \in {Fine, Yes("halted"), Idling, Yes("steady"), <<"dcsr", "debug">>}
                      \/ g \in N /\ g[1] \notin {"data0", "loose", "steady"} \cup SetTouched("dcsr")
  BY DEF Regs
<1>4. /\ "peripheral" \in Blocks \cup {"peripheral"} /\
           {"data1", "aim", "data0", "loose"} \cup Blocks \cup Ran \subseteq Z
      /\ I # {} /\ I \subseteq {Idling, Yes("aim")} /\
           (\A g \in K : g[1] \in Blocks \ {"peripheral"})
      /\ ("peripheral" = "peripheral" => K = {}) /\ f # "X03X"
  OBVIOUS
<1>5. Covers(B, C) /\ Covers(D, E1)  BY DEF Covers, Both, At
<1>6. {Yes("kept"), Yes("calm"), Mute, Idling} = R \cup N  OBVIOUS
<1>7. Carries(f, op, L, A, p1, B)
  <2> HIDE DEF N, R, T, Y
  <2>1. Carries(f, op, L, Both(R \cup N), WriteReg("dcsr", "debug", "return"), Both(R \cup T))
    BY <1>1, <1>3, RegFrame
  <2> QED BY <2>1 DEF DebugControl
<1> HIDE DEF R, S, N, T, I, K, Z
<1>8. Carries(f, op, L, C, p2, D)  BY <1>2, <1>4, WriteAccessCarries
<1> HIDE DEF A, B, C, D, E1, p1, p2
<1>9. Carries(f, op, L, B, p2, E1)  BY <1>5, <1>8, CarriesCovers
<1>10. Carries(f, op, L, A, p1 \o p2, E1)  BY <1>7, <1>9, CarriesThen
<1>11. Prepare(f) = p1 \o p2  BY DEF Prepare, p1, p2
<1> QED BY <1>6, <1>10, <1>11 DEF A, E1, S

\* The preparation of every family.
LEMMA PrepareCarries ==
  ASSUME NEW f \in AllFamilies, NEW op, op = "initialize", NEW L
  PROVE  Carries(f, op, L, Both(Opening(f, op)), Prepare(f),
                 Both(Prepares(f, op) \cup LoaderFrom(f)))
<1> DEFINE A == Both(Opening(f, op))
           B == Both(Prepares(f, op) \cup LoaderFrom(f))
           S == {Yes("kept"), Yes("calm"), Mute, Idling}
<1>1. op # "write"  OBVIOUS
<1>2. {Yes("kept"), Yes("calm"), Yes("free"), Yes("unlocked"), Idling, Mute}
        \subseteq Opening(f, op)
  <2>1. {Yes("kept"), Yes("calm"), Yes("free"), Yes("unlocked"), Idling} \subseteq Opening(f, op) /\
          Mute \in Opening(f, op)
    BY <1>1, OpeningKnows
  <2> QED BY <2>1
<1>3. Mailed(f, op) = {Yes("kept"), Yes("calm"), Mute}  BY DEF Mailed, NeedsMail
<1>4. CASE f = "X03X"
  <2> DEFINE T == ReadKeeps(op) \cup {Idling}
  <2>1. f \notin Streaming  BY <1>4 DEF Streaming
  <2>2. {Yes("sure"), Mute, Yes("off")} \subseteq Opening(f, op)  BY <2>1, OpeningKnows
  <2>3. T \subseteq Opening(f, op)  BY <1>2, <2>2 DEF ReadKeeps
  <2>4. Prepares(f, op) \cup LoaderFrom(f) \subseteq T
    BY <1>3, <1>4 DEF ReadKeeps, Prepares, LoaderFrom
  <2> HIDE DEF A, B, T
  <2>5. Covers(A, Both(T)) /\ Covers(Both(T), B)  BY <2>3, <2>4, BothCovers DEF A, B
  <2>6. Carries(f, op, L, Both(T), Prepare(f), Both(T))  BY <1>4, PrepareX03X DEF T
  <2>7. Carries(f, op, L, A, Prepare(f), B)  BY <2>5, <2>6, CarriesCovers
  <2> QED BY <2>7 DEF A, B
<1>5. CASE f = "L103"
  <2>1. Prepares(f, op) \cup LoaderFrom(f) \subseteq S  BY <1>3, <1>5 DEF Prepares, LoaderFrom
  <2>2. S \subseteq Opening(f, op)  BY <1>2
  <2>3. Carries(f, op, L, Both(S), Prepare(f), Both(S))  BY <1>5, PrepareL103
  <2> HIDE DEF A, B, S
  <2>4. Covers(A, Both(S)) /\ Covers(Both(S), B)  BY <2>1, <2>2, BothCovers DEF A, B
  <2>5. Carries(f, op, L, A, Prepare(f), B)  BY <2>3, <2>4, CarriesCovers
  <2> QED BY <2>5 DEF A, B
<1>6. CASE f = "V20X"
  <2> DEFINE T == {Yes("kept"), Yes("calm"), Mute, <<"dcsr", "debug">>}
  <2>1. Prepares(f, op) \cup LoaderFrom(f) \subseteq T  BY <1>3, <1>6 DEF Prepares, LoaderFrom
  <2>2. S \subseteq Opening(f, op)  BY <1>2
  <2>3. Carries(f, op, L, Both(S), Prepare(f), Both(T))  BY <1>6, PrepareV20X
  <2> HIDE DEF A, B, S, T
  <2>4. Covers(A, Both(S)) /\ Covers(Both(T), B)  BY <2>1, <2>2, BothCovers DEF A, B
  <2>5. Carries(f, op, L, A, Prepare(f), B)  BY <2>3, <2>4, CarriesCovers
  <2> QED BY <2>5 DEF A, B
<1>7. CASE f \notin {"X03X", "L103", "V20X"}
  <2>1. Prepares(f, op) \cup LoaderFrom(f) \subseteq Opening(f, op)
    BY <1>2, <1>3, <1>7 DEF Prepares, LoaderFrom
  <2>2. Covers(A, B)  BY <2>1, BothCovers
  <2>3. Prepare(f) = <<>>  BY <1>7 DEF Prepare
  <2> HIDE DEF A, B
  <2>4. Carries(f, op, L, A, <<>>, B)  BY <2>2, CarriesNone
  <2> QED BY <2>3, <2>4 DEF A, B
<1> QED BY <1>4, <1>5, <1>6, <1>7

\* The first run of the loader.
LEMMA InitializeProgram ==
  ASSUME NEW f \in AllFamilies, NEW op, op = "initialize"
  PROVE  Carries(f, op, {}, First(f, op), Program(f, op), Final(f, op))
<1> DEFINE M == {"cleanup"}
           A == First(f, op)
           B == Both(Opening(f, op))
           C == Both(Prepares(f, op) \cup LoaderFrom(f))
           D == Both(Prepares(f, op) \cup {Yes("halted"), <<"value", "result">>})
           F == Final(f, op)
           p1 == Execute(f, TRUE)
<1>1. Carries(f, op, M, A, <<>>, A)
  <2>1. Covers(A, A)  BY CoversSelf
  <2> QED BY <2>1, CarriesNone
<1>2. Carries(f, op, M, A, Unlock, B)
  <2>1. A.s = FirstS(f, op) /\ A.p = FirstS(f, op) /\ B.s = Opening(f, op) /\ B.p = Opening(f, op)
    BY DEF First, Both, At
  <2>2. {Yes("calm"), Yes("kept"), Yes("free")} \subseteq FirstS(f, op)  BY DEF FirstS
  <2>3. \A g \in Opening(f, op) : g = Yes("unlocked") \/ (g \in FirstS(f, op) /\ g[1] \notin Report)
    BY DEF Opening
  <2>4. Yes("sure") # Yes("unlocked")  BY DEF Yes
  <2>5. Yes("kept") \in A.s /\ Exit(op, "return", A.s) /\ Yes("free") \in A.s /\
          (Yes("sure") \in B.s => Yes("sure") \in A.s)
    BY <2>1, <2>2, <2>3, <2>4 DEF Exit
  <2>6. \A g \in B.s \cup B.p : (g \in A.s /\ g[1] \notin Report) \/
          (g = Yes("unlocked") /\ Yes("free") \in A.s)
    BY <2>1, <2>3, <2>5
  <2> HIDE DEF A, B
  <2> QED BY <2>5, <2>6, UnlockCarries
<1>3. Carries(f, op, M, B, Prepare(f), C)  BY PrepareCarries
<1>4. Carries(f, op, M, C, p1, D)
  <2>1. TRUE = (op = "initialize")  OBVIOUS
  <2> QED BY <2>1, RunCarries
<1>5. Carries(f, op, {}, D, Cleared, F)
  <2>1. TRUE = (op = "initialize")  OBVIOUS
  <2> QED BY <2>1, RunCarries
<1>6. Program(f, op) = <<>> \o Unlock \o Prepare(f) \o p1 \o Cleared
  <2>1. Program(f, op) = ExecuteLoader(f, op)  BY DEF Program
  <2>2. ~NeedsMail(f, op) /\ (op = "initialize") = TRUE  BY DEF NeedsMail
  <2> QED BY <2>1, <2>2 DEF ExecuteLoader
<1> HIDE DEF A, B, C, D, F, M, p1
<1>7. Carries(f, op, M, A, <<>> \o Unlock \o Prepare(f) \o p1, D)  BY <1>1, <1>2, <1>3, <1>4, Chain4
<1>8. \A l \in M : l \in {} \/ HasLabel(Cleared, l)  BY ClearedHas DEF M
<1>9. Carries(f, op, {}, A, <<>> \o Unlock \o Prepare(f) \o p1 \o Cleared, F)
  BY <1>5, <1>7, <1>8, CarriesConcat
<1> QED BY <1>6, <1>9 DEF A, F

\* What the erase knows between its steps.
Stub == {<<"a1", "w1">>, <<"a2", "w2">>}

\* Erasing the chip.
LEMMA EraseProgram ==
  ASSUME NEW f, IsCh5(f), NEW op, op = "erase_all"
  PROVE  Carries(f, op, {}, First(f, op), Program(f, op), Final(f, op))
<1> DEFINE X == {Yes("unlocked")}
           U == {Yes("kept"), Yes("sure"), Yes("calm"), Mute, Idling, Yes("off"), Yes("halted"),
                 <<"a1", "w1">>, <<"a2", "w2">>}
           R == {Yes("kept"), Yes("sure"), Yes("calm"), Mute, Yes("off")} \cup Stub
           Y == {}
           V == R \cup {Idling, Yes("steady"), Fine, <<"prog", "code">>} \cup Y
           S == {Yes("kept"), Yes("calm"), Mute} \cup Stub
           Z == LoaderTouched \cup {"dcsr"}
           T == S \cup {Yes("halted"), <<"value", "result">>}
           A == First(f, op)
           B == Both(U)
           C == Both(V)
           D == Both(S \cup LoaderFrom(f))
           F == Final(f, op)
           p1 == WriteBlock(f)
           p2 == EnableCodeMode
           p3 == Execute(f, FALSE)
<1>0. op # "resume" /\ op # "initialize" /\ op # "read" /\ f \in AllFamilies /\
        f \in {"CH58X", "CH59X"} /\ f \notin Streaming /\ f # "X03X" /\ f # "V20X"
  BY DEF IsCh5, AllFamilies, Streaming
<1>1. Carries(f, op, {}, A, p1, B)
  <2>1. SlowStart \cup X \subseteq FirstS(f, op)
    <3>1. {Yes("kept"), Yes("calm"), Idling, Yes("steady")} \subseteq FirstS(f, op)  BY DEF FirstS
    <3>2. {Yes("sure"), Mute, Yes("unlocked")} \subseteq FirstS(f, op)  BY <1>0 DEF FirstS
    <3> QED BY <3>1, <3>2 DEF SlowStart
  <2>2. A = Both(FirstS(f, op))  BY <1>0, OpeningKnows
  <2>3. \A g \in X : g = Yes("unlocked") \/ g = Yes("free")  OBVIOUS
  <2> HIDE DEF X
  <2>4. Carries(f, op, {}, Both(SlowStart \cup X), p1, B)  BY <1>0, <2>3, SlowBlock
  <2>5. Covers(A, Both(SlowStart \cup X))  BY <2>1, <2>2, BothCovers
  <2> QED BY <2>4, <2>5, CarriesCovers, CoversSelf
<1>2. Carries(f, op, {}, B, p2, C)
  <2>1. Frame(op, "return", R, CodeTouched)
    <3>1. Exit(op, "return", R) /\ {Yes("kept"), Mute} \subseteq R  BY <1>0 DEF Exit
    <3>2. Report \subseteq CodeTouched  BY DEF CodeTouched, Ran
    <3>3. \A g \in R : g[1] \notin CodeTouched  BY DEF CodeTouched, Ran, Report, Yes, Mute, Stub
    <3> QED BY <3>1, <3>2, <3>3 DEF Frame
  <2>2. /\ Yes("sure") \in R /\ Y \subseteq {Yes("sync")} /\ (Y # {} => <<"mode", "none">> \in R)
        /\ \A g \in R : g[1] \in {"auto", "off", "calm"} => g \in {Mute, Yes("off"), Yes("calm")}
    BY DEF Yes, Stub
  <2>3. CodeTouched \subseteq CodeTouched  OBVIOUS
  <2>4. R \cup {Idling} \subseteq U  BY DEF Stub
  <2> HIDE DEF R, Y
  <2>5. Carries(f, op, {}, Both(R \cup {Idling}), p2, C)  BY <2>1, <2>2, <2>3, CodeModeCarries
  <2> HIDE DEF U
  <2>6. Covers(B, Both(R \cup {Idling}))  BY <2>4, BothCovers
  <2> QED BY <2>5, <2>6, CarriesCovers, CoversSelf
<1>3. Carries(f, op, {}, C, Unlock, D)
  <2>1. C.s = V /\ D.s = S \cup {Idling} /\ D.p = S \cup {Idling}  BY <1>0 DEF Both, At, LoaderFrom
  <2>2. Yes("kept") \in C.s /\ Exit(op, "return", C.s)  BY <1>0, <2>1 DEF Exit
  <2>3. Yes("sure") \in D.s => Yes("sure") \in C.s  BY <2>1
  <2>5. S \cup {Idling} \subseteq V  OBVIOUS
  <2>6. \A g \in S \cup {Idling} : g[1] \notin Report  BY DEF Yes, Mute, Idling, Report, Stub
  <2> HIDE DEF S, V
  <2>4. \A g \in D.s \cup D.p : g \in C.s /\ g[1] \notin Report  BY <2>1, <2>5, <2>6
  <2> HIDE DEF C, D
  <2> QED BY <2>2, <2>3, <2>4, UnlockCarries
<1>4. Carries(f, op, {}, D, p3, Both(T))
  <2>1. Frame(op, "return", S, Z)
    <3>1. Exit(op, "return", S) /\ {Yes("kept"), Mute} \subseteq S  BY <1>0 DEF Exit
    <3>2. Report \subseteq Z  BY DEF LoaderTouched, Ran
    <3>3. \A g \in S : g[1] \notin Z  BY DEF LoaderTouched, HartThings, Ran, Report, Yes, Mute, Stub
    <3> QED BY <3>1, <3>2, <3>3 DEF Frame
  <2>2. Prepared(f, op, S)  BY <1>0 DEF Prepared, LoaderOps, NeedsMail, Stub
  <2>3. /\ LoaderTouched \cup (IF f = "V20X" THEN {} ELSE {"dcsr"}) \subseteq Z
        /\ (f = "V20X" /\ op = "initialize" => <<"dcsr", "debug">> \in S)
        /\ ((FALSE = TRUE /\ op = "initialize") \/ (FALSE = FALSE /\ op # "initialize"))
    BY <1>0
  <2> HIDE DEF S, Z
  <2> QED BY <1>0, <2>1, <2>2, <2>3, ExecuteCarries
<1>5. Covers(Both(T), F)
  <2>1. FinalS(f, op) \subseteq T /\ FinalP(f, op) \subseteq T
    BY <1>0 DEF FinalS, FinalP, LoaderOps
  <2> QED BY <2>1 DEF Covers, Final, Both, At
<1>6. Program(f, op) = p1 \o p2 \o Unlock \o p3  BY DEF Program, EraseAll
<1> HIDE DEF A, B, C, D, F, T, p1, p2, p3
<1>7. Carries(f, op, {}, A, p1 \o p2 \o Unlock \o p3, Both(T))  BY <1>1, <1>2, <1>3, <1>4, Chain4
<1>8. Carries(f, op, {}, A, p1 \o p2 \o Unlock \o p3, F)  BY <1>5, <1>7, CarriesCovers, CoversSelf
<1> QED BY <1>6, <1>8 DEF A, F

\* Rewriting a page.
LEMMA RewriteProgram ==
  ASSUME NEW f, IsCh5(f), NEW op, op = "rewrite_page"
  PROVE  Carries(f, op, {}, First(f, op), Program(f, op), Final(f, op))
<1> DEFINE R == {Yes("kept"), Yes("sure"), Yes("calm"), Mute, Yes("off")}
           N == {Idling, <<"page", "old">>, <<"mode", "none">>, Yes("sync")}
           S == R \cup N
           T == R \cup Resting("new")
           A == First(f, op)
           F == Final(f, op)
<1>0. op # "resume" /\ op # "read" /\ op # "write" /\ op # "write32" /\ f \in AllFamilies /\
        f \notin Streaming
      /\ op \notin LoaderOps /\ op \notin {"reset_halt", "reset_run", "soft_reset_run"}
  BY DEF IsCh5, AllFamilies, Streaming, LoaderOps
<1>1. Frame(op, "return", R, RewriteTouched)
  <2>1. Exit(op, "return", R) /\ {Yes("kept"), Mute} \subseteq R  BY <1>0 DEF Exit
  <2>2. Report \subseteq RewriteTouched  BY DEF RewriteTouched, CodeTouched, Ran
  <2>3. \A g \in R : g[1] \notin RewriteTouched
    BY DEF RewriteTouched, CodeTouched, ByteTouched, PageTouched, ByteThings, PortThings, Ran,
       Report, Yes, Mute
  <2> QED BY <2>1, <2>2, <2>3 DEF Frame
<1>2. /\ RewriteTouched \subseteq RewriteTouched /\ Yes("sure") \in R
      /\ \A g \in R : g[1] \in {"auto", "off", "calm"} => g \in {Mute, Yes("off"), Yes("calm")}
  BY DEF Yes
<1>3. S \subseteq FirstS(f, op)
  <2>1. {Yes("kept"), Yes("calm")} \cup N \subseteq FirstS(f, op)  BY DEF FirstS
  <2>2. {Yes("sure"), Mute, Yes("off")} \subseteq FirstS(f, op)  BY <1>0 DEF FirstS
  <2> QED BY <2>1, <2>2
<1>4. FinalS(f, op) \subseteq T /\ FinalP(f, op) \subseteq T
  <2>1. FinalS(f, op) = {Yes("kept"), Yes("calm"), <<"page", "new">>}  BY <1>0, Zenon DEF FinalS
  <2>2. FinalP(f, op) = FinalS(f, op)  BY <1>0 DEF FinalP
  <2>3. <<"page", "new">> \in Resting("new")  BY DEF Resting
  <2> QED BY <2>1, <2>2, <2>3
<1>5. Covers(Both(T), F)  BY <1>4 DEF Covers, Final, Both, At
<1>6. A = Both(FirstS(f, op))  BY <1>0, OpeningKnows
<1>7. Covers(A, Both(S))  BY <1>3, <1>6, BothCovers
<1> HIDE DEF R
<1>8. Carries(f, op, {}, Both(S), RewritePage, Both(T))  BY <1>1, <1>2, RewriteCarries
<1>9. Program(f, op) = RewritePage  BY DEF Program
<1> QED BY <1>5, <1>7, <1>8, <1>9, CarriesCovers

-----------------------------------------------------------------------------
(* All programs, and the interpreter's view of them.                       *)

\* Every program keeps what it promises.
THEOREM ProgramsCarry ==
  ASSUME NEW f \in AllFamilies, NEW op \in Operations, Supported(f, op)
  PROVE  Carries(f, op, {}, First(f, op), Program(f, op), Final(f, op))
<1>1. CASE op = "write"  BY <1>1, WriteProgram
<1>2. CASE op = "write32"  BY <1>2, Write32Program
<1>3. CASE op = "read"  BY <1>3, ReadProgram
<1>4. CASE op = "resume"  BY <1>4, ResumeProgram
<1>5. CASE op \in {"reset_halt", "reset_run", "soft_reset_run"}  BY <1>5, ResetPrograms
<1>6. CASE op = "initialize"  BY <1>6, InitializeProgram
<1>7. CASE op = "program" \/ op = "verify"  BY <1>7, LoaderProgram
<1>8. CASE op = "erase_all"
  <2>1. IsCh5(f)  BY <1>8 DEF Supported
  <2> QED BY <1>8, <2>1, EraseProgram
<1>9. CASE op = "rewrite_page"
  <2>1. IsCh5(f)  BY <1>9 DEF Supported
  <2> QED BY <1>9, <2>1, RewriteProgram
<1> QED BY <1>1, <1>2, <1>3, <1>4, <1>5, <1>6, <1>7, <1>8, <1>9 DEF Operations

\* The first of the positions that satisfy a condition.
LEMMA FirstOf ==
  ASSUME NEW J, J \in SUBSET Nat, J # {}
  PROVE  \E j \in J : \A k \in J : j <= k
<1> DEFINE R == {r \in Nat \X Nat : r[1] < r[2]}
<1>1. OpToRel(<, Nat) = R  BY DEF OpToRel
<1> HIDE DEF R
<1>2. IsWellFoundedOn(R, Nat)  BY <1>1, NatLessThanWellFounded, Zenon
<1>3. PICK m \in J : \A k \in J : ~(<<k, m>> \in R)  BY <1>2, WFMin
<1>4. \A k \in J : ~(k < m)  BY <1>3 DEF R
<1> QED BY <1>4

\* A failed access goes to the first later label of its name.
LEMMA TargetIs ==
  ASSUME NEW S, NEW p \in Seq(S), NEW i \in 1 .. Len(p), Lands(p, i, {}), p[i].fail # "return"
  PROVE  Target(p, i) \in 1 .. Len(p) /\ p[Target(p, i)].do = "label" /\
           p[Target(p, i)].reg = p[i].fail
<1> DEFINE J == {j \in i .. Len(p) : p[j].do = "label" /\ p[j].reg = p[i].fail}
           T(j) == /\ p[j].do = "label" /\ p[j].reg = p[i].fail
                   /\ \A k \in i .. (j - 1) : ~(p[k].do = "label" /\ p[k].reg = p[i].fail)
<1>1. Len(p) \in Nat /\ i \in Nat /\ J \in SUBSET Nat  OBVIOUS
<1>2. J # {}  BY DEF Lands
<1> HIDE DEF J
<1>3. PICK j \in J : \A k \in J : j <= k  BY <1>1, <1>2, FirstOf, Zenon
<1>4. j \in i .. Len(p)  BY <1>3 DEF J
<1>5. \A k \in i .. (j - 1) : k \notin J  BY <1>1, <1>3, <1>4
<1>6. T(j)  BY <1>1, <1>3, <1>4, <1>5 DEF J
<1>7. \E m \in i .. Len(p) : T(m)  BY <1>4, <1>6
<1>8. Target(p, i) = CHOOSE m \in i .. Len(p) : T(m)  BY DEF Target
<1> HIDE DEF T
<1>9. Target(p, i) \in i .. Len(p) /\ T(Target(p, i))  BY <1>7, <1>8
<1> QED BY <1>1, <1>9 DEF T

\* What a program without labels left open may do: Target is the label of a
\* failed access or 0.
Compiled(p, i) ==
  [do |-> p[i].do, reg |-> p[i].reg, val |-> p[i].val, fail |-> Target(p, i),
   next |-> IF i < Len(p) THEN i + 1 ELSE 0]

\* The interpreter reads a program as Compiled says.
LEMMA CompiledIs ==
  ASSUME NEW f \in Families, NEW op \in Ops, NEW i \in 1 .. Len(Program(f, op))
  PROVE  Programs[f][op][i] = Compiled(Program(f, op), i)
BY DEF Programs, Compiled

=============================================================================

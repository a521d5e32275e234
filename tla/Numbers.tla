------------------------------ MODULE Numbers ------------------------------
(***************************************************************************)
(* The numbers the UI shows, as algorithms over bounded inputs: the unit   *)
(* conversions, the cluster summary and the box that shows it, the usage   *)
(* column of a table, the digits of a number, and the decoding of secrets. *)
(* A job is one computation with its input; its loop, where the code has   *)
(* one, takes a step per turn. Numbers are fractions <<n, d>>: rounding    *)
(* happens only in Fixed. In the code Kibi is 1024 and Milli 1000.         *)
(***************************************************************************)
EXTENDS Integers, Sequences, FiniteSets, SequencesExt

CONSTANTS Kibi, Milli,
          Amounts,     \* metered amounts, in the base unit
          Places,      \* numbers to show, in ten-thousandths
          Leaf,        \* pods of the usage column; 0 to 2 are what is above them
          Letters,     \* bytes of a secret
          MaxLength    \* bound: length of a secret

ASSUME NumbersAssumption ==
  /\ Kibi \in Nat \ {0, 1} /\ Milli \in Nat \ {0, 1} /\ Amounts \subseteq Nat
  /\ Places \subseteq Nat /\ Letters \subseteq 0..255 /\ MaxLength \in Nat
  /\ IsFiniteSet(Leaf) /\ Leaf \cap {0, 1, 2} = {}

VARIABLES job,   \* the computation and its input
          work   \* how far it got

numberVars == <<job, work>>
Todo == [done |-> FALSE]

Mul(q, f) == <<q[1] * f[1], q[2] * f[2]>>
SameAmount(q, r) == q[1] * r[2] = r[1] * q[2]
Fixed(q, places) == <<(2 * q[1] * 10^places + q[2]) \div (2 * q[2]), 10^places>>
-----------------------------------------------------------------------------
(* A sum of natural numbers, as the number of units they have together.    *)
Units(f) == UNION {{x} \X (1..f[x]) : x \in DOMAIN f}
SumOver(f) == Cardinality(Units(f))

(* convertUnits: a pair it does not list leaves the value as it is.        *)
Factor(base, target) ==
  LET p == <<base, target>>
  IN CASE p \in {<<"bytes", "kibibytes">>, <<"kibibytes", "mebibytes">>} -> <<1, Kibi>>
       [] p \in {<<"kibibytes", "bytes">>, <<"mebibytes", "kibibytes">>, <<"gibibytes", "mebibytes">>} -> <<Kibi, 1>>
       [] p = <<"bytes", "mebibytes">> -> <<1, Kibi * Kibi>>
       [] p \in {<<"mebibytes", "bytes">>, <<"gibibytes", "kibibytes">>} -> <<Kibi * Kibi, 1>>
       [] p = <<"bytes", "gibibytes">> -> <<1, Kibi * Kibi * Kibi>>
       [] p = <<"gibibytes", "bytes">> -> <<Kibi * Kibi * Kibi, 1>>
       [] p = <<"cores", "millicores">> -> <<Milli, 1>>
       [] p = <<"millicores", "cores">> -> <<1, Milli>>
       [] OTHER -> <<1, 1>>
ConvertAsFixUnits(q, base, target) ==
  IF <<base, target>> = <<"gibibytes", "kibibytes">> THEN Mul(q, <<Kibi, 1>>) ELSE Mul(q, Factor(base, target))
ConvertUnits(q, base, target) == Mul(q, Factor(base, target))

(* fixUnits, of which its caller uses the unit only.                       *)
FixUnits(q, unit) ==
  IF q[1] >= q[2] THEN unit
  ELSE CASE unit = "gibibytes" -> "kibibytes" [] unit = "kibibytes" -> "bytes"
         [] unit = "cores" -> "millicores" [] OTHER -> unit

StatUnits == [cpu |-> <<"millicores", "cores">>, memory |-> <<"bytes", "gibibytes">>, volumes |-> <<"bytes", "gibibytes">>]
NamespaceUsage == [usage : Amounts, total : Amounts]

(* calculateMetrics, for one stat.  Quotas count for chosen namespaces     *)
(* only, requests like limits; a shared total, the disk's too, is that of  *)
(* the last namespace, which is the cluster's.  Rates of the network are   *)
(* left out.                                                               *)
Counted(in) == IF in.chosen = {} THEN {1, 2} ELSE in.chosen
CalculateMetrics(in) ==
  LET units == StatUnits[in.stat]
      counted == Counted(in)
      usage == SumOver([n \in counted |-> in.usage[n]])
      total == IF in.stat = "volumes" THEN in.total * Cardinality(counted) ELSE in.total
      quota == in.quota * Cardinality(in.chosen)
  IN [usage |-> ConvertUnits(<<usage, 1>>, units[1], units[2]),
      total |-> ConvertUnits(<<total, 1>>, units[1], units[2]),
      limitsUsage |-> ConvertUnits(<<quota, 1>>, units[1], units[2]),
      limitsTotal |-> ConvertUnits(<<quota, 1>>, units[1], units[2]), units |-> units[2]]

(* InfoBox: without a total, the limits are shown in place of the usage.   *)
(* The loop that converts the amounts takes the percentage of the bar for  *)
(* one of them, so a bar whose units change has not the width it should.   *)
InfoBox(s) ==
  LET metered == s.total[1] > 0
      usage == IF metered THEN s.usage ELSE s.limitsUsage
      total == IF metered THEN s.total ELSE s.limitsTotal
      units == FixUnits(total, s.units)
      percent == Fixed(<<100 * usage[1] * total[2], usage[2] * total[1]>>, 0)
  IN [usage |-> ConvertUnits(usage, s.units, units), total |-> ConvertUnits(total, s.units, units),
      units |-> units, metered |-> metered,
      utilization |-> IF total[1] > 0 THEN ConvertUnits(percent, s.units, units) ELSE <<0, 1>>]

Summarise ==
  /\ job.kind = "summary" /\ ~ work.done
  /\ work' = [done |-> TRUE, box |-> InfoBox(CalculateMetrics(job.in))]
  /\ UNCHANGED job
-----------------------------------------------------------------------------
(* The usage column of a deployment: breadth first through what it owns,   *)
(* its replica sets 1 and 2 and their pods; what owns nothing is looked up *)
(* among the pod metrics, where -1 stands for no entry.  The value to sort *)
(* by (getResourceCellValue) comes from the same loop.                     *)
OwnedBelow(n) == CASE n = 0 -> {1, 2} [] n \in {1, 2} -> {p \in Leaf : job.in.owner[p] = n} [] OTHER -> {}
StartCell ==
  /\ job.kind = "cell" /\ work = Todo
  /\ work' = [done |-> FALSE, queue |-> SetToSeq(OwnedBelow(0)), total |-> <<0, 1>>, count |-> 0]
  /\ UNCHANGED job

Looked(r, w) ==
  IF r \in Leaf /\ job.in.usage[r] >= 0
  THEN [w EXCEPT !.total = <<@[1] + job.in.usage[r], @[2]>>, !.count = @ + 1] ELSE w
LookedCountingAll(r, w) ==
  IF r \in Leaf /\ job.in.usage[r] >= 0
  THEN [w EXCEPT !.total = <<@[1] + job.in.usage[r], @[2]>>, !.count = @ + 1] ELSE [w EXCEPT !.count = @ + 1]
ShiftOwned(w, looked) ==
  LET r == Head(w.queue)
  IN IF OwnedBelow(r) # {} THEN [w EXCEPT !.queue = Tail(@) \o SetToSeq(OwnedBelow(r))]
     ELSE [looked EXCEPT !.queue = Tail(@)]
CellTurnCountingAll == ShiftOwned(work, LookedCountingAll(Head(work.queue), work))
CellTurn == ShiftOwned(work, Looked(Head(work.queue), work))
RenderResourceCell ==
  /\ job.kind = "cell" /\ ~ work.done /\ work # Todo
  /\ work' = IF work.queue # <<>> THEN CellTurn
             ELSE [work EXCEPT !.done = TRUE, !.total = ConvertUnits(@, "millicores", "cores")]
  /\ UNCHANGED job
-----------------------------------------------------------------------------
(* A utilisation column of the nodes: the percentage that is shown, blank  *)
(* without metrics, and the value the table sorts by, the server's ratio   *)
(* or -1.  Without a total (<<u, 0>> shows as NaN or Infinity) the ratio   *)
(* is 0.                                                                   *)
NoMetrics == [usage |-> 0, total |-> -1]
NodeCell(m) ==
  CASE m = NoMetrics -> "" [] m.total = 0 -> "no number" [] OTHER -> Fixed(<<100 * m.usage, m.total>>, 0)
NodeUsage(m) == IF m = NoMetrics THEN <<-1, 1>> ELSE <<m.usage, 1>>
NodeValue(m) ==
  CASE m = NoMetrics -> <<-1, 1>> [] m.total = 0 -> <<0, 1>> [] OTHER -> <<m.usage, m.total>>
RenderNodes ==
  /\ job.kind = "nodes" /\ ~ work.done
  /\ work' = [done |-> TRUE, cells |-> [n \in {1, 2} |-> NodeCell(job.in[n])],
              values |-> [n \in {1, 2} |-> NodeValue(job.in[n])]]
  /\ UNCHANGED job
-----------------------------------------------------------------------------
(* fixPrecision, with two decimals at most: more digits the smaller it is. *)
DecimalsOneLess(n) == CHOOSE d \in 0..2 : (n >= 10^(5 - d) \/ d = 2) /\ \A e \in 0..(d - 1) : n < 10^(5 - e)
Decimals(n) == CHOOSE d \in 0..3 : (n >= 10^(5 - d) \/ d = 3) /\ \A e \in 0..(d - 1) : n < 10^(5 - e)
FixPrecision ==
  /\ job.kind = "precision" /\ ~ work.done
  /\ LET n == job.in
     IN work' = [done |-> TRUE,
                 shown |-> IF n < 10^(5 - Decimals(n)) THEN Fixed(<<n, 10000>>, 0) ELSE Fixed(<<n, 10000>>, Decimals(n))]
  /\ UNCHANGED job
-----------------------------------------------------------------------------
(* The API server's encoding, three bytes to four sextets; "=" is 64.      *)
At(s, i) == IF i <= Len(s) THEN s[i] ELSE 0
Encoded(s) ==
  [i \in 1..(4 * ((Len(s) + 2) \div 3)) |->
    LET g == (i - 1) \div 4
        a == At(s, 3 * g + 1)
        b == At(s, 3 * g + 2)
        c == At(s, 3 * g + 3)
    IN CASE (i - 1) % 4 = 0 -> a \div 4
         [] (i - 1) % 4 = 1 -> (a % 4) * 16 + b \div 16
         [] (i - 1) % 4 = 2 -> IF 3 * g + 2 <= Len(s) THEN (b % 16) * 4 + c \div 64 ELSE 64
         [] (i - 1) % 4 = 3 -> IF 3 * g + 3 <= Len(s) THEN c % 64 ELSE 64]

(* A turn of decodeBase64: padding yields no character.                    *)
DecodeGroupPadded(e) ==
  <<e[1] * 4 + e[2] \div 16, (e[2] % 16) * 16 + (e[3] % 64) \div 4, (e[3] % 4) * 64 + (e[4] % 64)>>
DecodeGroup(e) ==
  <<e[1] * 4 + e[2] \div 16>>
  \o (IF e[3] # 64 THEN <<(e[2] % 16) * 16 + e[3] \div 4>> ELSE <<>>)
  \o (IF e[4] # 64 THEN <<(e[3] % 4) * 64 + e[4]>> ELSE <<>>)
StartDecode ==
  /\ job.kind = "secret" /\ work = Todo
  /\ work' = [done |-> FALSE, decoded |-> FALSE, input |-> Encoded(job.in), i |-> 0, bytes |-> <<>>, at |-> 1,
              shown |-> <<>>]
  /\ UNCHANGED job

(* The loop tests its condition last and a character past the end is found *)
(* at 0, as "A" is: nothing at all is decoded to three zeros.              *)
DecodeBase64 ==
  /\ job.kind = "secret" /\ work # Todo /\ ~ work.decoded
  /\ work' = [done |-> FALSE, decoded |-> work.i + 4 >= Len(work.input), input |-> work.input, i |-> work.i + 4,
              bytes |-> work.bytes \o DecodeGroup([k \in 1..4 |-> At(work.input, work.i + k)]), at |-> 1,
              shown |-> <<>>]
  /\ UNCHANGED job

(* unescape, from left to right: "%" (37) and two hexadecimal digits, or   *)
(* "%u" (117) and four, are one character.                                 *)
HexDigits == (48..57) \cup (65..70) \cup (97..102)
Digit(c) == CASE c <= 57 -> c - 48 [] c <= 70 -> c - 55 [] OTHER -> c - 87
Hex(s, k) == 16 * Digit(s[k]) + Digit(s[k + 1])
Narrow(s, k) == s[k] = 37 /\ k + 2 <= Len(s) /\ \A i \in (k + 1)..(k + 2) : s[i] \in HexDigits
Wide(s, k) == s[k] = 37 /\ k + 5 <= Len(s) /\ s[k + 1] = 117 /\ \A i \in (k + 2)..(k + 5) : s[i] \in HexDigits
Unescaped(s, k) ==
  CASE Wide(s, k) -> [char |-> 256 * Hex(s, k + 2) + Hex(s, k + 4), next |-> k + 6]
    [] Narrow(s, k) -> [char |-> Hex(s, k + 1), next |-> k + 3]
    [] OTHER -> [char |-> s[k], next |-> k + 1]
Unescape ==
  /\ job.kind = "secret" /\ work # Todo /\ work.decoded /\ ~ work.done
  /\ LET ends == work.at > Len(work.bytes)
         turn == Unescaped(work.bytes, work.at)
     IN work' = [done |-> ends, decoded |-> TRUE, input |-> work.input, i |-> work.i, bytes |-> work.bytes,
                 at |-> IF ends THEN work.at ELSE turn.next,
                 shown |-> IF ends THEN work.shown ELSE Append(work.shown, turn.char)]
  /\ UNCHANGED job
-----------------------------------------------------------------------------
SummaryInputs == [stat : DOMAIN StatUnits, usage : [{1, 2} -> Amounts], total : Amounts, quota : Amounts,
                  chosen : SUBSET {1, 2}]
CellInputs == [owner : [Leaf -> {1, 2, 3}], usage : [Leaf -> Amounts \cup {-1}]]
Secrets == UNION {[1..n -> Letters] : n \in 0..MaxLength}
Jobs == [kind : {"summary"}, in : SummaryInputs] \cup [kind : {"cell"}, in : CellInputs]
        \cup [kind : {"nodes"}, in : [{1, 2} -> NamespaceUsage \cup {NoMetrics}]]
        \cup [kind : {"precision"}, in : Places] \cup [kind : {"secret"}, in : Secrets]

NumbersInit == job \in Jobs /\ work = Todo
NumbersNext == Summarise \/ StartCell \/ RenderResourceCell \/ RenderNodes \/ FixPrecision \/ StartDecode \/ DecodeBase64 \/ Unescape
NumbersSpec == NumbersInit /\ [][NumbersNext]_numberVars
-----------------------------------------------------------------------------
NumbersTypeOK == job.kind \in {"summary", "cell", "nodes", "precision", "secret"} /\ work.done \in BOOLEAN

Done(kind) == job.kind = kind /\ work.done

(* The usage of the summary, in the unit that is shown with it, is what    *)
(* the chosen namespaces use (calculateMetrics, fixUnits, convertUnits and *)
(* InfoBox, which choose units and factors independently).                 *)
Sizes == [bytes |-> 1, kibibytes |-> Kibi, mebibytes |-> Kibi * Kibi, gibibytes |-> Kibi * Kibi * Kibi,
          millicores |-> 1, cores |-> Milli]
ShownAmount ==
  (Done("summary") /\ work.box.metered) =>
    LET in == job.in
        here == IF in.chosen = {} THEN {1, 2} ELSE in.chosen
    IN SameAmount(<<work.box.usage[1] * Sizes[work.box.units], work.box.usage[2]>>,
                  <<SumOver([n \in here |-> in.usage[n]]), 1>>)

(* The usage column of a resource is computed from each pod below it that  *)
(* has metrics, once, and from no other (renderResourceCell).              *)
CellIsAverage ==
  Done("cell") =>
    LET pods == {p \in Leaf : job.in.owner[p] \in {1, 2} /\ job.in.usage[p] >= 0}
    IN /\ work.count = Cardinality(pods)
       /\ SameAmount(Mul(work.total, <<Milli, 1>>), <<SumOver([p \in pods |-> job.in.usage[p]]), 1>>)

(* A number is shown with enough digits to be off by a twentieth at most,  *)
(* unless it is below a hundredth (fixPrecision).                          *)
ReadablePrecision ==
  (Done("precision") /\ job.in >= 100) =>
    LET shown == work.shown[1] * (10000 \div work.shown[2])
    IN 20 * (shown - job.in) <= job.in /\ 20 * (job.in - shown) <= job.in

(* A table of nodes sorted by utilisation is sorted by the percentages it  *)
(* shows: renderCell computes them from usage and total, getCellValue      *)
(* takes the ratio the server computed.                                    *)
RankedAsShown ==
  (Done("nodes") /\ \A n \in {1, 2} : job.in[n].total > 0) =>
    (work.values[1][1] * work.values[2][2] <= work.values[2][1] * work.values[1][2]
       => work.cells[1][1] <= work.cells[2][1])

(* A secret that is not empty is decoded to the bytes the API server       *)
(* encoded, and these are shown as they are unless unescape (the last step *)
(* of decodeBase64) finds an escape among them.                            *)
Escapes(s) == \E k \in DOMAIN s : Wide(s, k) \/ Narrow(s, k)
DecodedIsInput ==
  (Done("secret") /\ job.in # <<>>) =>
    /\ work.bytes = job.in
    /\ ~ Escapes(job.in) => work.shown = job.in
=============================================================================

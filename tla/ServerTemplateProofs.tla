------------------------ MODULE ServerTemplateProofs ------------------------
(* Theorems about ServerTemplate: admission, and what ensureGUSDefaults writes. *)
EXTENDS ServerTemplate, WellFoundedInduction, TLAPS

\* PortConflict compares the ends of the two ranges; that is exactly whether some game port is
\* also an RCON port, for all starts and any number of maps.
LEMMA PortConflictExact ==
  ASSUME NEW g \in Int, NEW r \in Int, NEW n \in Nat
  PROVE  PortConflict(g, r, n) <=>
           \E i, j \in 0 .. n - 1 : GamePort(g, i) = RconPort(r, j)
<1>1. ASSUME PortConflict(g, r, n)
      PROVE  \E i, j \in 0 .. n - 1 : GamePort(g, i) = RconPort(r, j)
  <2>1. n >= 1 /\ g <= r + n - 1 /\ r <= g + n - 1
    BY <1>1 DEF PortConflict
  <2>2. CASE g <= r
    <3>1. r - g \in 0 .. n - 1 /\ 0 \in 0 .. n - 1
      BY <2>1, <2>2
    <3>2. GamePort(g, r - g) = RconPort(r, 0)
      BY DEF GamePort, RconPort
    <3> QED  BY <3>1, <3>2
  <2>3. CASE r < g
    <3>1. g - r \in 0 .. n - 1 /\ 0 \in 0 .. n - 1
      BY <2>1, <2>3
    <3>2. GamePort(g, 0) = RconPort(r, g - r)
      BY DEF GamePort, RconPort
    <3> QED  BY <3>1, <3>2
  <2> QED  BY <2>2, <2>3
<1>2. ASSUME NEW i \in 0 .. n - 1, NEW j \in 0 .. n - 1, GamePort(g, i) = RconPort(r, j)
      PROVE  PortConflict(g, r, n)
  BY <1>2 DEF PortConflict, GamePort, RconPort
<1> QED  BY <1>1, <1>2

\* The webhook guards every write of the spec.
Admitted == spec \in Specs /\ validate(spec)

\* A spec that passed validation has disjoint ports.
LEMMA AdmittedDisjoint == Admitted => PortsDisjoint
<1> SUFFICES ASSUME Admitted,
                    NEW i \in 0 .. Len(spec.maps) - 1, NEW j \in 0 .. Len(spec.maps) - 1
             PROVE  GamePort(spec.game, i) # RconPort(spec.rcon, j)
  BY DEF PortsDisjoint
<1>1. spec.game \in Int /\ spec.rcon \in Int /\ Len(spec.maps) \in Nat
  BY TemplateAssumption DEF Admitted
<1>2. ~PortConflict(spec.game, spec.rcon, Len(spec.maps))
  BY DEF Admitted, validate
<1> QED  BY <1>1, <1>2, PortConflictExact

\* Whatever users and the operator do: no game port of a map is an RCON port of a map.
THEOREM Admission == Spec => []PortsDisjoint
<1>1. Init => Admitted
  BY TemplateAssumption DEF Init, Admitted
<1>2. Admitted /\ [Next]_vars => Admitted'
  <2> SUFFICES ASSUME Admitted, [Next]_vars
               PROVE  Admitted'
    OBVIOUS
  <2>1. ASSUME NEW s \in Specs, EditSpec(s)
        PROVE  Admitted'
    BY <2>1 DEF EditSpec, Admitted, validate
  <2>2. ASSUME UNCHANGED spec
        PROVE  Admitted'
    BY <2>2 DEF Admitted, validate
  <2>3. ASSUME NEW content \in Contents, EditSource(content)
        PROVE  UNCHANGED spec
    BY <2>3 DEF EditSource
  <2>4. ASSUME NEW name \in {"own", "user"}, EditSecret(name)
        PROVE  UNCHANGED spec
    BY <2>4 DEF EditSecret
  <2>5. ASSUME Pass
        PROVE  UNCHANGED spec
    BY <2>5 DEF Pass, Begin, EnsureMap, ReconcilePod, Finish, inputs
  <2>6. CASE UNCHANGED vars
    BY <2>2, <2>6 DEF vars
  <2> QED  BY <2>1, <2>2, <2>3, <2>4, <2>5, <2>6 DEF Next
<1>3. Admitted => PortsDisjoint
  BY AdmittedDisjoint
<1> QED  BY <1>1, <1>2, <1>3, PTL DEF Spec

-----------------------------------------------------------------------------
(* The first index of a set of them. *)

Less == {ss \in Nat \X Nat : ss[1] < ss[2]}

LEMMA MinExists ==
  ASSUME NEW S \in SUBSET Nat, S # {}
  PROVE  Min(S) \in S /\ \A y \in S : Min(S) <= y
<1>1. OpToRel(<, Nat) = Less
  BY DEF OpToRel, Less
<1>2. IsWellFoundedOn(Less, Nat)
  BY <1>1, NatLessThanWellFounded
<1>3. \E x \in S : \A y \in S : ~(<<y, x>> \in Less)
  BY <1>2, WFMin
<1>4. \E x \in S : \A y \in S : x <= y
  <2>1. \A x, y \in Nat : y < x => <<y, x>> \in Less
    BY DEF Less
  <2>2. \E x \in S : \A y \in S : ~(y < x)
    BY <1>3, <2>1, Zenon
  <2> QED
    BY <2>2
<1> QED
  BY <1>4 DEF Min

Keys == STRING \cup {"[ServerSettings]", "RCONEnabled", "RCONPort", ""}
INI == Seq([k : Keys, v : Int])

LEMMA FirstHeader ==
  ASSUME NEW lines \in INI, NEW h, h = SelectInSeq(lines, LAMBDA l : l.k = "[ServerSettings]")
  PROVE  \/ h = 0 /\ \A g \in 1 .. Len(lines) : lines[g].k # "[ServerSettings]"
         \/ /\ h \in 1 .. Len(lines) /\ lines[h].k = "[ServerSettings]"
            /\ \A g \in 1 .. h - 1 : lines[g].k # "[ServerSettings]"
<1> DEFINE I == {i \in 1 .. Len(lines) : lines[i].k = "[ServerSettings]"}
<1>1. h = IF I # {} THEN Min(I) ELSE 0
  BY DEF SelectInSeq
<1>2. Len(lines) \in Nat
  BY DEF INI
<1>3. CASE I = {}
  BY <1>1, <1>3
<1>4. CASE I # {}
  <2>1. h \in I /\ \A y \in I : h <= y
    <3>1. I \in SUBSET Nat
      OBVIOUS
    <3> HIDE DEF I
    <3> QED
      BY <1>1, <1>4, <3>1, MinExists
  <2>2. \A g \in 1 .. h - 1 : g \notin I
    <3> HIDE DEF I
    <3>1. h \in Nat /\ I \in SUBSET Nat
      BY <1>2, <2>1 DEF I
    <3> QED
      BY <2>1, <3>1
  <2> QED
    BY <1>2, <2>1, <2>2
<1> QED
  BY <1>3, <1>4

\* No header between the one at h and the end of its section, which is a header or past the file.
LEMMA SectionHasNoHeader ==
  ASSUME NEW lines \in INI, NEW h \in 1 .. Len(lines)
  PROVE  /\ SectionEnd(lines, h) \in h + 1 .. Len(lines) + 1
         /\ \A g \in h + 1 .. SectionEnd(lines, h) - 1 : ~IsHeader(lines[g])
         /\ SectionEnd(lines, h) = Len(lines) + 1 \/ IsHeader(lines[SectionEnd(lines, h)])
<1> DEFINE I == {i \in h + 1 .. Len(lines) : IsHeader(lines[i])}
           next == SelectInSubSeq(lines, h + 1, Len(lines), IsHeader)
<1>1. next = IF I # {} THEN Min(I) ELSE 0
  BY DEF SelectInSubSeq
<1>2. Len(lines) \in Nat /\ h \in Nat /\ h >= 1 /\ h <= Len(lines)
  BY DEF INI
<1>3. SectionEnd(lines, h) = IF next = 0 THEN Len(lines) + 1 ELSE next
  BY DEF SectionEnd
<1> HIDE DEF next
<1>4. CASE I = {}
  <2>1. SectionEnd(lines, h) = Len(lines) + 1
    BY <1>1, <1>3, <1>4
  <2> QED
    BY <1>2, <1>4, <2>1
<1>5. CASE I # {}
  <2>1. next \in I /\ \A y \in I : next <= y
    <3>1. I \in SUBSET Nat
      BY <1>2
    <3> HIDE DEF I
    <3> QED
      BY <1>1, <1>5, <3>1, MinExists
  <2>2. next \in h + 1 .. Len(lines) /\ next # 0
    BY <1>2, <2>1
  <2>3. SectionEnd(lines, h) = next
    BY <1>3, <2>2
  <2>4. \A g \in h + 1 .. next - 1 : g \notin I
    <3> HIDE DEF I
    <3>1. \A g \in h + 1 .. next - 1 : ~(next <= g)
      BY <1>2, <2>2
    <3> QED
      BY <2>1, <3>1
  <2>5. \A g \in h + 1 .. next - 1 : g \in h + 1 .. Len(lines)
    BY <1>2, <2>2
  <2>6. IsHeader(lines[next])
    BY <2>1
  <2> QED
    BY <1>2, <2>2, <2>3, <2>4, <2>5, <2>6
<1> QED
  BY <1>4, <1>5

-----------------------------------------------------------------------------
(* What ensureGUSDefaults writes. *)

LEMMA LengthType == ASSUME NEW lines \in INI PROVE Len(lines) \in Nat /\ DOMAIN lines = 1 .. Len(lines)
BY DEF INI

\* The section is what stands between its header and the next.
LEMMA SettingsBetween ==
  ASSUME NEW lines \in INI, NEW h \in 1 .. Len(lines), lines[h].k = "[ServerSettings]",
         \A g \in 1 .. h - 1 : lines[g].k # "[ServerSettings]",
         NEW e \in h + 1 .. Len(lines) + 1, \A g \in h + 1 .. e - 1 : ~IsHeader(lines[g]),
         e = Len(lines) + 1 \/ IsHeader(lines[e])
  PROVE  ServerSettings(lines) = {lines[n] : n \in h + 1 .. e - 1}
<1>1. Len(lines) \in Nat /\ DOMAIN lines = 1 .. Len(lines) /\ h \in Nat /\ h >= 1 /\ e \in Nat
  BY LengthType
<1>2. ASSUME NEW n \in h + 1 .. e - 1
      PROVE  lines[n] \in ServerSettings(lines)
  <2>1. n \in DOMAIN lines /\ h \in 1 .. n - 1 /\ \A g \in h + 1 .. n : g \in h + 1 .. e - 1
    BY <1>1
  <2> QED
    BY <2>1 DEF ServerSettings
<1>3. ASSUME NEW n \in DOMAIN lines, NEW x \in 1 .. n - 1, lines[x].k = "[ServerSettings]",
             \A g \in 1 .. x - 1 : lines[g].k # "[ServerSettings]",
             \A g \in x + 1 .. n : ~IsHeader(lines[g])
      PROVE  n \in h + 1 .. e - 1
  <2>1. x = h
    <3>1. ~(x < h)
      <4>1. x < h => x \in 1 .. h - 1
        BY <1>1
      <4> QED
        BY <1>3, <4>1
    <3>2. ~(h < x)
      <4>1. h < x => h \in 1 .. x - 1
        BY <1>1
      <4> QED
        BY <1>3, <4>1
    <3> QED
      BY <1>1, <3>1, <3>2
  <2>2. ~(e <= n)
    <3>1. e <= n => e \in x + 1 .. n /\ e # Len(lines) + 1
      BY <1>1, <2>1
    <3> QED
      BY <1>3, <3>1
  <2> QED
    BY <1>1, <2>1, <2>2
<1>4. ASSUME NEW l \in ServerSettings(lines)
      PROVE  l \in {lines[n] : n \in h + 1 .. e - 1}
  <2>1. PICK n \in DOMAIN lines :
          /\ l = lines[n]
          /\ \E x \in 1 .. n - 1 :
               /\ lines[x].k = "[ServerSettings]"
               /\ \A g \in 1 .. x - 1 : lines[g].k # "[ServerSettings]"
               /\ \A g \in x + 1 .. n : ~IsHeader(lines[g])
    BY Zenon DEF ServerSettings
  <2>2. n \in h + 1 .. e - 1
    BY <1>3, <2>1, Zenon
  <2> QED
    BY <2>1, <2>2, Zenon
<1>5. \A l \in {lines[n] : n \in h + 1 .. e - 1} : l \in ServerSettings(lines)
  BY <1>2, Zenon
<1> QED
  BY <1>4, <1>5, Zenon

LEMMA NoSettings ==
  ASSUME NEW lines \in INI, \A g \in 1 .. Len(lines) : lines[g].k # "[ServerSettings]"
  PROVE  ServerSettings(lines) = {}
<1>1. Len(lines) \in Nat /\ DOMAIN lines = 1 .. Len(lines)
  BY LengthType
<1>2. ASSUME NEW n \in DOMAIN lines, NEW x \in 1 .. n - 1 PROVE lines[x].k # "[ServerSettings]"
  <2>1. x \in 1 .. Len(lines)
    BY <1>1
  <2> QED
    BY <2>1
<1> QED
  BY <1>2 DEF ServerSettings

LEMMA Spliced ==
  ASSUME NEW T, NEW s \in Seq(T), NEW h \in 1 .. Len(s), NEW mid \in Seq(T)
  PROVE  LET out == SubSeq(s, 1, h) \o mid \o SubSeq(s, h + 1, Len(s))
         IN  /\ out \in Seq(T) /\ Len(out) = Len(s) + Len(mid)
             /\ \A i \in 1 .. h : out[i] = s[i]
             /\ \A i \in 1 .. Len(mid) : out[h + i] = mid[i]
             /\ \A i \in h + 1 .. Len(s) : out[Len(mid) + i] = s[i]
<1> DEFINE a == SubSeq(s, 1, h)
           b == a \o mid
           c == SubSeq(s, h + 1, Len(s))
           out == b \o c
<1>1. a \in Seq(T) /\ Len(a) = h /\ \A i \in 1 .. h : a[i] = s[i]
  OBVIOUS
<1>2. c \in Seq(T) /\ Len(c) = Len(s) - h /\ \A i \in 1 .. Len(s) - h : c[i] = s[h + i]
  OBVIOUS
<1>3. Len(s) \in Nat /\ Len(mid) \in Nat /\ h \in Nat /\ h >= 1 /\ h <= Len(s)
  OBVIOUS
<1> HIDE DEF a, c
<1>4. /\ b \in Seq(T) /\ Len(b) = Len(a) + Len(mid)
      /\ \A i \in 1 .. Len(a) : b[i] = a[i]
      /\ \A i \in 1 .. Len(mid) : b[Len(a) + i] = mid[i]
  BY <1>1
<1> HIDE DEF b
<1>5. /\ out \in Seq(T) /\ Len(out) = Len(b) + Len(c)
      /\ \A i \in 1 .. Len(b) : out[i] = b[i]
      /\ \A i \in 1 .. Len(c) : out[Len(b) + i] = c[i]
  <2>1. b \in Seq(T) /\ c \in Seq(T)
    BY <1>2, <1>4
  <2> QED
    BY <2>1
<1> HIDE DEF out
<1>6. Len(out) = Len(s) + Len(mid)
  BY <1>1, <1>2, <1>3, <1>4, <1>5
<1>7. \A i \in h + 1 .. Len(s) : out[Len(mid) + i] = s[i]
  <2> SUFFICES ASSUME NEW i \in h + 1 .. Len(s) PROVE out[Len(mid) + i] = s[i]
    OBVIOUS
  <2>1. i - h \in 1 .. Len(s) - h /\ h + Len(mid) + (i - h) = Len(mid) + i /\ h + (i - h) = i
    BY <1>3
  <2>2. out[h + Len(mid) + (i - h)] = c[i - h] /\ c[i - h] = s[h + (i - h)]
    BY <1>1, <1>2, <1>4, <1>5, <2>1
  <2> QED
    BY <2>1, <2>2
<1>8. \A i \in 1 .. h : i \in 1 .. Len(b)
  BY <1>1, <1>3, <1>4
<1>9. \A i \in 1 .. h : out[i] = s[i]
  BY <1>1, <1>4, <1>5, <1>8
<1>10. \A i \in 1 .. Len(mid) : h + i \in 1 .. Len(b)
  BY <1>1, <1>3, <1>4
<1>11. \A i \in 1 .. Len(mid) : out[h + i] = mid[i]
  BY <1>1, <1>4, <1>5, <1>10
<1> QED
  BY <1>5, <1>6, <1>7, <1>9, <1>11 DEF out, a, b, c

Defaults(port) == {Line("RCONEnabled", 1), Line("RCONPort", port)}

\* The default lines are lines, and no headers.
LEMMA DefaultLines ==
  ASSUME NEW port \in Int
  PROVE  /\ Line("[ServerSettings]", 0) \in [k : Keys, v : Int]
         /\ \A d \in Defaults(port) :
              d \in [k : Keys, v : Int] /\ ~IsHeader(d) /\ d.k # "[ServerSettings]"
BY DEF Defaults, Line, Keys, IsHeader

\* A file without the section gets one at its top, with both defaults.
LEMMA NewSectionMerges ==
  ASSUME NEW port \in Int, NEW lines \in INI, ServerSettings(lines) = {}, NEW rest \in INI, NEW out,
         out = <<Line("[ServerSettings]", 0), Line("RCONEnabled", 1), Line("RCONPort", port)>> \o rest
  PROVE  out \in INI /\ Merged(out, lines, port)
<1> DEFINE T == [k : Keys, v : Int]
           a == Line("[ServerSettings]", 0)
           b == Line("RCONEnabled", 1)
           c == Line("RCONPort", port)
<1>1. a \in T /\ b \in T /\ c \in T /\ a.k = "[ServerSettings]"
  BY DEF Line, Keys
<1>2. ~IsHeader(b) /\ ~IsHeader(c)
  BY DefaultLines DEF Defaults
<1>3. out = <<a, b, c>> \o rest /\ rest \in Seq(T)
  BY DEF INI
<1> HIDE DEF a, b, c, T
<1>4. /\ out \in Seq(T) /\ Len(out) >= 3
      /\ out[1] = a /\ out[2] = b /\ out[3] = c
  BY <1>1, <1>3
<1>5. 2 \in DOMAIN out /\ 3 \in DOMAIN out
  BY <1>4
<1>6. out[2] \in ServerSettings(out)
  <2>1. 1 \in 1 .. 2 - 1 /\ (\A g \in 1 .. 1 - 1 : FALSE) /\ (\A g \in 1 + 1 .. 2 : g = 2)
    OBVIOUS
  <2>2. \A g \in 1 + 1 .. 2 : ~IsHeader(out[g])
    BY <1>2, <1>4, <2>1
  <2> QED
    BY <1>1, <1>4, <1>5, <2>1, <2>2 DEF ServerSettings
<1>7. out[3] \in ServerSettings(out)
  <2>1. 1 \in 1 .. 3 - 1 /\ (\A g \in 1 .. 1 - 1 : FALSE) /\ (\A g \in 1 + 1 .. 3 : g = 2 \/ g = 3)
    OBVIOUS
  <2>2. \A g \in 1 + 1 .. 3 : ~IsHeader(out[g])
    BY <1>2, <1>4, <2>1
  <2> QED
    BY <1>1, <1>4, <1>5, <2>1, <2>2 DEF ServerSettings
<1>8. b \in ServerSettings(out) /\ c \in ServerSettings(out)
  BY <1>4, <1>6, <1>7
<1>9. out \in INI
  BY <1>4 DEF INI, T
<1>10. Merged(out, lines, port)
  BY <1>8 DEF Merged, b, c
<1> QED
  BY <1>9, <1>10

\* A file with the section gets what it lacks, right after the header: what the section has
\* already may be anywhere between that header and the next.
LEMMA OldSectionMerges ==
  ASSUME NEW port \in Int,
         NEW lines \in INI, NEW h \in 1 .. Len(lines), lines[h].k = "[ServerSettings]",
         \A g \in 1 .. h - 1 : lines[g].k # "[ServerSettings]",
         NEW inject \in INI,
         \A i \in 1 .. Len(inject) : inject[i] \in Defaults(port),
         \A d \in Defaults(port) :
           IF \E j \in h + 1 .. SectionEnd(lines, h) - 1 : lines[j].k = d.k
           THEN \A i \in 1 .. Len(inject) : inject[i].k # d.k
           ELSE \E i \in 1 .. Len(inject) : inject[i] = d,
         NEW out \in INI, Len(out) = Len(lines) + Len(inject),
         \A i \in 1 .. h : out[i] = lines[i],
         \A i \in 1 .. Len(inject) : out[h + i] = inject[i],
         \A i \in h + 1 .. Len(lines) : out[Len(inject) + i] = lines[i]
  PROVE  Merged(out, lines, port)
<1> DEFINE m == Len(inject)
           end == SectionEnd(lines, h)
<1>1. /\ out \in INI /\ Len(out) = Len(lines) + m
      /\ \A i \in 1 .. h : out[i] = lines[i]
      /\ \A i \in 1 .. m : out[h + i] = inject[i]
      /\ \A i \in h + 1 .. Len(lines) : out[m + i] = lines[i]
  OBVIOUS
<1>2. Len(lines) \in Nat /\ m \in Nat /\ DOMAIN out = 1 .. Len(out) /\ h \in Nat /\ h >= 1 /\ h <= Len(lines)
  <2>1. Len(lines) \in Nat /\ m \in Nat /\ DOMAIN out = 1 .. Len(out)
    BY LengthType
  <2> QED
    BY <2>1
<1>3. /\ end \in h + 1 .. Len(lines) + 1 /\ \A g \in h + 1 .. end - 1 : ~IsHeader(lines[g])
      /\ end = Len(lines) + 1 \/ IsHeader(lines[end])
  BY SectionHasNoHeader
<1>in. ServerSettings(lines) = {lines[n] : n \in h + 1 .. end - 1}
  BY <1>3, SettingsBetween
<1>d. /\ \A i \in 1 .. m : inject[i] \in Defaults(port)
      /\ \A d \in Defaults(port) :
           IF \E j \in h + 1 .. end - 1 : lines[j].k = d.k
           THEN \A i \in 1 .. m : inject[i].k # d.k
           ELSE \E i \in 1 .. m : inject[i] = d
  OBVIOUS
<1> HIDE DEF m, end
<1>4. out[h].k = "[ServerSettings]" /\ \A g \in 1 .. h - 1 : out[g].k # "[ServerSettings]"
  <2>1. h \in 1 .. h /\ \A g \in 1 .. h - 1 : g \in 1 .. h
    BY <1>2
  <2> QED
    BY <1>1, <2>1
<1>5. \A i \in 1 .. m : ~IsHeader(out[h + i])
  BY <1>1, <1>d, DefaultLines
<1>6. \A g \in h + 1 .. h + m : g - h \in 1 .. m /\ out[g] = inject[g - h] /\ ~IsHeader(out[g])
  <2> SUFFICES ASSUME NEW g \in h + 1 .. h + m
               PROVE  g - h \in 1 .. m /\ out[g] = inject[g - h] /\ ~IsHeader(out[g])
    OBVIOUS
  <2>1. g - h \in 1 .. m /\ h + (g - h) = g
    BY <1>2
  <2> QED
    BY <1>1, <1>5, <2>1
<1>7. \A g \in h + m + 1 .. end - 1 + m :
        g - m \in h + 1 .. end - 1 /\ out[g] = lines[g - m] /\ ~IsHeader(out[g])
  <2> SUFFICES ASSUME NEW g \in h + m + 1 .. end - 1 + m
               PROVE  g - m \in h + 1 .. end - 1 /\ out[g] = lines[g - m] /\ ~IsHeader(out[g])
    OBVIOUS
  <2>1. g - m \in h + 1 .. end - 1 /\ g - m \in h + 1 .. Len(lines) /\ m + (g - m) = g
    BY <1>2, <1>3
  <2>2. out[m + (g - m)] = lines[g - m] /\ ~IsHeader(lines[g - m])
    BY <1>1, <1>3, <2>1
  <2> QED
    BY <2>1, <2>2
<1>8. \A g \in h + 1 .. (end + m) - 1 : g \in h + 1 .. h + m \/ g \in h + m + 1 .. end - 1 + m
  BY <1>2, <1>3
<1>9. ServerSettings(out) = {out[n] : n \in h + 1 .. (end + m) - 1}
  <2>1. h \in 1 .. Len(out) /\ end + m \in h + 1 .. Len(out) + 1
    BY <1>1, <1>2, <1>3
  <2>2. \A g \in h + 1 .. (end + m) - 1 : ~IsHeader(out[g])
    BY <1>6, <1>7, <1>8
  <2>3. end + m = Len(out) + 1 \/ IsHeader(out[end + m])
    <3>1. CASE end = Len(lines) + 1
      <4>1. end + m = Len(out) + 1
        <5>1. Len(lines) \in Nat /\ m \in Nat /\ Len(out) = Len(lines) + m
          BY <1>1, <1>2
        <5> QED
          BY ONLY <3>1, <5>1
      <4> QED
        BY <4>1
    <3>2. CASE end # Len(lines) + 1
      <4>1. end \in h + 1 .. Len(lines) /\ m + end = end + m
        BY <1>2, <1>3, <3>2
      <4> QED
        BY <1>1, <1>3, <3>2, <4>1
    <3> QED
      BY <3>1, <3>2
  <2> DEFINE e == end + m
  <2>4. e \in h + 1 .. Len(out) + 1 /\ (\A g \in h + 1 .. e - 1 : ~IsHeader(out[g]))
        /\ (e = Len(out) + 1 \/ IsHeader(out[e]))
    BY <2>1, <2>2, <2>3, Zenon
  <2> HIDE DEF e
  <2>5. ServerSettings(out) = {out[n] : n \in h + 1 .. e - 1}
    BY <1>4, <2>1, <2>4, SettingsBetween
  <2> QED
    BY <2>5, Zenon DEF e
<1>10. ASSUME NEW d \in Defaults(port)
       PROVE  LET Of(file) == {l \in ServerSettings(file) : l.k = d.k}
              IN  IF Of(lines) # {} THEN Of(out) = Of(lines) ELSE d \in Of(out)
  <2> DEFINE Of(file) == {l \in ServerSettings(file) : l.k = d.k}
  <2>1. CASE \E j \in h + 1 .. end - 1 : lines[j].k = d.k
    <3>1. Of(lines) # {}
      BY <1>in, <2>1
    <3>2. \A i \in 1 .. m : inject[i].k # d.k
      BY <1>d, <2>1
    <3>3. ASSUME NEW l \in Of(out) PROVE l \in Of(lines)
      <4>1. PICK n \in h + 1 .. (end + m) - 1 : l = out[n] /\ l.k = d.k
        BY <1>9
      <4>2. n \in h + m + 1 .. end - 1 + m
        BY <1>6, <1>8, <3>2, <4>1
      <4> QED
        BY <1>7, <1>in, <4>1, <4>2
    <3>4. ASSUME NEW l \in Of(lines) PROVE l \in Of(out)
      <4>1. PICK n \in h + 1 .. end - 1 : l = lines[n] /\ l.k = d.k
        BY <1>in
      <4>2. m + n \in h + 1 .. (end + m) - 1 /\ n \in h + 1 .. Len(lines)
        BY <1>2, <1>3
      <4>3. out[m + n] = l
        BY <1>1, <4>1, <4>2
      <4> QED
        BY <1>9, <4>1, <4>2, <4>3
    <3>5. Of(out) = Of(lines)
      BY <3>3, <3>4
    <3> QED
      BY <3>1, <3>5
  <2>2. CASE ~ \E j \in h + 1 .. end - 1 : lines[j].k = d.k
    <3>1. Of(lines) = {}
      BY <1>in, <2>2
    <3>2. PICK i \in 1 .. m : inject[i] = d
      BY <1>d, <2>2
    <3>3. h + i \in h + 1 .. (end + m) - 1
      BY <1>2, <1>3
    <3>4. d \in Of(out)
      BY <1>1, <1>9, <3>2, <3>3
    <3> QED
      BY <3>1, <3>4
  <2> QED
    BY <2>1, <2>2
<1> QED
  BY <1>10 DEF Merged, Defaults

\* What is added: of each default either nothing or the line.
Injected(inject, x, y, port) ==
  /\ inject \in INI
  /\ \A i \in 1 .. Len(inject) : inject[i] \in Defaults(port)
  /\ IF x = <<>> THEN \A i \in 1 .. Len(inject) : inject[i].k # "RCONEnabled"
     ELSE \E i \in 1 .. Len(inject) : inject[i] = Line("RCONEnabled", 1)
  /\ IF y = <<>> THEN \A i \in 1 .. Len(inject) : inject[i].k # "RCONPort"
     ELSE \E i \in 1 .. Len(inject) : inject[i] = Line("RCONPort", port)

LEMMA InjectFacts ==
  ASSUME NEW port \in Int, NEW x, NEW y,
         x = <<>> \/ x = <<Line("RCONEnabled", 1)>>, y = <<>> \/ y = <<Line("RCONPort", port)>>
  PROVE  Injected(x \o y, x, y, port)
<1> DEFINE T == [k : Keys, v : Int]
           a == Line("RCONEnabled", 1)
           b == Line("RCONPort", port)
           inject == x \o y
<1>1. a \in T /\ b \in T /\ a.k = "RCONEnabled" /\ b.k = "RCONPort" /\ Defaults(port) = {a, b}
  BY DEF Line, Keys, Defaults
<1>2. (x = <<>> \/ x = <<a>>) /\ (y = <<>> \/ y = <<b>>)
  OBVIOUS
<1> HIDE DEF a, b, T
<1>3. /\ x \in Seq(T) /\ ((x = <<>> /\ Len(x) = 0) \/ (x # <<>> /\ Len(x) = 1 /\ x[1] = a))
      /\ y \in Seq(T) /\ ((y = <<>> /\ Len(y) = 0) \/ (y # <<>> /\ Len(y) = 1 /\ y[1] = b))
  <2>1. CASE x = <<>> /\ y = <<>>
    BY ONLY <2>1
  <2>2. CASE x = <<>> /\ y = <<b>>
    BY ONLY <1>1, <2>2
  <2>3. CASE x = <<a>> /\ y = <<>>
    BY ONLY <1>1, <2>3
  <2>4. CASE x = <<a>> /\ y = <<b>>
    BY ONLY <1>1, <2>4
  <2> QED
    BY ONLY <1>2, <2>1, <2>2, <2>3, <2>4, Zenon
<1>4. /\ inject \in Seq(T) /\ Len(inject) = Len(x) + Len(y)
      /\ \A i \in 1 .. Len(x) : inject[i] = x[i]
      /\ \A i \in 1 .. Len(y) : inject[Len(x) + i] = y[i]
  <2>1. x \in Seq(T) /\ y \in Seq(T)
    BY <1>3
  <2> QED
    BY ONLY <2>1
<1> HIDE DEF inject
<1>5. /\ \A i \in 1 .. Len(inject) : (inject[i] = a /\ x # <<>>) \/ (inject[i] = b /\ y # <<>>)
      /\ x = <<>> \/ \E i \in 1 .. Len(inject) : inject[i] = a
      /\ y = <<>> \/ \E i \in 1 .. Len(inject) : inject[i] = b
  BY ONLY <1>3, <1>4
<1>6. inject \in INI
  BY <1>4 DEF INI, T
<1>7. /\ \A i \in 1 .. Len(inject) : inject[i] \in Defaults(port)
      /\ x = <<>> => \A i \in 1 .. Len(inject) : inject[i].k # "RCONEnabled"
      /\ y = <<>> => \A i \in 1 .. Len(inject) : inject[i].k # "RCONPort"
  BY ONLY <1>1, <1>5
<1> QED
  BY <1>5, <1>6, <1>7, Zenon DEF Injected, inject, a, b

\* ensureGUSDefaults: whatever the file, its own values are kept and what it lacks is added.
LEMMA EnsuredMerges ==
  ASSUME NEW lines \in INI, NEW port \in Int
  PROVE  /\ ensureGUSDefaults(lines, port) \in INI
         /\ Merged(ensureGUSDefaults(lines, port), lines, port)
<1> DEFINE h == SelectInSeq(lines, LAMBDA l : l.k = "[ServerSettings]")
           end == SectionEnd(lines, h)
           section == h + 1 .. end - 1
           Default(line) == IF \E j \in section : lines[j].k = line.k THEN <<>> ELSE <<line>>
           inject == Default(Line("RCONEnabled", 1)) \o Default(Line("RCONPort", port))
           rest == IF lines = <<>> THEN <<>> ELSE <<Line("", 0)>> \o lines
           fresh == <<Line("[ServerSettings]", 0), Line("RCONEnabled", 1), Line("RCONPort", port)>> \o rest
           spliced == SubSeq(lines, 1, h) \o inject \o SubSeq(lines, h + 1, Len(lines))
           out == ensureGUSDefaults(lines, port)
<1>1. out = IF h = 0 THEN fresh ELSE spliced
  BY DEF ensureGUSDefaults
<1>2. \/ h = 0 /\ \A g \in 1 .. Len(lines) : lines[g].k # "[ServerSettings]"
      \/ /\ h \in 1 .. Len(lines) /\ lines[h].k = "[ServerSettings]"
         /\ \A g \in 1 .. h - 1 : lines[g].k # "[ServerSettings]"
  <2>1. \A x : x = h => \/ x = 0 /\ \A g \in 1 .. Len(lines) : lines[g].k # "[ServerSettings]"
                        \/ /\ x \in 1 .. Len(lines) /\ lines[x].k = "[ServerSettings]"
                           /\ \A g \in 1 .. x - 1 : lines[g].k # "[ServerSettings]"
    BY FirstHeader
  <2> QED
    BY <2>1
<1>0. Len(lines) \in Nat
  BY LengthType
<1> HIDE DEF out, h
<1>3. CASE h = 0
  <2>1. rest \in INI
    <3> DEFINE T == [k : Keys, v : Int]
               blank == Line("", 0)
    <3>1. blank \in T
      BY DEF Line, Keys
    <3>2. lines \in Seq(T) /\ INI = Seq(T)
      BY DEF INI
    <3> HIDE DEF T, blank
    <3>3. <<blank>> \in Seq(T) /\ <<>> \in Seq(T)
      BY <3>1
    <3>4. <<blank>> \o lines \in Seq(T)
      BY <3>2, <3>3
    <3> QED
      BY <3>2, <3>3, <3>4 DEF blank
  <2>2. out = fresh
    BY <1>1, <1>3, Zenon
  <2>3. ServerSettings(lines) = {}
    <3>1. \A g \in 1 .. Len(lines) : lines[g].k # "[ServerSettings]"
      BY <1>0, <1>2, <1>3
    <3> QED
      BY <3>1, NoSettings
  <2> HIDE DEF rest
  <2> QED
    BY <2>1, <2>2, <2>3, NewSectionMerges DEF out
<1>4. CASE h # 0
  <2>1. /\ h \in 1 .. Len(lines) /\ lines[h].k = "[ServerSettings]"
        /\ \A g \in 1 .. h - 1 : lines[g].k # "[ServerSettings]"
    BY <1>2, <1>4, Zenon
  <2> HIDE DEF section
  <2>5. /\ inject \in INI
        /\ \A i \in 1 .. Len(inject) : inject[i] \in Defaults(port)
        /\ \A d \in Defaults(port) :
             IF \E j \in section : lines[j].k = d.k
             THEN \A i \in 1 .. Len(inject) : inject[i].k # d.k
             ELSE \E i \in 1 .. Len(inject) : inject[i] = d
    <3> DEFINE x == Default(Line("RCONEnabled", 1))
               y == Default(Line("RCONPort", port))
               Has(k) == \E j \in section : lines[j].k = k
    <3>1. Line("RCONEnabled", 1).k = "RCONEnabled" /\ Line("RCONPort", port).k = "RCONPort"
      BY DEF Line
    <3>2. /\ x = IF Has("RCONEnabled") THEN <<>> ELSE <<Line("RCONEnabled", 1)>>
          /\ y = IF Has("RCONPort") THEN <<>> ELSE <<Line("RCONPort", port)>>
      BY <3>1, Zenon
    <3>3. inject = x \o y
      BY Zenon
    <3>4. \A l : <<l>> # <<>>
      OBVIOUS
    <3> HIDE DEF x, y, Has, inject
    <3>5. /\ x = <<>> \/ x = <<Line("RCONEnabled", 1)>>
          /\ y = <<>> \/ y = <<Line("RCONPort", port)>>
      BY <3>2, Zenon
    <3>6. /\ inject \in INI
          /\ \A i \in 1 .. Len(inject) : inject[i] \in Defaults(port)
          /\ IF x = <<>> THEN \A i \in 1 .. Len(inject) : inject[i].k # "RCONEnabled"
             ELSE \E i \in 1 .. Len(inject) : inject[i] = Line("RCONEnabled", 1)
          /\ IF y = <<>> THEN \A i \in 1 .. Len(inject) : inject[i].k # "RCONPort"
             ELSE \E i \in 1 .. Len(inject) : inject[i] = Line("RCONPort", port)
      <4>1. Injected(x \o y, x, y, port)
        BY <3>5, InjectFacts, Zenon
      <4> QED
        BY ONLY <3>3, <4>1, Zenon DEF Injected
    <3>7. /\ IF Has("RCONEnabled") THEN \A i \in 1 .. Len(inject) : inject[i].k # "RCONEnabled"
             ELSE \E i \in 1 .. Len(inject) : inject[i] = Line("RCONEnabled", 1)
          /\ IF Has("RCONPort") THEN \A i \in 1 .. Len(inject) : inject[i].k # "RCONPort"
             ELSE \E i \in 1 .. Len(inject) : inject[i] = Line("RCONPort", port)
      BY ONLY <3>2, <3>4, <3>6, Zenon
    <3>8. \A d \in Defaults(port) :
            IF Has(d.k) THEN \A i \in 1 .. Len(inject) : inject[i].k # d.k
            ELSE \E i \in 1 .. Len(inject) : inject[i] = d
      BY <3>1, <3>7, Zenon DEF Defaults
    <3> QED
      BY <3>6, <3>8, Zenon DEF Has
  <2> HIDE DEF inject
  <2>7. /\ spliced \in INI /\ Len(spliced) = Len(lines) + Len(inject)
        /\ \A i \in 1 .. h : spliced[i] = lines[i]
        /\ \A i \in 1 .. Len(inject) : spliced[h + i] = inject[i]
        /\ \A i \in h + 1 .. Len(lines) : spliced[Len(inject) + i] = lines[i]
    <3> DEFINE T == [k : Keys, v : Int]
    <3>1. lines \in Seq(T) /\ inject \in Seq(T) /\ INI = Seq(T)
      BY <2>5 DEF INI
    <3> HIDE DEF T, spliced
    <3>2. lines \in Seq(T) /\ inject \in Seq(T) /\ h \in 1 .. Len(lines)
      BY <2>1, <3>1
    <3>3. LET o == SubSeq(lines, 1, h) \o inject \o SubSeq(lines, h + 1, Len(lines))
          IN  /\ o \in Seq(T) /\ Len(o) = Len(lines) + Len(inject)
              /\ \A i \in 1 .. h : o[i] = lines[i]
              /\ \A i \in 1 .. Len(inject) : o[h + i] = inject[i]
              /\ \A i \in h + 1 .. Len(lines) : o[Len(inject) + i] = lines[i]
      BY ONLY <3>2, Spliced, ZenonT(60)
    <3> QED
      BY <3>1, <3>3, Zenon DEF spliced
  <2> HIDE DEF spliced
  <2>8. Merged(spliced, lines, port)
    BY <2>1, <2>5, <2>7, OldSectionMerges DEF section, end
  <2> QED
    BY <1>1, <1>4, <2>7, <2>8 DEF out
<1> QED
  BY <1>3, <1>4

-----------------------------------------------------------------------------
(* What the passes write. *)

LEMMA ContentsAreFiles == \A content \in Contents : content \in INI
<1> SUFFICES ASSUME NEW content \in Contents PROVE content \in INI
  OBVIOUS
<1> DEFINE T == [k : STRING, v : Int]
           U == [k : Keys, v : Int]
<1>1. content \in Seq(T) /\ \A t \in T : t \in U
  BY TemplateAssumption DEF Keys
<1>2. INI = Seq(U)
  BY DEF INI
<1> HIDE DEF T, U
<1> QED
  BY <1>1, <1>2

LEMMA MapIndexType == \A s \in Specs, id \in Ids : findMapIndex(s, id) \in Int
<1> SUFFICES ASSUME NEW s \in Specs, NEW id \in Ids PROVE findMapIndex(s, id) \in Int
  OBVIOUS
<1> DEFINE I == {i \in 1 .. Len(s.maps) : s.maps[i].id = id}
           h == IF I # {} THEN Min(I) ELSE 0
<1>1. findMapIndex(s, id) = IF h = 0 THEN 0 ELSE h - 1
  BY DEF findMapIndex, SelectInSeq
<1>2. I \in SUBSET Nat
  OBVIOUS
<1> HIDE DEF I
<1>3. h \in Nat
  BY <1>2, MinExists
<1> QED
  BY <1>1, <1>3

LEMMA WrittenMerges ==
  ASSUME NEW s \in Specs, NEW id \in Ids, NEW content \in INI
  PROVE  /\ GusFor(s, id, content) \in INI
         /\ Merged(GusFor(s, id, content), resolveINI(s, content), RconPort(s.rcon, findMapIndex(s, id)))
<1>1. resolveINI(s, content) \in INI
  BY DEF resolveINI, INI
<1>2. RconPort(s.rcon, findMapIndex(s, id)) \in Int
  BY MapIndexType, TemplateAssumption DEF RconPort
<1> QED
  BY <1>1, <1>2, EnsuredMerges DEF GusFor

\* The files, and what the reconcile under way works with.
Passing == op = Idle \/ (op \in [pc : {"ensure", "pod"}, spec : Specs, i : Nat] /\ op.i >= 1
                         /\ (op.pc = "pod" => op.i <= Len(op.spec.maps)))
Files == ini \in [Ids -> [lines : INI, rev : Nat, read : Nat]]
GusInv == source \in Contents /\ spec \in Specs /\ faults \in Nat /\ Passing /\ Files

LEMMA MapListed ==
  ASSUME Passing, op # Idle, op.i <= Len(op.spec.maps)
  PROVE  op.spec \in Specs /\ map \in Ids
<1>1. op.spec \in Specs /\ op.i \in 1 .. Len(op.spec.maps)
  <2>1. op.spec \in Specs /\ op.i \in Nat /\ op.i >= 1 /\ op.i <= Len(op.spec.maps)
    BY DEF Passing
  <2>2. Len(op.spec.maps) \in Nat
    BY <2>1, TemplateAssumption
  <2> QED
    BY <2>1, <2>2
<1>2. op.spec.maps[op.i] \in [id : Ids, mods : Seq(Int)]
  <2> DEFINE maps == op.spec.maps
             T == [id : Ids, mods : Seq(Int)]
  <2>1. maps \in Seq(T) /\ op.i \in 1 .. Len(maps)
    BY <1>1, TemplateAssumption
  <2> HIDE DEF maps, T
  <2>2. maps[op.i] \in T
    BY <2>1
  <2> QED
    BY <2>2 DEF maps, T
<1> QED
  BY <1>1, <1>2 DEF map

\* Only the file of the map in hand is written, and only the given lines.
LEMMA WriteFacts ==
  ASSUME Files, map \in Ids, NEW lines \in INI, writeINIConfigMap(lines)
  PROVE  /\ Files'
         /\ \A id \in Ids : ini'[id].rev > ini[id].rev => id = map /\ ini'[id].lines = lines
<1> DEFINE old == ini[map]
           new == IF old.lines = lines THEN old ELSE [lines |-> lines, rev |-> old.rev + 1, read |-> old.read]
<1>1. old \in [lines : INI, rev : Nat, read : Nat]
  BY DEF Files
<1>2. new \in [lines : INI, rev : Nat, read : Nat] /\ new.lines = lines
  BY <1>1
<1>3. ini' = [ini EXCEPT ![map] = new]
  BY DEF writeINIConfigMap
<1> HIDE DEF new
<1>4. \A id \in Ids : ini'[id] = IF id = map THEN new ELSE ini[id]
  BY <1>3 DEF Files
<1>5. Files'
  BY <1>2, <1>3 DEF Files
<1>6. \A id \in Ids : ini[id].rev \in Nat
  BY DEF Files
<1> QED
  BY <1>2, <1>4, <1>5, <1>6

\* The step of GusMerged.
MergedStep ==
  \A id \in Ids : ini'[id].rev > ini[id].rev =>
    Merged(ini'[id].lines, IF faults' > faults THEN <<>> ELSE resolveINI(op.spec, source),
           RconPort(op.spec.rcon, findMapIndex(op.spec, id)))

LEMMA NoWrite ==
  ASSUME Files, \A id \in Ids : ini'[id].rev = ini[id].rev \/ ini'[id].rev = 0
  PROVE  MergedStep
<1>1. \A id \in Ids : ini[id].rev \in Nat
  BY DEF Files
<1> QED
  BY <1>1 DEF MergedStep

LEMMA GusStep ==
  ASSUME GusInv, [Next]_vars
  PROVE  GusInv' /\ MergedStep
<1>1. source \in Contents /\ spec \in Specs /\ faults \in Nat /\ Passing /\ Files
  BY DEF GusInv
<1>2. ASSUME UNCHANGED ini, UNCHANGED op, UNCHANGED faults, spec' \in Specs, source' \in Contents
      PROVE  GusInv' /\ MergedStep
  <2>1. MergedStep
    BY <1>1, <1>2, NoWrite
  <2> QED
    BY <1>1, <1>2, <2>1 DEF GusInv, Passing, Files
<1>3. ASSUME NEW s \in Specs, EditSpec(s)
      PROVE  GusInv' /\ MergedStep
  BY <1>1, <1>2, <1>3 DEF EditSpec, owned
<1>4. ASSUME NEW content \in Contents, EditSource(content)
      PROVE  GusInv' /\ MergedStep
  BY <1>1, <1>2, <1>4 DEF EditSource, owned
<1>5. ASSUME NEW name \in {"own", "user"}, EditSecret(name)
      PROVE  GusInv' /\ MergedStep
  BY <1>1, <1>2, <1>5 DEF EditSecret, owned
<1>6. ASSUME Begin
      PROVE  GusInv' /\ MergedStep
  <2>1. op' = [pc |-> "ensure", spec |-> spec, i |-> 1] /\ UNCHANGED <<spec, source, ini, faults>>
    BY <1>6 DEF Begin, inputs, owned
  <2>2. op' \in [pc : {"ensure", "pod"}, spec : Specs, i : Nat] /\ op'.i = 1 /\ op'.pc = "ensure"
    BY <1>1, <2>1
  <2>3. Passing'
    BY <2>2 DEF Passing
  <2>4. MergedStep
    BY <1>1, <2>1, NoWrite
  <2> QED
    BY <1>1, <2>1, <2>3, <2>4 DEF GusInv, Files
<1>7. ASSUME EnsureMap
      PROVE  GusInv' /\ MergedStep
  <2>1. op # Idle /\ op.pc = "ensure" /\ op.i <= Len(op.spec.maps)
    BY <1>7 DEF EnsureMap, Idle
  <2>2. op.spec \in Specs /\ map \in Ids
    BY <1>1, <2>1, MapListed
  <2>3. source \in INI /\ <<>> \in INI
    <3>1. source \in INI
      BY <1>1, ContentsAreFiles
    <3> QED
      BY <3>1 DEF INI
  <2>4. PICK content \in INI :
          /\ writeINIConfigMap(GusFor(op.spec, map, content))
          /\ \/ content = source /\ faults' = faults
             \/ content = <<>> /\ faults' = faults + 1
    BY <1>7, <2>3 DEF EnsureMap
  <2>5. /\ Files'
        /\ \A id \in Ids : ini'[id].rev > ini[id].rev => id = map /\ ini'[id].lines = GusFor(op.spec, map, content)
    BY <1>1, <2>2, <2>4, WrittenMerges, WriteFacts
  <2>6. op \in [pc : {"ensure", "pod"}, spec : Specs, i : Nat] /\ op.i >= 1
    BY <1>1, <2>1 DEF Passing
  <2>7. op' = [op EXCEPT !.pc = "pod"] /\ UNCHANGED <<spec, source>>
    BY <1>7 DEF EnsureMap, inputs
  <2>8. Passing'
    BY <2>1, <2>6, <2>7 DEF Passing
  <2>9. resolveINI(op.spec, content) = IF faults' > faults THEN <<>> ELSE resolveINI(op.spec, source)
    <3>1. CASE content = source /\ faults' = faults
      BY <1>1, <3>1
    <3>2. CASE content = <<>> /\ faults' = faults + 1
      BY <1>1, <3>2 DEF resolveINI
    <3> QED
      BY <2>4, <3>1, <3>2
  <2>10. Merged(GusFor(op.spec, map, content), resolveINI(op.spec, content),
                RconPort(op.spec.rcon, findMapIndex(op.spec, map)))
    BY <2>2, <2>4, WrittenMerges
  <2>11. MergedStep
    BY <2>5, <2>9, <2>10 DEF MergedStep
  <2>12. faults' \in Nat
    BY <1>1, <2>4
  <2> QED
    BY <1>1, <2>5, <2>7, <2>8, <2>11, <2>12 DEF GusInv
<1>8. ASSUME ReconcilePod
      PROVE  GusInv' /\ MergedStep
  <2>1. op # Idle /\ op.pc = "pod"
    BY <1>8 DEF ReconcilePod, Idle
  <2>2. op \in [pc : {"ensure", "pod"}, spec : Specs, i : Nat] /\ op.i >= 1 /\ op.i <= Len(op.spec.maps)
    BY <1>1, <2>1 DEF Passing
  <2>3. map \in Ids
    BY <1>1, <2>1, <2>2, MapListed
  <2>4. ini[map] \in [lines : INI, rev : Nat, read : Nat]
    BY <1>1, <2>3 DEF Files
  <2>5. PICK rev \in {ini[map].rev, ini[map].read, 0}, secs \in SecretsRead : ReadRevisions(rev, secs)
    BY <1>8 DEF ReconcilePod
  <2>6. /\ UNCHANGED ini \/ ini' = [ini EXCEPT ![map].read = ini[map].rev]
        /\ faults' = faults \/ faults' = faults + 1
    BY <2>5 DEF ReadRevisions
  <2>7. Files' /\ \A id \in Ids : ini'[id].rev = ini[id].rev
    <3>1. CASE UNCHANGED ini
      BY <1>1, <3>1 DEF Files
    <3>2. CASE ini' = [ini EXCEPT ![map].read = ini[map].rev]
      <4> DEFINE new == [ini[map] EXCEPT !.read = ini[map].rev]
      <4>1. new \in [lines : INI, rev : Nat, read : Nat] /\ new.rev = ini[map].rev
        BY <2>4
      <4>2. ini' = [ini EXCEPT ![map] = new]
        BY <3>2
      <4> HIDE DEF new
      <4>3. \A id \in Ids : ini'[id] = IF id = map THEN new ELSE ini[id]
        BY <1>1, <4>2 DEF Files
      <4> QED
        BY <1>1, <4>1, <4>2, <4>3 DEF Files
    <3> QED
      BY <2>6, <3>1, <3>2
  <2>8. MergedStep
    BY <1>1, <2>7, NoWrite
  <2>11. op' = [op EXCEPT !.pc = "ensure", !.i = @ + 1] /\ UNCHANGED <<spec, source>>
    BY <1>8 DEF ReconcilePod, inputs
  <2>12. op' \in [pc : {"ensure", "pod"}, spec : Specs, i : Nat] /\ op'.i >= 1 /\ op'.pc = "ensure"
    <3>1. op' = [pc |-> "ensure", spec |-> op.spec, i |-> op.i + 1]
      BY <2>2, <2>11
    <3>2. op.i + 1 \in Nat /\ op.i + 1 >= 1 /\ op.spec \in Specs
      BY <2>2
    <3> QED
      BY <3>1, <3>2
  <2>13. Passing'
    BY <2>12 DEF Passing
  <2>14. faults' \in Nat
    BY <1>1, <2>6
  <2> QED
    BY <1>1, <2>7, <2>8, <2>11, <2>13, <2>14 DEF GusInv
<1>9. ASSUME Finish
      PROVE  GusInv' /\ MergedStep
  <2>1. /\ ini' = [id \in Ids |-> IF id \in ListedIn(op.spec) THEN ini[id] ELSE NoINI]
        /\ op' = Idle /\ UNCHANGED <<spec, source, faults>>
    BY <1>9 DEF Finish, inputs
  <2>2. NoINI \in [lines : INI, rev : Nat, read : Nat] /\ NoINI.rev = 0
    BY DEF NoINI, INI
  <2>3. Files'
    BY <1>1, <2>1, <2>2 DEF Files
  <2>4. \A id \in Ids : ini'[id].rev = ini[id].rev \/ ini'[id].rev = 0
    BY <2>1, <2>2
  <2>5. Passing'
    BY <2>1 DEF Passing
  <2>6. MergedStep
    BY <1>1, <2>4, NoWrite
  <2> QED
    BY <1>1, <2>1, <2>3, <2>5, <2>6 DEF GusInv
<1>10. ASSUME UNCHANGED vars
       PROVE  GusInv' /\ MergedStep
  BY <1>1, <1>2, <1>10 DEF vars
<1> QED
  BY <1>3, <1>4, <1>5, <1>6, <1>7, <1>8, <1>9, <1>10 DEF Next, Pass

\* Whatever the user writes into the ConfigMap, in whatever order edits, failed reads and passes
\* come: every GameUserSettings.ini that ensureGUSDefaults writes for a map has, in the section
\* where the server looks, the user's own lines for RCONEnabled and RCONPort and no others, or,
\* where the user has none, the operator's (RCON on, at the map's port).
THEOREM RconIsMerged == Spec => GusMerged
<1>1. Init => GusInv
  <2> SUFFICES ASSUME Init PROVE GusInv
    OBVIOUS
  <2>1. NoINI \in [lines : INI, rev : Nat, read : Nat]
    BY DEF NoINI, INI
  <2>2. /\ ini = [id \in Ids |-> NoINI] /\ op = Idle /\ source \in Contents /\ spec \in Specs
        /\ faults = 0
    BY TemplateAssumption DEF Init
  <2> QED
    BY <2>1, <2>2 DEF GusInv, Passing, Files
<1>2. GusInv /\ [Next]_vars => GusInv'
  BY GusStep
<1>3. GusInv /\ [Next]_vars => MergedStep
  BY GusStep
<1>4. MergedStep => [\A id \in Ids : ini'[id].rev > ini[id].rev =>
         Merged(ini'[id].lines, IF faults' > faults THEN <<>> ELSE resolveINI(op.spec, source),
                RconPort(op.spec.rcon, findMapIndex(op.spec, id)))]_vars
  BY DEF MergedStep
<1> QED
  BY <1>1, <1>2, <1>3, <1>4, PTL DEF Spec, GusMerged
=============================================================================

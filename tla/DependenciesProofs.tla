------------------------ MODULE DependenciesProofs -------------------------
(***************************************************************************)
(* Whatever go.mod the go command accepts, parseGoMod reads what its       *)
(* directives say: every requirement, under the coordinate of the code     *)
(* that ships for it.                                                      *)
(*                                                                         *)
(* The lines are read one by one, so the proof follows them: what is read  *)
(* up to a line agrees with the entries up to that line.                   *)
(***************************************************************************)
EXTENDS Dependencies, SourcesProofs

-----------------------------------------------------------------------------
\* parseGoMod, one line at a time.

Read(block, required, replacements) ==
  [block |-> block, required |-> required, replacements |-> replacements]

NothingRead == Read(Unset, << >>, << >>)

LineOf(f, lines, n) == IF n = 0 THEN NothingRead ELSE ReadLine(f[n - 1], lines[n])

LinesRead(f, lines, n) == f = [k \in 0..n |-> LineOf(f, lines, k)]

LEMMA LinesReadExist ==
  ASSUME NEW lines, NEW n \in Nat PROVE \E f : LinesRead(f, lines, n)
<1> DEFINE reached == {m \in Nat : \E f : LinesRead(f, lines, m)}
<1>1. 0 \in reached
  <2> DEFINE f == [k \in 0..0 |-> NothingRead]
  <2>1. LinesRead(f, lines, 0)
    BY DEF LinesRead, LineOf
  <2> QED
    BY <2>1
<1>2. ASSUME NEW m \in 0..(n - 1), m \in reached PROVE m + 1 \in reached
  <2>1. PICK f : LinesRead(f, lines, m)
    BY <1>2
  <2> DEFINE g == [k \in 0..(m + 1) |-> IF k <= m THEN f[k] ELSE LineOf(f, lines, k)]
  <2>2. \A k \in 0..m : g[k] = f[k] /\ f[k] = LineOf(f, lines, k)
    BY <2>1 DEF LinesRead
  <2>3. \A k \in 0..(m + 1) : g[k] = LineOf(f, lines, k)
    <3>1. \A k \in 0..(m + 1) : g[k] = IF k <= m THEN f[k] ELSE LineOf(f, lines, k)
      BY Zenon
    <3>2. \A k \in 0..(m + 1) : k <= m => k \in 0..m
      OBVIOUS
    <3> HIDE DEF g
    <3> QED
      BY <2>2, <3>1, <3>2
  <2>4. \A k \in 0..(m + 1) : LineOf(g, lines, k) = LineOf(f, lines, k)
    BY <2>2 DEF LineOf
  <2>5. g = [k \in 0..(m + 1) |-> g[k]]
    OBVIOUS
  <2> HIDE DEF g
  <2>6. LinesRead(g, lines, m + 1)
    BY <2>3, <2>4, <2>5 DEF LinesRead
  <2> QED
    BY <2>6
<1> HIDE DEF reached
<1>3. 0..n \subseteq reached
  BY <1>1, <1>2, UpTo
<1> QED
  BY <1>3 DEF reached

LEMMA ParsedByLine ==
  ASSUME NEW lines, Len(lines) \in Nat
  PROVE  \E f : LinesRead(f, lines, Len(lines)) /\ parseGoMod(lines) = f[Len(lines)]
<1> DEFINE f == CHOOSE f : LinesRead(f, lines, Len(lines))
<1>1. LinesRead(f, lines, Len(lines))
  BY LinesReadExist
<1>2. parseGoMod(lines) = f[Len(lines)]
  BY DEF parseGoMod, LinesRead, LineOf, NothingRead, Read
<1> QED
  BY <1>1, <1>2

LEMMA ParsedNothing == parseGoMod(<< >>) = NothingRead
<1>1. Len(<< >>) = 0
  OBVIOUS
<1>2. PICK f : LinesRead(f, << >>, 0) /\ parseGoMod(<< >>) = f[0]
  BY <1>1, ParsedByLine
<1> QED
  BY <1>2 DEF LinesRead, LineOf

LEMMA ParsedOneMore ==
  ASSUME NEW A, NEW lines \in Seq(A), NEW line \in A
  PROVE  parseGoMod(Append(lines, line)) = ReadLine(parseGoMod(lines), line)
<1> DEFINE more == Append(lines, line)
           n == Len(lines)
<1>1. n \in Nat /\ Len(more) = n + 1 /\ more[n + 1] = line /\ \A k \in 1..n : more[k] = lines[k]
  OBVIOUS
<1>2. PICK f : LinesRead(f, lines, n) /\ parseGoMod(lines) = f[n]
  BY <1>1, ParsedByLine
<1> HIDE DEF more
<1>3. PICK g : LinesRead(g, more, n + 1) /\ parseGoMod(more) = g[n + 1]
  BY <1>1, ParsedByLine
<1> DEFINE same == {k \in Nat : g[k] = f[k]}
<1> HIDE DEF n
<1>4. \A k \in 0..n : f[k] = LineOf(f, lines, k)
  BY <1>2 DEF LinesRead
<1>5. \A k \in 0..(n + 1) : g[k] = LineOf(g, more, k)
  BY <1>3 DEF LinesRead
<1>6. 0 \in same
  BY <1>1, <1>4, <1>5 DEF LineOf
<1>7. ASSUME NEW k \in 0..(n - 1), k \in same PROVE k + 1 \in same
  BY <1>1, <1>4, <1>5, <1>7 DEF LineOf
<1> HIDE DEF same
<1>8. 0..n \subseteq same
  BY <1>1, <1>6, <1>7, UpTo
<1>9. g[n] = f[n]
  BY <1>1, <1>8 DEF same
<1>10. g[n + 1] = ReadLine(g[n], line)
  BY <1>1, <1>5 DEF LineOf
<1> QED
  BY <1>2, <1>3, <1>9, <1>10 DEF more
-----------------------------------------------------------------------------
\* One line.

Verbs == {"require", "replace"}

IsRead(mod) == mod = Read(mod.block, mod.required, mod.replacements)

LEMMA LiteralsApart ==
  /\ Unset \notin Verbs /\ Closing \notin Verbs /\ Opening \notin Verbs
  /\ Arrow \notin Verbs /\ "require" # "replace"
  BY Zenon DEF Unset, Closing, Opening, Arrow, Verbs

LEMMA OpeningLine ==
  ASSUME NEW mod, IsRead(mod), mod.block = Unset, NEW verb \in Verbs
  PROVE  ReadLine(mod, <<verb, Opening>>) = Read(verb, mod.required, mod.replacements)
<1> DEFINE line == <<verb, Opening>>
<1>1. line # << >> /\ Head(line) = verb /\ Tail(line) = <<Opening>>
  OBVIOUS
<1> HIDE DEF line
<1>2. [mod EXCEPT !.block = verb] = Read(verb, mod.required, mod.replacements)
  BY DEF IsRead, Read
<1>3. ReadLine(mod, line) = [mod EXCEPT !.block = verb]
  BY <1>1, LiteralsApart DEF ReadLine, Verbs
<1> QED
  BY <1>2, <1>3 DEF line

LEMMA ClosingLine ==
  ASSUME NEW mod, IsRead(mod)
  PROVE  ReadLine(mod, <<Closing>>) = Read(Unset, mod.required, mod.replacements)
<1> DEFINE line == <<Closing>>
<1>1. line # << >> /\ Head(line) = Closing
  OBVIOUS
<1> HIDE DEF line
<1>2. [mod EXCEPT !.block = Unset] = Read(Unset, mod.required, mod.replacements)
  BY DEF IsRead, Read
<1>3. CASE mod.block # Unset
  <2>1. ReadLine(mod, line) = [mod EXCEPT !.block = Unset]
    BY <1>1, <1>3 DEF ReadLine
  <2> QED
    BY <1>2, <2>1 DEF line
<1>4. CASE mod.block = Unset
  <2>1. ReadLine(mod, line) = mod
    BY <1>1, <1>4, LiteralsApart DEF ReadLine, Verbs
  <2> QED
    BY <1>4, <2>1 DEF line, IsRead
<1> QED
  BY <1>3, <1>4

\* An entry of a block that is read, of one that is not, and one on a line of its own.
LEMMA BlockLine ==
  ASSUME NEW mod, NEW verb \in Verbs, mod.block = verb, NEW entry \in Seq(STRING),
         entry = << >> \/ IsWord(entry[1])
  PROVE  ReadLine(mod, entry) = IF entry = << >> THEN mod ELSE Directive(mod, verb, entry)
<1>1. CASE entry = << >>
  BY <1>1 DEF ReadLine
<1>2. CASE entry # << >>
  <2>1. Head(entry) = entry[1] /\ Head(entry) # Closing
    BY <1>2 DEF IsWord
  <2> QED
    BY <1>2, <2>1, LiteralsApart DEF ReadLine
<1> QED
  BY <1>1, <1>2

LEMMA OtherLine ==
  ASSUME NEW mod, mod.block = Unset, NEW A, NEW line \in Seq(A),
         line = << >> \/ line[1] \notin Verbs
  PROVE  ReadLine(mod, line) = mod
<1>1. line # << >> => Head(line) = line[1]
  OBVIOUS
<1> QED
  BY <1>1 DEF ReadLine, Verbs

LEMMA OwnLine ==
  ASSUME NEW mod, mod.block = Unset, NEW verb \in Verbs, verb \in STRING,
         NEW entry \in Seq(STRING), entry # <<Opening>>
  PROVE  ReadLine(mod, <<verb>> \o entry) = Directive(mod, verb, entry)
<1> DEFINE line == <<verb>> \o entry
<1>1. line # << >> /\ Head(line) = verb /\ Tail(line) = entry
  OBVIOUS
<1> HIDE DEF line
<1>2. ReadLine(mod, line) = Directive(mod, verb, entry)
  BY <1>1, LiteralsApart DEF ReadLine, Verbs
<1> QED
  BY <1>2 DEF line

-----------------------------------------------------------------------------
\* One directive: what a replacement is of, and by what.

Left(entry) == IF entry[2] = Arrow THEN <<entry[1]>> ELSE <<entry[1], entry[2]>>
Right(entry) ==
  IF entry[2] = Arrow THEN SubSeq(entry, 3, Len(entry)) ELSE SubSeq(entry, 4, Len(entry))

To(words) ==
  IF Len(words) = 1 THEN [dir |-> words[1], path |-> Unset, version |-> Unset]
  ELSE [dir |-> Unset, path |-> words[1], version |-> words[2]]

LEMMA ReplaceIsRead ==
  ASSUME NEW entry \in Seq(STRING), IsReplace(entry)
  PROVE  parseReplace(entry) = {[from |-> Spelled(Left(entry)), to |-> To(Right(entry))]}
<1>1. PICK k \in {2, 3} : ArrowAt(entry, k)
  BY DEF IsReplace
<1> DEFINE arrows == {l \in DOMAIN entry : entry[l] = Arrow}
           arrow == CHOOSE l \in arrows : \A m \in arrows : l <= m
           right == SubSeq(entry, arrow + 1, Len(entry))
<1>2. arrows = {k}
  BY <1>1 DEF ArrowAt, IsWord
<1>3. arrow = k
  <2> HIDE DEF arrows
  <2> QED
    BY <1>1, <1>2
<1> HIDE DEF arrow
<1>4. Len(entry) \in {k + 1, k + 2} /\ entry[k] = Arrow
  BY <1>1 DEF ArrowAt
<1>5. k = 3 => entry[2] # Arrow
  BY <1>1 DEF ArrowAt, IsWord
<1>6. Spelled(Left(entry)) = IF arrow > 2 THEN At(entry[1], entry[2]) ELSE entry[1]
  <2>1. CASE k = 2
    <3>1. Left(entry) = <<entry[1]>>
      BY <1>4, <2>1 DEF Left
    <3> QED
      BY <1>3, <2>1, <3>1 DEF Spelled
  <2>2. CASE k = 3
    <3>1. Left(entry) = <<entry[1], entry[2]>>
      BY <1>5, <2>2 DEF Left
    <3> QED
      BY <1>3, <2>2, <3>1 DEF Spelled
  <2> QED
    BY <2>1, <2>2
<1>7. Right(entry) = right
  BY <1>3, <1>4, <1>5 DEF Right
<1>8. arrows # {} /\ arrow \notin {1, Len(entry)}
  BY <1>2, <1>3, <1>4
<1> QED
  BY <1>6, <1>7, <1>8, Zenon DEF parseReplace, To, arrow

LEMMA NothingReplaced == parseReplace(<< >>) = {}
  BY DEF parseReplace
-----------------------------------------------------------------------------
\* What has been read agrees with what the entries so far say.

Entry == Seq(STRING) \ {<< >>}

RequiredSay(required, requires) ==
  /\ required \in Seq([path : STRING, version : STRING])
  /\ Len(required) = Len(requires)
  /\ \A k \in 1..Len(requires) : required[k] = Requirement(requires[k][1], requires[k][2])

\* The string parseReplace files an entry under.
Key(entry) == Spelled(Left(entry))

ReplacedSay(replacements, replaces) ==
  /\ DOMAIN replacements = {Key(replaces[k]) : k \in 1..Len(replaces)}
  /\ \A k \in 1..Len(replaces) :
       (\A l \in 1..Len(replaces) : l > k => Key(replaces[l]) # Key(replaces[k])) =>
         replacements[Key(replaces[k])] = To(Right(replaces[k]))

Says(mod, requires, replaces) ==
  /\ IsRead(mod)
  /\ RequiredSay(mod.required, Only(requires, Entry))
  /\ ReplacedSay(mod.replacements, Only(replaces, Entry))

LEMMA PairHolds ==
  ASSUME NEW S, NEW pair \in Seq(S), Len(pair) = 2
  PROVE  pair # << >> /\ pair[1] \in S /\ pair[2] \in S
  OBVIOUS

LEMMA OneMoreRequired ==
  ASSUME NEW requires \in Seq(Seq(STRING)), NEW required, RequiredSay(required, requires),
         NEW entry \in Seq(STRING), IsRequire(entry)
  PROVE  RequiredSay(Append(required, Requirement(entry[1], entry[2])), Append(requires, entry))
<1>1. entry[1] \in STRING /\ entry[2] \in STRING
  <2>1. Len(entry) = 2
    BY Zenon DEF IsRequire
  <2> QED
    BY <2>1, PairHolds
<1> DEFINE r == Requirement(entry[1], entry[2])
<1>2. r \in [path : STRING, version : STRING]
  BY <1>1 DEF Requirement
<1> HIDE DEF r
<1>3. RequiredSay(Append(required, r), Append(requires, entry))
  <2>1. Append(required, r) \in Seq([path : STRING, version : STRING])
    BY <1>2 DEF RequiredSay
  <2>2. Len(Append(required, r)) = Len(Append(requires, entry))
    BY <1>2 DEF RequiredSay
  <2>3. ASSUME NEW k \in 1..Len(Append(requires, entry))
        PROVE  Append(required, r)[k] = Requirement(Append(requires, entry)[k][1],
                                                    Append(requires, entry)[k][2])
    BY <1>2 DEF RequiredSay, r
  <2> QED
    BY <2>1, <2>2, <2>3 DEF RequiredSay
<1> QED
  BY <1>3 DEF r

LEMMA OneMoreReplaced ==
  ASSUME NEW replaces \in Seq(Seq(STRING)), NEW replacements,
         ReplacedSay(replacements, replaces), NEW entry \in Seq(STRING), NEW r,
         r.from = Key(entry), r.to = To(Right(entry))
  PROVE  ReplacedSay(Put(replacements, r), Append(replaces, entry))
<1> DEFINE more == Append(replaces, entry)
           put == Put(replacements, r)
           n == Len(replaces)
<1>1. /\ n \in Nat /\ Len(more) = n + 1 /\ more[n + 1] = entry
      /\ \A k \in 1..n : more[k] = replaces[k]
  OBVIOUS
<1>2. DOMAIN put = DOMAIN replacements \cup {Key(entry)}
  BY DEF Put
<1>3. put[Key(entry)] = To(Right(entry))
  BY DEF Put
<1>4. \A from \in DOMAIN replacements : from # Key(entry) => put[from] = replacements[from]
  BY DEF Put
<1>5. /\ DOMAIN replacements = {Key(replaces[k]) : k \in 1..n}
      /\ \A k \in 1..n :
           (\A l \in 1..n : l > k => Key(replaces[l]) # Key(replaces[k])) =>
             replacements[Key(replaces[k])] = To(Right(replaces[k]))
  BY DEF ReplacedSay
<1> HIDE DEF more, put, n
<1>6. DOMAIN put = {Key(more[k]) : k \in 1..(n + 1)}
  <2>1. \A k \in 1..(n + 1) : k \in 1..n \/ k = n + 1
    BY <1>1
  <2>2. n + 1 \in 1..(n + 1) /\ \A k \in 1..n : k \in 1..(n + 1)
    BY <1>1
  <2>3. {Key(more[k]) : k \in 1..(n + 1)} = {Key(replaces[k]) : k \in 1..n} \cup {Key(entry)}
    BY <1>1, <2>1, <2>2
  <2> QED
    BY <1>2, <1>5, <2>3
<1>7. ASSUME NEW k \in 1..(n + 1),
             \A l \in 1..(n + 1) : l > k => Key(more[l]) # Key(more[k])
      PROVE  put[Key(more[k])] = To(Right(more[k]))
  <2>1. CASE k = n + 1
    BY <1>1, <1>3, <2>1
  <2>2. CASE k # n + 1
    <3>1. k \in 1..n /\ n + 1 > k /\ n + 1 \in 1..(n + 1) /\ \A l \in 1..n : l \in 1..(n + 1)
      BY <1>1, <2>2
    <3>2. Key(entry) # Key(replaces[k])
      BY <1>1, <1>7, <3>1
    <3>3. \A l \in 1..n : l > k => Key(replaces[l]) # Key(replaces[k])
      BY <1>1, <1>7, <3>1
    <3>4. Key(replaces[k]) \in DOMAIN replacements
      BY <1>5, <3>1
    <3> QED
      BY <1>1, <1>4, <1>5, <3>1, <3>2, <3>3, <3>4
  <2> QED
    BY <2>1, <2>2
<1> QED
  BY <1>1, <1>6, <1>7 DEF ReplacedSay, more, put

\* The entries of one verb, with the next one if it has that verb.
Taken(list, verb, wanted, entry) == IF verb = wanted THEN Append(list, entry) ELSE list

\* Whatever it says, the directive of an entry is read as it says.
LEMMA EntryIsRead ==
  ASSUME NEW mod, NEW requires \in Seq(Seq(STRING)), NEW replaces \in Seq(Seq(STRING)),
         Says(mod, requires, replaces), NEW verb \in Verbs, NEW entry \in Seq(STRING),
         \/ entry = << >>
         \/ verb = "require" /\ IsRequire(entry)
         \/ verb = "replace" /\ IsReplace(entry)
  PROVE  /\ Says(Directive(mod, verb, entry), Taken(requires, verb, "require", entry),
                 Taken(replaces, verb, "replace", entry))
         /\ Directive(mod, verb, entry).block = mod.block
<1> DEFINE directive == Directive(mod, verb, entry)
<1>1. CASE entry = << >>
  <2>1. Len(entry) = 0
    BY <1>1
  <2>2. directive = mod
    BY <1>1, <2>1, NothingReplaced, LiteralsApart DEF Directive, Verbs
  <2>3. entry \notin Entry
    BY <1>1 DEF Entry
  <2>4. Only(Append(requires, entry), Entry) = Only(requires, Entry)
    BY <2>3, OnlyOfOneMore
  <2>5. Only(Append(replaces, entry), Entry) = Only(replaces, Entry)
    BY <2>3, OnlyOfOneMore
  <2> QED
    BY <2>2, <2>4, <2>5 DEF Says, Taken
<1>2. CASE verb = "require" /\ IsRequire(entry)
  <2>1. entry \in Entry /\ ~(Len(entry) < 2)
    <3>1. Len(entry) = 2
      BY <1>2, Zenon DEF IsRequire
    <3>2. entry # << >>
      BY <3>1, PairHolds
    <3>3. ~(Len(entry) < 2)
      BY <3>1
    <3> QED
      BY <3>2, <3>3 DEF Entry
  <2>2. directive = [mod EXCEPT !.required = Append(@, Requirement(entry[1], entry[2]))]
    BY <1>2, <2>1 DEF Directive
  <2>3. directive = Read(mod.block, Append(mod.required, Requirement(entry[1], entry[2])),
                         mod.replacements)
    BY <2>2 DEF Says, IsRead, Read
  <2>4. Only(Append(requires, entry), Entry) = Append(Only(requires, Entry), entry)
    BY <2>1, OnlyOfOneMore
  <2>5. Only(requires, Entry) \in Seq(Seq(STRING))
    BY OnlyKeeps
  <2>6. RequiredSay(Append(mod.required, Requirement(entry[1], entry[2])),
                    Append(Only(requires, Entry), entry))
    BY <1>2, <2>5, OneMoreRequired DEF Says
  <2> HIDE DEF directive
  <2>7. Taken(replaces, verb, "replace", entry) = replaces
        /\ Taken(requires, verb, "require", entry) = Append(requires, entry)
    BY <1>2, LiteralsApart DEF Taken
  <2>8. /\ directive.block = mod.block
        /\ directive.required = Append(mod.required, Requirement(entry[1], entry[2]))
        /\ directive.replacements = mod.replacements
        /\ IsRead(directive)
    BY <2>3 DEF Read, IsRead
  <2>9. Says(directive, Append(requires, entry), replaces)
    BY <2>4, <2>6, <2>8 DEF Says
  <2> QED
    BY <2>7, <2>8, <2>9 DEF directive
<1>3. CASE verb = "replace" /\ IsReplace(entry)
  <2> DEFINE read1 == [from |-> Key(entry), to |-> To(Right(entry))]
  <2>1. parseReplace(entry) = {read1}
    BY <1>3, ReplaceIsRead DEF Key
  <2>2. entry \in Entry
    BY <1>3 DEF Entry, IsReplace, ArrowAt
  <2>3. read1.from = Key(entry) /\ read1.to = To(Right(entry))
    OBVIOUS
  <2> HIDE DEF read1
  <2>4. directive = [mod EXCEPT !.replacements = Put(@, read1)]
    <3>1. (CHOOSE x \in {read1} : TRUE) = read1 /\ {read1} # {}
      OBVIOUS
    <3> QED
      BY <1>3, <2>1, <3>1, LiteralsApart DEF Directive
  <2>5. directive = Read(mod.block, mod.required, Put(mod.replacements, read1))
    BY <2>4 DEF Says, IsRead, Read
  <2>6. Only(Append(replaces, entry), Entry) = Append(Only(replaces, Entry), entry)
    BY <2>2, OnlyOfOneMore
  <2>7. Only(replaces, Entry) \in Seq(Seq(STRING))
    BY OnlyKeeps
  <2>8. ReplacedSay(Put(mod.replacements, read1), Append(Only(replaces, Entry), entry))
    BY <2>3, <2>7, OneMoreReplaced DEF Says
  <2> HIDE DEF directive
  <2>9. Taken(requires, verb, "require", entry) = requires
        /\ Taken(replaces, verb, "replace", entry) = Append(replaces, entry)
    BY <1>3, LiteralsApart DEF Taken
  <2>10. /\ directive.block = mod.block
         /\ directive.required = mod.required
         /\ directive.replacements = Put(mod.replacements, read1)
         /\ IsRead(directive)
    BY <2>5 DEF Read, IsRead
  <2>11. Says(directive, requires, Append(replaces, entry))
    BY <2>6, <2>8, <2>10 DEF Says
  <2> QED
    BY <2>9, <2>10, <2>11 DEF directive
<1> QED
  BY <1>1, <1>2, <1>3
-----------------------------------------------------------------------------
\* One directive, with its lines.

Word == STRING \cup {Opening, Closing}

LinesOf(d) ==
  IF d.block THEN <<<<d.verb, Opening>>>> \o d.entries \o <<<<Closing>>>>
  ELSE <<<<d.verb>> \o d.entries[1]>>

EntriesIn(d, verb) == IF d.verb = verb THEN d.entries ELSE << >>

\* What these lines come to, and the block that is open behind them.
After(lines, requires, replaces, block) ==
  Says(parseGoMod(lines), requires, replaces) /\ parseGoMod(lines).block = block

LEMMA FrameByPart ==
  ASSUME NEW A, NEW s \in Seq(A), NEW first \in A, NEW middle \in Seq(A), NEW last \in A
  PROVE  s \o (<<first>> \o middle \o <<last>>) = Append(Append(s, first) \o middle, last)
  OBVIOUS

LEMMA OneMoreByPart ==
  ASSUME NEW A, NEW s \in Seq(A), NEW x \in A
  PROVE  s \o <<x>> = Append(s, x) /\ s \o << >> = s /\ Append(s, x) \in Seq(A)
  OBVIOUS

LEMMA EntriesAreLines == Seq(Seq(STRING)) \subseteq Seq(Seq(Word)) /\ Seq(STRING) \subseteq Seq(Word)
<1>1. Seq(STRING) \subseteq Seq(Word)
  <2> DEFINE strings == STRING
             words == Word
  <2>1. strings \subseteq words
    BY Zenon DEF Word
  <2> HIDE DEF strings, words
  <2>2. Seq(strings) \subseteq Seq(words)
    BY <2>1
  <2> QED
    BY <2>2 DEF strings, words
<1> DEFINE entry == Seq(STRING)
           line == Seq(Word)
<1>2. entry \subseteq line
  BY <1>1
<1> HIDE DEF entry, line
<1>3. Seq(entry) \subseteq Seq(line)
  BY <1>2
<1> QED
  BY <1>1, <1>3 DEF entry, line

\* What an entry of a directive may be.
LEMMA EntryOfDirective ==
  ASSUME NEW d \in Directives, IsDirective(d), NEW i \in DOMAIN d.entries
  PROVE  LET entry == d.entries[i]
         IN /\ entry \in Seq(STRING)
            /\ d.verb \in Verbs =>
                 /\ \/ entry = << >>
                    \/ d.verb = "require" /\ IsRequire(entry)
                    \/ d.verb = "replace" /\ IsReplace(entry)
                 /\ entry = << >> \/ IsWord(entry[1])
                 /\ entry # <<Opening>>
            /\ d.block /\ d.verb \notin Verbs => entry = << >> \/ entry[1] \notin Verbs
<1> DEFINE entry == d.entries[i]
<1>1. entry \in Seq(STRING)
  BY DEF Directives
<1>2. IsEntry(d, entry)
  BY DEF IsDirective
<1> HIDE DEF entry
<1>3. IsRequire(entry) => IsWord(entry[1]) /\ entry # <<Opening>>
  <2> SUFFICES ASSUME IsRequire(entry) PROVE IsWord(entry[1]) /\ entry # <<Opening>>
    OBVIOUS
  <2>1. Len(entry) = 2 /\ \A j \in DOMAIN entry : IsWord(entry[j])
    BY Zenon DEF IsRequire
  <2>2. 1 \in DOMAIN entry /\ Len(entry) # 1
    BY <1>1, <2>1
  <2> QED
    BY <2>1, <2>2
<1>4. IsReplace(entry) => IsWord(entry[1]) /\ entry # <<Opening>>
  <2> SUFFICES ASSUME IsReplace(entry) PROVE IsWord(entry[1]) /\ entry # <<Opening>>
    OBVIOUS
  <2>1. PICK k \in {2, 3} : ArrowAt(entry, k)
    BY DEF IsReplace
  <2>2. Len(entry) \in {k + 1, k + 2} /\ \A j \in DOMAIN entry \ {k} : IsWord(entry[j])
    BY <2>1 DEF ArrowAt
  <2>3. 1 \in DOMAIN entry \ {k} /\ Len(entry) # 1
    BY <1>1, <2>2
  <2> QED
    BY <2>2, <2>3
<1>5. << >> # <<Opening>>
  OBVIOUS
<1>6. d.verb \in Verbs =>
        \/ entry = << >>
        \/ d.verb = "require" /\ IsRequire(entry)
        \/ d.verb = "replace" /\ IsReplace(entry)
  BY <1>2 DEF IsEntry, Verbs
<1>7. d.block /\ d.verb \notin Verbs => entry = << >> \/ entry[1] \notin Verbs
  BY <1>2 DEF IsEntry, Verbs
<1> QED
  BY <1>1, <1>3, <1>4, <1>5, <1>6, <1>7 DEF entry

LEMMA OwnLineIsRead ==
  ASSUME NEW lines \in Seq(Seq(Word)), NEW requires \in Seq(Seq(STRING)),
         NEW replaces \in Seq(Seq(STRING)), After(lines, requires, replaces, Unset),
         NEW d \in Directives, IsDirective(d), ~d.block
  PROVE  After(lines \o LinesOf(d), requires \o EntriesIn(d, "require"),
               replaces \o EntriesIn(d, "replace"), Unset)
<1> DEFINE entry == d.entries[1]
           verb == d.verb
           line == <<verb>> \o entry
<1>1. verb \in STRING /\ d.entries \in Seq(Seq(STRING)) /\ Len(d.entries) = 1
  BY DEF Directives, IsDirective
<1>2. 1 \in DOMAIN d.entries /\ d.entries = <<entry>> /\ entry \in Seq(STRING)
  BY <1>1
<1>3. verb \in Word /\ entry \in Seq(Word)
  <2>1. verb \in Word
    BY <1>1, Zenon DEF Word
  <2> QED
    BY <1>2, <2>1, EntriesAreLines
<1>4. verb \in Verbs =>
        /\ \/ entry = << >>
           \/ verb = "require" /\ IsRequire(entry)
           \/ verb = "replace" /\ IsReplace(entry)
        /\ entry # <<Opening>>
  BY <1>2, EntryOfDirective
<1>5. LinesOf(d) = <<line>>
  BY DEF LinesOf
<1>6. /\ requires \o EntriesIn(d, "require") = Taken(requires, verb, "require", entry)
      /\ replaces \o EntriesIn(d, "replace") = Taken(replaces, verb, "replace", entry)
  <2> HIDE DEF entry
  <2>1. /\ requires \o <<entry>> = Append(requires, entry)
        /\ replaces \o <<entry>> = Append(replaces, entry)
    BY <1>2, OneMoreByPart
  <2>2. requires \o << >> = requires /\ replaces \o << >> = replaces
    OBVIOUS
  <2> QED
    BY <1>2, <2>1, <2>2 DEF EntriesIn, Taken
<1> HIDE DEF entry, verb
<1>7. line \in Seq(Word) /\ line[1] = verb
  BY <1>3
<1> HIDE DEF line
<1>8. lines \o <<line>> = Append(lines, line)
  BY <1>7, OneMoreByPart
<1>9. parseGoMod(Append(lines, line)) = ReadLine(parseGoMod(lines), line)
  BY <1>7, ParsedOneMore
<1>10. parseGoMod(lines).block = Unset /\ Says(parseGoMod(lines), requires, replaces)
  BY DEF After
<1>11. CASE verb \in Verbs
  <2>1. ReadLine(parseGoMod(lines), line) = Directive(parseGoMod(lines), verb, entry)
    BY <1>1, <1>2, <1>4, <1>10, <1>11, OwnLine DEF line
  <2>2. /\ Says(Directive(parseGoMod(lines), verb, entry),
                Taken(requires, verb, "require", entry), Taken(replaces, verb, "replace", entry))
        /\ Directive(parseGoMod(lines), verb, entry).block = Unset
    BY <1>2, <1>4, <1>10, <1>11, EntryIsRead
  <2> QED
    BY <1>5, <1>6, <1>8, <1>9, <2>1, <2>2 DEF After
<1>12. CASE verb \notin Verbs
  <2>1. verb # "require" /\ verb # "replace"
    BY <1>12 DEF Verbs
  <2>2. Taken(requires, verb, "require", entry) = requires
        /\ Taken(replaces, verb, "replace", entry) = replaces
    BY <2>1 DEF Taken
  <2>3. line = << >> \/ line[1] \notin Verbs
    BY <1>7, <1>12
  <2>4. ReadLine(parseGoMod(lines), line) = parseGoMod(lines)
    BY <1>7, <1>10, <2>3, OtherLine
  <2> QED
    BY <1>5, <1>6, <1>8, <1>9, <1>10, <2>2, <2>4 DEF After
<1> QED
  BY <1>11, <1>12
\* The entries of one verb, with the first k of a block if it has that verb.
WithPart(list, verb, wanted, es, k) ==
  IF verb = wanted THEN list \o SubSeq(es, 1, k) ELSE list

LEMMA PartByPart ==
  ASSUME NEW A, NEW list \in Seq(A), NEW es \in Seq(A), NEW verb, NEW wanted
  PROVE  /\ WithPart(list, verb, wanted, es, 0) = list
         /\ WithPart(list, verb, wanted, es, Len(es))
              = list \o (IF verb = wanted THEN es ELSE << >>)
<1>1. list \o << >> = list
  OBVIOUS
<1>2. /\ list \o SubSeq(es, 1, 0) = list
      /\ list \o SubSeq(es, 1, Len(es)) = list \o es
  BY ConcatByElement
<1> QED
  BY <1>1, <1>2 DEF WithPart

LEMMA NextPart ==
  ASSUME NEW A, NEW list \in Seq(A), NEW es \in Seq(A), NEW verb, NEW wanted,
         NEW k \in 0..(Len(es) - 1)
  PROVE  /\ WithPart(list, verb, wanted, es, k) \in Seq(A)
         /\ WithPart(list, verb, wanted, es, k + 1)
              = Taken(WithPart(list, verb, wanted, es, k), verb, wanted, es[k + 1])
<1>1. k \in 0..Len(es)
  OBVIOUS
<1>2. /\ list \o SubSeq(es, 1, k) \in Seq(A)
      /\ list \o SubSeq(es, 1, k + 1) = Append(list \o SubSeq(es, 1, k), es[k + 1])
  BY <1>1, ConcatByElement
<1> QED
  BY <1>2 DEF WithPart, Taken

\* In a block the entries are read one after the other.
LEMMA BlockIsRead ==
  ASSUME NEW lines \in Seq(Seq(Word)), NEW requires \in Seq(Seq(STRING)),
         NEW replaces \in Seq(Seq(STRING)), After(lines, requires, replaces, Unset),
         NEW d \in Directives, IsDirective(d), d.block
  PROVE  After(lines \o LinesOf(d), requires \o EntriesIn(d, "require"),
               replaces \o EntriesIn(d, "replace"), Unset)
<1> DEFINE verb == d.verb
           es == d.entries
           n == Len(es)
           first == <<verb, Opening>>
           last == <<Closing>>
           opened == Append(lines, first)
           block == IF verb \in Verbs THEN verb ELSE Unset
           rs(k) == WithPart(requires, verb, "require", es, k)
           ps(k) == WithPart(replaces, verb, "replace", es, k)
           read1 == {k \in Nat : After(opened \o SubSeq(es, 1, k), rs(k), ps(k), block)}
<1>0. es \in Seq(Seq(STRING)) /\ DOMAIN es = 1..n
  BY DEF Directives
<1>1. n \in Nat /\ n \in 0..n
  BY <1>0
<1>2. first \in Seq(Word) /\ last \in Seq(Word)
  <2>1. verb \in Word /\ Opening \in Word /\ Closing \in Word
    BY Zenon DEF Word, Directives
  <2> QED
    BY <2>1
<1>3. es \in Seq(Seq(Word)) /\ opened \in Seq(Seq(Word))
  BY <1>0, <1>2, EntriesAreLines
<1>4. LinesOf(d) = <<first>> \o es \o <<last>>
  BY DEF LinesOf
<1>5. /\ parseGoMod(lines).block = Unset /\ Says(parseGoMod(lines), requires, replaces)
      /\ IsRead(parseGoMod(lines))
  BY DEF After, Says
<1>6. \A i \in 1..n :
           /\ es[i] \in Seq(STRING)
           /\ verb \in Verbs =>
                /\ \/ es[i] = << >>
                   \/ verb = "require" /\ IsRequire(es[i])
                   \/ verb = "replace" /\ IsReplace(es[i])
                /\ es[i] = << >> \/ IsWord(es[i][1])
           /\ verb \notin Verbs => es[i] = << >> \/ es[i][1] \notin Verbs
  BY <1>0, EntryOfDirective
<1>7. rs(n) = requires \o EntriesIn(d, "require") /\ ps(n) = replaces \o EntriesIn(d, "replace")
  <2> DEFINE entries == Seq(STRING)
  <2>0. requires \in Seq(entries) /\ replaces \in Seq(entries) /\ es \in Seq(entries)
    BY <1>0
  <2> HIDE DEF entries, es, verb
  <2>1. rs(n) = requires \o (IF verb = "require" THEN es ELSE << >>)
    BY <2>0, PartByPart
  <2>2. ps(n) = replaces \o (IF verb = "replace" THEN es ELSE << >>)
    BY <2>0, PartByPart
  <2> HIDE DEF rs, ps, n
  <2> QED
    BY <2>1, <2>2 DEF EntriesIn, es, verb
<1> HIDE DEF verb, es, last
<1>17. ASSUME NEW k \in 0..(n - 1)
       PROVE  /\ rs(k) \in Seq(Seq(STRING))
              /\ rs(k + 1) = Taken(rs(k), verb, "require", es[k + 1])
  <2> DEFINE entries == Seq(STRING)
  <2>1. requires \in Seq(entries) /\ es \in Seq(entries)
    BY <1>0
  <2> HIDE DEF entries
  <2>2. rs(k) \in Seq(entries) /\ rs(k + 1) = Taken(rs(k), verb, "require", es[k + 1])
    BY <2>1, NextPart
  <2> QED
    BY <2>2 DEF entries
<1>18. ASSUME NEW k \in 0..(n - 1)
       PROVE  /\ ps(k) \in Seq(Seq(STRING))
              /\ ps(k + 1) = Taken(ps(k), verb, "replace", es[k + 1])
  <2> DEFINE entries == Seq(STRING)
  <2>1. replaces \in Seq(entries) /\ es \in Seq(entries)
    BY <1>0
  <2> HIDE DEF entries
  <2>2. ps(k) \in Seq(entries) /\ ps(k + 1) = Taken(ps(k), verb, "replace", es[k + 1])
    BY <2>1, NextPart
  <2> QED
    BY <2>2 DEF entries
<1>8. After(opened, requires, replaces, block)
  <2>1. parseGoMod(opened) = ReadLine(parseGoMod(lines), first)
    BY <1>2, ParsedOneMore
  <2>2. CASE verb \in Verbs
    <3>1. ReadLine(parseGoMod(lines), first)
            = Read(verb, parseGoMod(lines).required, parseGoMod(lines).replacements)
      BY <1>5, <2>2, OpeningLine
    <3> QED
      BY <1>5, <2>1, <2>2, <3>1 DEF After, Says, Read, IsRead
  <2>3. CASE verb \notin Verbs
    <3>1. first[1] = verb
      OBVIOUS
    <3>2. ReadLine(parseGoMod(lines), first) = parseGoMod(lines)
      BY <1>2, <1>5, <2>3, <3>1, OtherLine
    <3> QED
      BY <1>5, <2>1, <2>3, <3>2 DEF After
  <2> QED
    BY <2>2, <2>3
<1> HIDE DEF opened, first
<1>9. 0 \in read1
  <2>1. rs(0) = requires /\ ps(0) = replaces
    BY <1>0, PartByPart
  <2>2. opened \o SubSeq(es, 1, 0) = opened
    BY <1>3, ConcatByElement
  <2> HIDE DEF rs, ps, block
  <2> QED
    BY <1>8, <2>1, <2>2
<1>10. ASSUME NEW k \in 0..(n - 1), k \in read1 PROVE k + 1 \in read1
  <2> DEFINE upTo == opened \o SubSeq(es, 1, k)
             entry == es[k + 1]
  <2>1. k + 1 \in 1..n /\ k + 1 \in Nat /\ k \in 0..n
    BY <1>1
  <2>2. entry \in Seq(STRING) /\ entry \in Seq(Word)
    BY <1>6, <2>1, EntriesAreLines
  <2>3. upTo \in Seq(Seq(Word)) /\ opened \o SubSeq(es, 1, k + 1) = Append(upTo, entry)
    <3>1. upTo \in Seq(Seq(Word))
      BY <1>3, <2>1, ConcatByElement
    <3> DEFINE line == Seq(Word)
    <3>2. opened \in Seq(line) /\ es \in Seq(line)
      BY <1>3
    <3> HIDE DEF line
    <3>3. opened \o SubSeq(es, 1, k + 1) = Append(opened \o SubSeq(es, 1, k), es[k + 1])
      BY <3>2, NextElement
    <3> QED
      BY <3>1, <3>3
  <2>4. rs(k) \in Seq(Seq(STRING)) /\ ps(k) \in Seq(Seq(STRING))
    BY <1>17, <1>18
  <2>5. rs(k + 1) = Taken(rs(k), verb, "require", entry)
    BY <1>17
  <2>6. ps(k + 1) = Taken(ps(k), verb, "replace", entry)
    BY <1>18
  <2>7. After(upTo, rs(k), ps(k), block)
    BY <1>10
  <2> HIDE DEF upTo, rs, ps
  <2>8. parseGoMod(Append(upTo, entry)) = ReadLine(parseGoMod(upTo), entry)
    BY <2>2, <2>3, ParsedOneMore
  <2>9. parseGoMod(upTo).block = block /\ Says(parseGoMod(upTo), rs(k), ps(k))
    BY <2>7 DEF After
  <2>10. CASE verb \in Verbs
    <3>1. \/ entry = << >>
          \/ verb = "require" /\ IsRequire(entry)
          \/ verb = "replace" /\ IsReplace(entry)
      BY <1>6, <2>1, <2>10
    <3>2. entry = << >> \/ IsWord(entry[1])
      BY <1>6, <2>1, <2>10
    <3> HIDE DEF entry
    <3>3. ReadLine(parseGoMod(upTo), entry)
            = IF entry = << >> THEN parseGoMod(upTo) ELSE Directive(parseGoMod(upTo), verb, entry)
      BY <2>2, <2>9, <2>10, <3>2, BlockLine
    <3>4. Directive(parseGoMod(upTo), verb, << >>) = parseGoMod(upTo)
      <4>1. Len(<< >>) = 0
        OBVIOUS
      <4> QED
        BY <2>10, <4>1, NothingReplaced, LiteralsApart DEF Directive, Verbs
    <3>5. ReadLine(parseGoMod(upTo), entry) = Directive(parseGoMod(upTo), verb, entry)
      BY <3>3, <3>4
    <3>6. /\ Says(Directive(parseGoMod(upTo), verb, entry), Taken(rs(k), verb, "require", entry),
                  Taken(ps(k), verb, "replace", entry))
          /\ Directive(parseGoMod(upTo), verb, entry).block = block
      BY <2>2, <2>4, <2>9, <2>10, <3>1, EntryIsRead, ZenonT(40)
    <3> QED
      BY <2>1, <2>3, <2>5, <2>6, <2>8, <3>5, <3>6 DEF After
  <2>11. CASE verb \notin Verbs
    <3>1. entry = << >> \/ entry[1] \notin Verbs
      BY <1>6, <2>1, <2>11
    <3>2. verb # "require" /\ verb # "replace"
      BY <2>11 DEF Verbs
    <3>3. ReadLine(parseGoMod(upTo), entry) = parseGoMod(upTo)
      BY <2>2, <2>9, <2>11, <3>1, OtherLine
    <3>4. Taken(rs(k), verb, "require", entry) = rs(k) /\ Taken(ps(k), verb, "replace", entry) = ps(k)
      BY <3>2 DEF Taken
    <3> QED
      BY <2>1, <2>3, <2>5, <2>6, <2>7, <2>8, <3>3, <3>4 DEF After
  <2> QED
    BY <2>10, <2>11
<1> HIDE DEF read1, n
<1>11. n \in read1
  <2>1. 0..n \subseteq read1
    BY <1>1, <1>9, <1>10, UpTo
  <2> QED
    BY <1>1, <2>1
<1> DEFINE inside == opened \o es
<1>12. After(inside, requires \o EntriesIn(d, "require"), replaces \o EntriesIn(d, "replace"), block)
  <2>1. opened \o SubSeq(es, 1, n) = inside
    BY <1>3, ConcatByElement DEF n
  <2> HIDE DEF block, inside, rs, ps
  <2> QED
    BY <1>7, <1>11, <2>1 DEF read1
<1>13. inside \in Seq(Seq(Word)) /\ lines \o LinesOf(d) = Append(inside, last)
  <2> DEFINE line == Seq(Word)
  <2>0. lines \in Seq(line) /\ es \in Seq(line) /\ first \in line /\ last \in line
    BY <1>2, <1>3
  <2> HIDE DEF line
  <2>1. lines \o (<<first>> \o es \o <<last>>) = Append(Append(lines, first) \o es, last)
    BY <2>0, FrameByPart
  <2>2. inside \in Seq(Seq(Word))
    BY <1>3
  <2> QED
    BY <1>4, <2>1, <2>2 DEF opened
<1> HIDE DEF inside, block
<1>14. parseGoMod(Append(inside, last)) = ReadLine(parseGoMod(inside), last)
  BY <1>2, <1>13, ParsedOneMore
<1>15. IsRead(parseGoMod(inside))
  BY <1>12 DEF After, Says, inside
<1>16. ReadLine(parseGoMod(inside), last)
         = Read(Unset, parseGoMod(inside).required, parseGoMod(inside).replacements)
  BY <1>15, ClosingLine DEF last
<1> QED
  BY <1>12, <1>13, <1>14, <1>16 DEF After, Says, IsRead, Read, inside
-----------------------------------------------------------------------------
\* All of a go.mod.

\* What an entry of this verb may be.
EntriesFor(verb) ==
  {entry \in Seq(STRING) :
     \/ entry = << >>
     \/ verb = "require" /\ IsRequire(entry)
     \/ verb = "replace" /\ IsReplace(entry)}

LEMMA EntriesForAVerb ==
  ASSUME NEW d \in Directives, IsDirective(d), NEW verb \in Verbs
  PROVE  EntriesIn(d, verb) \in Seq(EntriesFor(verb))
<1>1. d.entries \in Seq(Seq(STRING)) /\ DOMAIN d.entries = 1..Len(d.entries)
  BY DEF Directives
<1>2. CASE d.verb = verb
  <2>1. \A i \in DOMAIN d.entries : d.entries[i] \in EntriesFor(verb)
    BY <1>2, EntryOfDirective DEF EntriesFor
  <2> DEFINE es == d.entries
             entries == EntriesFor(verb)
             strings == Seq(STRING)
  <2> HIDE DEF es, entries, strings
  <2>2. es \in Seq(strings) /\ \A i \in 1..Len(es) : es[i] \in entries
    BY <1>1, <2>1 DEF es, entries, strings
  <2>3. es \in Seq(entries)
    BY <2>2
  <2> QED
    BY <1>2, <2>3 DEF EntriesIn, es, entries
<1>3. CASE d.verb # verb
  <2> DEFINE entries == EntriesFor(verb)
  <2> HIDE DEF entries
  <2>1. << >> \in Seq(entries)
    OBVIOUS
  <2> QED
    BY <1>3, <2>1 DEF EntriesIn, entries
<1> QED
  BY <1>2, <1>3

LEMMA DirectiveIsRead ==
  ASSUME NEW lines \in Seq(Seq(Word)), NEW requires \in Seq(Seq(STRING)),
         NEW replaces \in Seq(Seq(STRING)), After(lines, requires, replaces, Unset),
         NEW d \in Directives, IsDirective(d)
  PROVE  After(lines \o LinesOf(d), requires \o EntriesIn(d, "require"),
               replaces \o EntriesIn(d, "replace"), Unset)
BY OwnLineIsRead, BlockIsRead

LEMMA LinesOfDirective ==
  ASSUME NEW d \in Directives, IsDirective(d) PROVE LinesOf(d) \in Seq(Seq(Word))
<1> DEFINE verb == d.verb
           es == d.entries
           line == Seq(Word)
<1>1. es \in Seq(line) /\ (~d.block => es[1] \in Seq(Word))
  <2>1. es \in Seq(Seq(STRING)) /\ (d.block \/ Len(es) = 1)
    BY DEF Directives, IsDirective
  <2>2. es \in Seq(line)
    BY <2>1, EntriesAreLines
  <2> HIDE DEF es, line
  <2>3. ~d.block => es[1] \in line
    BY <2>1, <2>2
  <2> QED
    BY <2>2, <2>3 DEF line
<1>2. verb \in Word /\ Opening \in Word /\ Closing \in Word
  BY Zenon DEF Word, Directives
<1> HIDE DEF es, verb
<1>3. <<verb, Opening>> \in line /\ <<Closing>> \in line /\ (~d.block => <<verb>> \o es[1] \in line)
  BY <1>1, <1>2
<1> HIDE DEF line
<1>4. CASE d.block
  <2>1. <<<<verb, Opening>>>> \o es \o <<<<Closing>>>> \in Seq(line)
    BY <1>1, <1>3
  <2> QED
    BY <1>4, <2>1 DEF LinesOf, verb, es, line
<1>5. CASE ~d.block
  <2>1. <<<<verb>> \o es[1]>> \in Seq(line)
    BY <1>3, <1>5
  <2> QED
    BY <1>5, <2>1 DEF LinesOf, verb, es, line
<1> QED
  BY <1>4, <1>5

LEMMA NothingSays == After(<< >>, << >>, << >>, Unset)
<1>1. RequiredSay(<< >>, << >>)
  BY DEF RequiredSay
<1>2. ReplacedSay(<< >>, << >>)
  BY DEF ReplacedSay
<1> QED
  BY <1>1, <1>2, ParsedNothing, OnlyOfNothing DEF After, Says, NothingRead, Read, IsRead

LEMMA DirectivesAreRead ==
  ASSUME NEW directives \in Seq(Directives), \A k \in DOMAIN directives : IsDirective(directives[k])
  PROVE  /\ After(Lines(directives), Written(directives, "require"),
                  Written(directives, "replace"), Unset)
         /\ Written(directives, "require") \in Seq(EntriesFor("require"))
         /\ Written(directives, "replace") \in Seq(EntriesFor("replace"))
<1> DEFINE n == Len(directives)
           line == Seq(Word)
           requirements == EntriesFor("require")
           replacements == EntriesFor("replace")
           ls == [k \in DOMAIN directives |-> LinesOf(directives[k])]
           rs == [k \in DOMAIN directives |-> EntriesIn(directives[k], "require")]
           ps == [k \in DOMAIN directives |-> EntriesIn(directives[k], "replace")]
<1>1. n \in Nat /\ DOMAIN directives = 1..n /\ n \in 0..n
  OBVIOUS
<1>2. \A k \in 1..n : directives[k] \in Directives /\ IsDirective(directives[k])
  OBVIOUS
<1>3. \A k \in 1..n :
        /\ LinesOf(directives[k]) \in Seq(line)
        /\ EntriesIn(directives[k], "require") \in Seq(requirements)
        /\ EntriesIn(directives[k], "replace") \in Seq(replacements)
  BY <1>2, LinesOfDirective, EntriesForAVerb DEF Verbs
<1> HIDE DEF line, requirements, replacements, n
<1>4. /\ ls \in Seq(Seq(line)) /\ rs \in Seq(Seq(requirements)) /\ ps \in Seq(Seq(replacements))
      /\ Len(ls) = n /\ Len(rs) = n /\ Len(ps) = n
      /\ \A k \in 1..n : /\ ls[k] = LinesOf(directives[k])
                         /\ rs[k] = EntriesIn(directives[k], "require")
                         /\ ps[k] = EntriesIn(directives[k], "replace")
  BY <1>1, <1>3
<1>5. /\ Lines(directives) = Seqs!FlattenSeq(ls)
      /\ Written(directives, "require") = Seqs!FlattenSeq(rs)
      /\ Written(directives, "replace") = Seqs!FlattenSeq(ps)
  BY DEF Lines, Written, LinesOf, EntriesIn
<1> HIDE DEF ls, rs, ps
<1>6. PICK f : /\ f[0] = << >> /\ \A i \in 1..n : f[i] = f[i - 1] \o ls[i]
               /\ \A i \in 0..n : f[i] \in Seq(line)
               /\ Seqs!FlattenSeq(ls) = f[n]
  <2>1. PICK f : /\ f[0] = << >>
                 /\ \A i \in 1..Len(ls) : f[i] = f[i - 1] \o ls[i]
                 /\ \A i \in 0..Len(ls) : f[i] \in Seq(line)
                 /\ Seqs!FlattenSeq(ls) = f[Len(ls)]
    BY <1>4, FlattenSteps
  <2> QED
    BY <1>4, <2>1
<1>7. PICK g : /\ g[0] = << >> /\ \A i \in 1..n : g[i] = g[i - 1] \o rs[i]
               /\ \A i \in 0..n : g[i] \in Seq(requirements)
               /\ Seqs!FlattenSeq(rs) = g[n]
  <2>1. PICK g : /\ g[0] = << >>
                 /\ \A i \in 1..Len(rs) : g[i] = g[i - 1] \o rs[i]
                 /\ \A i \in 0..Len(rs) : g[i] \in Seq(requirements)
                 /\ Seqs!FlattenSeq(rs) = g[Len(rs)]
    BY <1>4, FlattenSteps
  <2> QED
    BY <1>4, <2>1
<1>8. PICK h : /\ h[0] = << >> /\ \A i \in 1..n : h[i] = h[i - 1] \o ps[i]
               /\ \A i \in 0..n : h[i] \in Seq(replacements)
               /\ Seqs!FlattenSeq(ps) = h[n]
  <2>1. PICK h : /\ h[0] = << >>
                 /\ \A i \in 1..Len(ps) : h[i] = h[i - 1] \o ps[i]
                 /\ \A i \in 0..Len(ps) : h[i] \in Seq(replacements)
                 /\ Seqs!FlattenSeq(ps) = h[Len(ps)]
    BY <1>4, FlattenSteps
  <2> QED
    BY <1>4, <2>1
<1> DEFINE read1 == {i \in Nat : After(f[i], g[i], h[i], Unset)}
<1>9. 0 \in read1
  BY <1>6, <1>7, <1>8, NothingSays
<1>10. ASSUME NEW i \in 0..(n - 1), i \in read1 PROVE i + 1 \in read1
  <2> DEFINE d == directives[i + 1]
  <2>1. i + 1 \in 1..n /\ i \in 0..n /\ i + 1 \in Nat /\ (i + 1) - 1 = i
    BY <1>1
  <2>2. d \in Directives /\ IsDirective(d)
    BY <1>2, <2>1
  <2>3. /\ f[i + 1] = f[i] \o LinesOf(d)
        /\ g[i + 1] = g[i] \o EntriesIn(d, "require")
        /\ h[i + 1] = h[i] \o EntriesIn(d, "replace")
    BY <1>4, <1>6, <1>7, <1>8, <2>1
  <2>4. f[i] \in Seq(Seq(Word))
    BY <1>6, <2>1 DEF line
  <2>5. g[i] \in Seq(Seq(STRING)) /\ h[i] \in Seq(Seq(STRING))
    <3> DEFINE entries == Seq(STRING)
    <3>1. requirements \subseteq entries /\ replacements \subseteq entries
      BY Zenon DEF requirements, replacements, EntriesFor
    <3> HIDE DEF entries
    <3>2. g[i] \in Seq(entries) /\ h[i] \in Seq(entries)
      BY <1>7, <1>8, <2>1, <3>1
    <3> QED
      BY <3>2 DEF entries
  <2>6. After(f[i], g[i], h[i], Unset)
    BY <1>10
  <2> HIDE DEF d
  <2>7. After(f[i] \o LinesOf(d), g[i] \o EntriesIn(d, "require"), h[i] \o EntriesIn(d, "replace"), Unset)
    BY <2>2, <2>4, <2>5, <2>6, DirectiveIsRead
  <2> QED
    BY <2>1, <2>3, <2>7
<1> HIDE DEF read1
<1>11. n \in read1
  <2>1. 0..n \subseteq read1
    BY <1>1, <1>9, <1>10, UpTo
  <2> QED
    BY <1>1, <2>1
<1> QED
  BY <1>1, <1>5, <1>6, <1>7, <1>8, <1>11 DEF read1, requirements, replacements
-----------------------------------------------------------------------------
\* The replacement of a name.

\* The words of a name, which is of a module or of one version of it.
IsName(name) ==
  /\ name = <<name[1]>> \/ name = <<name[1], name[2]>>
  /\ Len(name) \in {1, 2}
  /\ \A i \in 1..Len(name) : IsWord(name[i])

LEMMA WordIsNoArrow == \A word : IsWord(word) => word # Arrow /\ word # Unset
  BY DEF IsWord

LEMMA LeftIsTheName ==
  ASSUME NEW A, NEW entry \in Seq(A), IsReplace(entry), NEW name \in Seq(A), IsName(name)
  PROVE  /\ Replaces(entry, name) <=> Left(entry) = name
         /\ Replaces(entry, name) => SubSeq(entry, Len(name) + 2, Len(entry)) = Right(entry)
         /\ Left(entry) \in NamesIn(entry)
         /\ Len(Right(entry)) \in {1, 2} /\ \A i \in 1..Len(Right(entry)) : IsWord(Right(entry)[i])
<1>1. PICK k \in {2, 3} : ArrowAt(entry, k)
  BY DEF IsReplace
<1>2. /\ Len(entry) \in {k + 1, k + 2} /\ entry[k] = Arrow
      /\ \A i \in 1..Len(entry) : i # k => IsWord(entry[i]) /\ entry[i] # Arrow
  BY <1>1, WordIsNoArrow DEF ArrowAt
<1>3. Len(name) \in {1, 2} /\ \A i \in 1..Len(name) : name[i] # Arrow
  BY WordIsNoArrow DEF IsName
<1>4. CASE k = 2
  <2>1. Left(entry) = <<entry[1]>> /\ Right(entry) = SubSeq(entry, 3, Len(entry))
    BY <1>2, <1>4 DEF Left, Right
  <2>2. SubSeq(entry, 1, 1) = <<entry[1]>> /\ \A i \in 1..1 : IsWord(entry[i])
    <3>1. Len(entry) >= 1 /\ \A i \in 1..1 : i \in 1..Len(entry) /\ i # k
      BY <1>2, <1>4
    <3> QED
      BY <1>2, <3>1, FirstElement
  <2>3. <<entry[1]>> \in NamesIn(entry)
    BY <2>2 DEF NamesIn
  <2>4. Replaces(entry, name) => Len(name) = 1
    BY <1>2, <1>3, <1>4 DEF Replaces
  <2>5. Len(name) = 1 => (Replaces(entry, name) <=> <<entry[1]>> = name)
    BY <1>2, <1>4, <2>2 DEF Replaces
  <2>6. <<entry[1]>> = name => Len(name) = 1
    OBVIOUS
  <2>7. /\ Len(SubSeq(entry, 3, Len(entry))) \in {1, 2}
        /\ \A i \in 1..Len(SubSeq(entry, 3, Len(entry))) : IsWord(SubSeq(entry, 3, Len(entry))[i])
    <3>1. /\ k \in 0..Len(entry) /\ k + 1 = 3 /\ Len(entry) - k \in {1, 2}
          /\ \A i \in 1..(Len(entry) - k) : k + i \in 1..Len(entry) /\ k + i # k
      BY <1>2, <1>4
    <3>2. /\ Len(SubSeq(entry, 3, Len(entry))) = Len(entry) - k
          /\ \A i \in 1..(Len(entry) - k) : SubSeq(entry, 3, Len(entry))[i] = entry[k + i]
      BY <3>1, LaterElements
    <3> QED
      BY <1>2, <3>1, <3>2
  <2> QED
    <3>1. Replaces(entry, name) <=> Left(entry) = name
      BY <2>1, <2>4, <2>5, <2>6
    <3>2. Replaces(entry, name) => SubSeq(entry, Len(name) + 2, Len(entry)) = Right(entry)
      <4> SUFFICES ASSUME Replaces(entry, name)
                   PROVE  SubSeq(entry, Len(name) + 2, Len(entry)) = Right(entry)
        OBVIOUS
      <4>1. Len(name) = 1
        BY <2>4, Zenon
      <4>2. Len(name) + 2 = k + 1
        BY <1>4, <4>1
      <4>3. Right(entry) = SubSeq(entry, k + 1, Len(entry))
        BY <1>4, <2>1
      <4> QED
        BY <4>2, <4>3
    <3> QED
      BY <2>1, <2>3, <2>7, <3>1, <3>2
<1>5. CASE k = 3
  <2>1. Left(entry) = <<entry[1], entry[2]>> /\ Right(entry) = SubSeq(entry, 4, Len(entry))
    BY <1>2, <1>5 DEF Left, Right
  <2>2. SubSeq(entry, 1, 2) = <<entry[1], entry[2]>> /\ \A i \in 1..2 : IsWord(entry[i])
    <3>1. Len(entry) >= 2 /\ \A i \in 1..2 : i \in 1..Len(entry) /\ i # k
      BY <1>2, <1>5
    <3> QED
      BY <1>2, <3>1, FirstElements
  <2>3. <<entry[1], entry[2]>> \in NamesIn(entry)
    BY <2>2 DEF NamesIn
  <2>4. Replaces(entry, name) => Len(name) = 2
    BY <1>2, <1>3, <1>5 DEF Replaces
  <2>5. Len(name) = 2 => (Replaces(entry, name) <=> <<entry[1], entry[2]>> = name)
    BY <1>2, <1>5, <2>2 DEF Replaces
  <2>6. <<entry[1], entry[2]>> = name => Len(name) = 2
    OBVIOUS
  <2>7. /\ Len(SubSeq(entry, 4, Len(entry))) \in {1, 2}
        /\ \A i \in 1..Len(SubSeq(entry, 4, Len(entry))) : IsWord(SubSeq(entry, 4, Len(entry))[i])
    <3>1. /\ k \in 0..Len(entry) /\ k + 1 = 4 /\ Len(entry) - k \in {1, 2}
          /\ \A i \in 1..(Len(entry) - k) : k + i \in 1..Len(entry) /\ k + i # k
      BY <1>2, <1>5
    <3>2. /\ Len(SubSeq(entry, 4, Len(entry))) = Len(entry) - k
          /\ \A i \in 1..(Len(entry) - k) : SubSeq(entry, 4, Len(entry))[i] = entry[k + i]
      BY <3>1, LaterElements
    <3> QED
      BY <1>2, <3>1, <3>2
  <2> QED
    <3>1. Replaces(entry, name) <=> Left(entry) = name
      BY <2>1, <2>4, <2>5, <2>6
    <3>2. Replaces(entry, name) => SubSeq(entry, Len(name) + 2, Len(entry)) = Right(entry)
      <4> SUFFICES ASSUME Replaces(entry, name)
                   PROVE  SubSeq(entry, Len(name) + 2, Len(entry)) = Right(entry)
        OBVIOUS
      <4>1. Len(name) = 2
        BY <2>4, Zenon
      <4>2. Len(name) + 2 = k + 1
        BY <1>5, <4>1
      <4>3. Right(entry) = SubSeq(entry, k + 1, Len(entry))
        BY <1>5, <2>1
      <4> QED
        BY <4>2, <4>3
    <3> QED
      BY <2>1, <2>3, <2>7, <3>1, <3>2
<1> QED
  BY <1>4, <1>5

\* What parseReplace filed under a name is what the last directive for it says.
LEMMA LookedUp ==
  ASSUME NEW directives, NEW replacements,
         EntriesOf(directives, "replace") \in Seq(Seq(STRING)),
         \A k \in DOMAIN EntriesOf(directives, "replace") :
           IsReplace(EntriesOf(directives, "replace")[k]),
         ReplacedSay(replacements, EntriesOf(directives, "replace")),
         NEW name \in Seq(STRING), IsName(name),
         \A k \in DOMAIN EntriesOf(directives, "replace") :
           \A a \in NamesIn(EntriesOf(directives, "replace")[k]) :
             Spelled(a) = Spelled(name) => a = name
  PROVE  LET by == ReplacedBy(directives, name)
         IN \/ by = << >> /\ Spelled(name) \notin DOMAIN replacements
            \/ /\ Len(by) \in {1, 2} /\ \A i \in 1..Len(by) : IsWord(by[i])
               /\ Spelled(name) \in DOMAIN replacements /\ replacements[Spelled(name)] = To(by)
<1> DEFINE replaces == EntriesOf(directives, "replace")
           n == Len(replaces)
           hits == {k \in DOMAIN replaces : Replaces(replaces[k], name)}
           by == ReplacedBy(directives, name)
           last == CHOOSE k \in hits : \A l \in hits : l <= k
<1>1. by = IF hits = {} THEN << >>
           ELSE SubSeq(replaces[last], Len(name) + 2, Len(replaces[last]))
  BY DEF ReplacedBy
<1>2. n \in Nat /\ DOMAIN replaces = 1..n
  OBVIOUS
<1>3. ASSUME NEW k \in 1..n
      PROVE  /\ Replaces(replaces[k], name) <=> Left(replaces[k]) = name
             /\ Replaces(replaces[k], name) =>
                  SubSeq(replaces[k], Len(name) + 2, Len(replaces[k])) = Right(replaces[k])
             /\ Left(replaces[k]) \in NamesIn(replaces[k])
             /\ Len(Right(replaces[k])) \in {1, 2}
             /\ \A i \in 1..Len(Right(replaces[k])) : IsWord(Right(replaces[k])[i])
  <2>1. replaces[k] \in Seq(STRING) /\ IsReplace(replaces[k])
    BY <1>2
  <2> QED
    BY <2>1, LeftIsTheName
<1>4. \A k \in 1..n : Left(replaces[k]) = name <=> Key(replaces[k]) = Spelled(name)
  BY <1>2, <1>3 DEF Key
<1> HIDE DEF replaces, by, n, last
<1>5. CASE hits = {}
  <2>1. by = << >>
    BY <1>1, <1>5
  <2>2. Spelled(name) \notin DOMAIN replacements
    BY <1>2, <1>3, <1>4, <1>5 DEF ReplacedSay, replaces, n
  <2> QED
    BY <2>1, <2>2 DEF by
<1>6. CASE hits # {}
  <2>1. hits \in SUBSET (1..n)
    BY <1>2
  <2>2. \E k \in hits : \A l \in hits : l <= k
    BY <1>2, <1>6, <2>1, GreatestPosition
  <2>3. last \in hits /\ \A l \in hits : l <= last
    BY <2>2 DEF last
  <2>4. last \in 1..n /\ Replaces(replaces[last], name)
    BY <1>2, <2>3
  <2>5. by = Right(replaces[last]) /\ Key(replaces[last]) = Spelled(name)
    BY <1>1, <1>3, <1>4, <1>6, <2>4
  <2>6. \A l \in 1..n : l > last => Key(replaces[l]) # Key(replaces[last])
    <3>1. ASSUME NEW l \in 1..n, l > last PROVE Key(replaces[l]) # Key(replaces[last])
      <4>1. l \notin hits
        BY <2>3, <2>4, <3>1
      <4> QED
        BY <1>2, <1>3, <1>4, <2>5, <4>1
    <3> QED
      BY <3>1
  <2>7. Key(replaces[last]) \in DOMAIN replacements
        /\ replacements[Key(replaces[last])] = To(Right(replaces[last]))
    BY <2>4, <2>6 DEF ReplacedSay, replaces, n
  <2> QED
    BY <1>3, <2>4, <2>5, <2>7 DEF by
<1> QED
  BY <1>5, <1>6
-----------------------------------------------------------------------------
\* What Modules makes of a requirement.

\* What ships for a requirement, as Modules names it.
Shipped(directives, entry) ==
  LET by == InsteadOf(directives, entry)
      code == CodeOf(directives, entry)
  IN [path |-> code[1], version |-> code[2],
      dir |-> IF Len(by) = 1 THEN by[1] ELSE Unset]

\* Either replacement that is found is the one the directives give, and without
\* one the module is itself.
LEMMA NamedAsShipped ==
  ASSUME NEW directives, NEW replacements, NEW entry \in Seq(STRING), IsRequire(entry),
         \A name \in {entry, <<entry[1]>>} :
           LET by == ReplacedBy(directives, name)
           IN \/ by = << >> /\ Spelled(name) \notin DOMAIN replacements
              \/ /\ Len(by) \in {1, 2} /\ \A i \in 1..Len(by) : IsWord(by[i])
                 /\ Spelled(name) \in DOMAIN replacements
                 /\ replacements[Spelled(name)] = To(by)
  PROVE  LET by == InsteadOf(directives, entry)
         IN /\ Named(replacements, Requirement(entry[1], entry[2])) = Shipped(directives, entry)
            /\ Coordinate(Shipped(directives, entry)) = Ships(directives, entry)
            /\ by = << >> \/ Len(by) \in {1, 2}
            /\ Len(by) = 1 => by[1] # Unset
<1> DEFINE path == entry[1]
           version == entry[2]
           m == Requirement(path, version)
           this == ReplacedBy(directives, entry)
           any == ReplacedBy(directives, <<path>>)
           by == InsteadOf(directives, entry)
           code == CodeOf(directives, entry)
           ships == Shipped(directives, entry)
           rs == replacementFor(replacements, m)
<1>1. Len(entry) = 2 /\ \A i \in DOMAIN entry : IsWord(entry[i])
  BY Zenon DEF IsRequire
<1>2. IsWord(path) /\ IsWord(version) /\ path # Unset /\ version # Unset
  <2>1. 1 \in DOMAIN entry /\ 2 \in DOMAIN entry
    BY <1>1
  <2> QED
    BY <1>1, <2>1, WordIsNoArrow
<1>3. Spelled(entry) = At(path, version) /\ Spelled(<<path>>) = path
  BY <1>1 DEF Spelled
<1>4. m.path = path /\ m.version = version
  BY DEF Requirement
<1>5. /\ \/ this = << >> /\ At(path, version) \notin DOMAIN replacements
         \/ /\ Len(this) \in {1, 2} /\ \A i \in 1..Len(this) : IsWord(this[i])
            /\ At(path, version) \in DOMAIN replacements
            /\ replacements[At(path, version)] = To(this)
      /\ \/ any = << >> /\ path \notin DOMAIN replacements
         \/ /\ Len(any) \in {1, 2} /\ \A i \in 1..Len(any) : IsWord(any[i])
            /\ path \in DOMAIN replacements
            /\ replacements[path] = To(any)
  BY <1>3
<1>6. /\ by = IF this # << >> THEN this ELSE any
      /\ code = IF Len(by) = 2 THEN by ELSE entry
      /\ Ships(directives, entry) = At(code[1], code[2])
      /\ ships = [path |-> code[1], version |-> code[2],
                  dir |-> IF Len(by) = 1 THEN by[1] ELSE Unset]
  BY Zenon DEF Ships, InsteadOf, CodeOf, Shipped
<1> HIDE DEF path, version, m, this, any, by
<1>7. Len(<< >>) = 0
  OBVIOUS
<1>8. rs = IF by = << >> THEN {} ELSE {To(by)}
  <2>1. CASE this # << >>
    <3>1. rs = {replacements[At(path, version)]}
      BY <1>4, <1>5, <2>1 DEF replacementFor
    <3> QED
      BY <1>5, <1>6, <2>1, <3>1
  <2>2. CASE this = << >> /\ any # << >>
    <3>1. At(path, version) \notin DOMAIN replacements
      BY <1>5, <1>7, <2>2
    <3>2. rs = {replacements[path]}
      BY <1>4, <1>5, <2>2, <3>1 DEF replacementFor
    <3> QED
      BY <1>5, <1>6, <2>2, <3>2
  <2>3. CASE this = << >> /\ any = << >>
    <3>1. At(path, version) \notin DOMAIN replacements /\ path \notin DOMAIN replacements
      BY <1>5, <1>7, <2>3
    <3> QED
      BY <1>4, <1>6, <2>3, <3>1 DEF replacementFor
  <2> QED
    BY <2>1, <2>2, <2>3
<1>9. by = << >> \/ (Len(by) \in {1, 2} /\ \A i \in 1..Len(by) : IsWord(by[i]))
  BY <1>5, <1>6
<1> HIDE DEF rs, code, ships
<1> SUFFICES /\ Named(replacements, m) = ships
             /\ Coordinate(ships) = Ships(directives, entry)
             /\ Len(by) = 1 => by[1] # Unset
  BY <1>7, <1>9 DEF m, path, version, ships, by
<1>10. code[1] = IF Len(by) = 2 THEN by[1] ELSE path
  BY <1>6 DEF path
<1>11. code[2] = IF Len(by) = 2 THEN by[2] ELSE version
  BY <1>6 DEF version
<1>12. code[2] # Unset
  BY <1>2, <1>7, <1>9, <1>11, WordIsNoArrow
<1>13. Coordinate(ships) = Ships(directives, entry)
  BY <1>6, <1>12 DEF Coordinate
<1>14. CASE by = << >>
  <2>1. rs = {} /\ Len(by) = 0
    BY <1>7, <1>8, <1>14
  <2>2. Named(replacements, m) = [path |-> path, version |-> version, dir |-> Unset]
    BY <1>4, <2>1 DEF Named, rs
  <2> QED
    BY <1>6, <1>10, <1>11, <1>13, <2>1, <2>2
<1>15. CASE by # << >>
  <2> DEFINE r == CHOOSE x \in rs : TRUE
  <2>1. rs = {To(by)} /\ r = To(by) /\ rs # {}
    BY <1>8, <1>15
  <2>2. CASE Len(by) = 1
    <3>1. IsWord(by[1])
      BY <1>9, <1>15, <2>2
    <3>2. r.dir = by[1] /\ by[1] # Unset
      BY <2>1, <2>2, <3>1, WordIsNoArrow DEF To
    <3>3. Named(replacements, m) = [path |-> path, version |-> version, dir |-> r.dir]
      BY <1>4, <2>1, <3>2 DEF Named, rs
    <3> HIDE DEF r
    <3> QED
      BY <1>6, <1>10, <1>11, <1>13, <2>2, <3>2, <3>3
  <2>3. CASE Len(by) = 2
    <3>1. r.dir = Unset /\ r.path = by[1] /\ r.version = by[2]
      BY <2>1, <2>3 DEF To
    <3>2. Named(replacements, m) = [path |-> by[1], version |-> by[2], dir |-> Unset]
      BY <2>1, <3>1 DEF Named, rs
    <3> HIDE DEF r
    <3> QED
      BY <1>6, <1>10, <1>11, <1>13, <2>3, <3>2
  <2> QED
    BY <1>9, <1>15, <2>2, <2>3
<1> QED
  BY <1>14, <1>15
-----------------------------------------------------------------------------
\* The requirements of a go.mod.

LEMMA EntriesKept ==
  ASSUME NEW directives, NEW verb \in Verbs,
         Written(directives, verb) \in Seq(EntriesFor(verb))
  PROVE  /\ EntriesOf(directives, verb) = Only(Written(directives, verb), Entry)
         /\ EntriesOf(directives, verb) \in Seq(Seq(STRING))
         /\ \A k \in DOMAIN EntriesOf(directives, verb) :
              /\ EntriesOf(directives, verb)[k] \in Seq(STRING)
              /\ verb = "require" => IsRequire(EntriesOf(directives, verb)[k])
              /\ verb = "replace" => IsReplace(EntriesOf(directives, verb)[k])
<1> DEFINE all == Written(directives, verb)
           kept == Only(all, Entry)
           possible == EntriesFor(verb)
           strings == Seq(STRING)
<1>1. EntriesOf(directives, verb) = kept
  BY DEF EntriesOf, Entry
<1> HIDE DEF all, possible
<1>2. kept \in Seq(possible) /\ \A x : Holds(kept, x) => x \in Entry
  <2>1. all \in Seq(possible)
    BY DEF all, possible
  <2> QED
    BY <2>1, OnlyKeeps
<1> HIDE DEF kept
<1>3. DOMAIN kept = 1..Len(kept)
  BY <1>2
<1>4. ASSUME NEW k \in 1..Len(kept) PROVE kept[k] \in possible /\ kept[k] # << >>
  <2>1. kept[k] \in Entry
    BY <1>2, <1>4 DEF Holds
  <2> QED
    BY <1>2, <2>1 DEF Entry
<1>5. possible \subseteq strings
  BY Zenon DEF possible, EntriesFor
<1>6. kept \in Seq(Seq(STRING))
  <2> HIDE DEF strings
  <2>1. kept \in Seq(strings)
    BY <1>2, <1>5
  <2> QED
    BY <2>1 DEF strings
<1>7. ASSUME NEW k \in 1..Len(kept)
      PROVE  /\ kept[k] \in Seq(STRING)
             /\ verb = "require" => IsRequire(kept[k])
             /\ verb = "replace" => IsReplace(kept[k])
  <2> DEFINE entry == kept[k]
  <2>1. entry \in possible /\ entry # << >>
    BY <1>4
  <2> HIDE DEF entry
  <2>2. /\ entry \in Seq(STRING)
        /\ \/ verb = "require" /\ IsRequire(entry)
           \/ verb = "replace" /\ IsReplace(entry)
    BY <2>1, Zenon DEF possible, EntriesFor
  <2> QED
    BY <2>2, LiteralsApart DEF entry
<1>8. kept = Only(Written(directives, verb), Entry)
  BY DEF kept, all
<1> QED
  BY <1>1, <1>3, <1>6, <1>7, <1>8

\* What Modules makes of the requirements of a go.mod the go command accepts.
LEMMA RequirementsAreShipped ==
  ASSUME NEW directives, WellFormed(directives)
  PROVE  LET ms == ModulesOf(Lines(directives))
             requires == EntriesOf(directives, "require")
         IN /\ DOMAIN ms = DOMAIN requires
            /\ \A k \in DOMAIN requires :
                 LET by == InsteadOf(directives, requires[k])
                 IN /\ ms[k] = Shipped(directives, requires[k])
                    /\ Coordinate(ms[k]) = Ships(directives, requires[k])
                    /\ by = << >> \/ Len(by) \in {1, 2}
                    /\ Len(by) = 1 => by[1] # Unset
<1> DEFINE mod == parseGoMod(Lines(directives))
           requires == EntriesOf(directives, "require")
           replaces == EntriesOf(directives, "replace")
           all == requires \o replaces
           ms == ModulesOf(Lines(directives))
<1>1. /\ After(Lines(directives), Written(directives, "require"),
               Written(directives, "replace"), Unset)
      /\ Written(directives, "require") \in Seq(EntriesFor("require"))
      /\ Written(directives, "replace") \in Seq(EntriesFor("replace"))
  <2>1. directives \in Seq(Directives) /\ \A k \in DOMAIN directives : IsDirective(directives[k])
    BY Zenon DEF WellFormed
  <2> QED
    BY <2>1, DirectivesAreRead
<1>2. /\ requires = Only(Written(directives, "require"), Entry)
      /\ requires \in Seq(Seq(STRING))
      /\ \A k \in DOMAIN requires : requires[k] \in Seq(STRING) /\ IsRequire(requires[k])
  BY <1>1, EntriesKept DEF Verbs
<1>3. /\ replaces = Only(Written(directives, "replace"), Entry)
      /\ replaces \in Seq(Seq(STRING))
      /\ \A k \in DOMAIN replaces : replaces[k] \in Seq(STRING) /\ IsReplace(replaces[k])
  BY <1>1, EntriesKept DEF Verbs
<1>4. RequiredSay(mod.required, requires) /\ ReplacedSay(mod.replacements, replaces)
  BY <1>1, <1>2, <1>3 DEF After, Says
<1>5. \A a, b \in UNION {NamesIn(all[k]) : k \in DOMAIN all} : Spelled(a) = Spelled(b) => a = b
  BY Zenon DEF WellFormed, SpelledApart
<1>6. ms = [k \in DOMAIN mod.required |-> Named(mod.replacements, mod.required[k])]
  BY DEF ModulesOf, NamedIn
<1> HIDE DEF mod, ms
<1>7. DOMAIN mod.required = DOMAIN requires /\ DOMAIN requires = 1..Len(requires)
  BY <1>2, <1>4 DEF RequiredSay
<1>8. ASSUME NEW k \in DOMAIN requires
      PROVE  LET entry == requires[k]
                 by == InsteadOf(directives, entry)
             IN /\ Named(mod.replacements, mod.required[k]) = Shipped(directives, entry)
                /\ Coordinate(Shipped(directives, entry)) = Ships(directives, entry)
                /\ by = << >> \/ Len(by) \in {1, 2}
                /\ Len(by) = 1 => by[1] # Unset
  <2> DEFINE entry == requires[k]
             names == {entry, <<entry[1]>>}
  <2>1. entry \in Seq(STRING) /\ IsRequire(entry)
    BY <1>2
  <2>2. mod.required[k] = Requirement(entry[1], entry[2])
    BY <1>4, <1>7 DEF RequiredSay
  <2>3. k \in DOMAIN all /\ all[k] = entry
    BY <1>2, <1>3, <1>7
  <2>4. \A l \in DOMAIN replaces : Len(requires) + l \in DOMAIN all
                                   /\ all[Len(requires) + l] = replaces[l]
    BY <1>2, <1>3
  <2> HIDE DEF entry, requires, replaces, all
  <2>5. Len(entry) = 2 /\ \A i \in 1..2 : IsWord(entry[i])
    <3>1. Len(entry) = 2 /\ \A i \in DOMAIN entry : IsWord(entry[i])
      BY <2>1, Zenon DEF IsRequire
    <3>2. DOMAIN entry = 1..2
      BY <2>1, <3>1
    <3> QED
      BY <3>1, <3>2
  <2>6. SubSeq(entry, 1, 2) = entry /\ SubSeq(entry, 1, 1) = <<entry[1]>>
    BY <2>1, <2>5, FirstElement, WholeList
  <2>7. names \subseteq NamesIn(entry)
    <3>1. \A n \in {1, 2} : n \in {i \in 1..2 : \A j \in 1..i : IsWord(entry[j])}
      BY <2>5
    <3> QED
      BY <2>6, <3>1 DEF NamesIn
  <2>8. \A name \in names : name \in Seq(STRING) /\ IsName(name)
    <3>1. entry \in Seq(STRING) /\ IsName(entry)
      BY <2>1, <2>5, <2>6, FirstElements DEF IsName
    <3>2. <<entry[1]>> \in Seq(STRING) /\ IsName(<<entry[1]>>)
      <4>1. entry[1] \in STRING
        BY <2>1, <2>5, PairHolds
      <4> QED
        BY <2>5, <4>1 DEF IsName
    <3> QED
      BY <3>1, <3>2
  <2>9. ASSUME NEW name \in names, NEW l \in DOMAIN replaces, NEW a \in NamesIn(replaces[l]),
               Spelled(a) = Spelled(name)
        PROVE  a = name
    BY <1>5, <2>3, <2>4, <2>7, <2>9
  <2>10. ASSUME NEW name \in names
         PROVE  LET by == ReplacedBy(directives, name)
                IN \/ by = << >> /\ Spelled(name) \notin DOMAIN mod.replacements
                   \/ /\ Len(by) \in {1, 2} /\ \A i \in 1..Len(by) : IsWord(by[i])
                      /\ Spelled(name) \in DOMAIN mod.replacements
                      /\ mod.replacements[Spelled(name)] = To(by)
    <3>1. name \in Seq(STRING) /\ IsName(name)
      BY <2>8
    <3>2. \A l \in DOMAIN replaces : \A a \in NamesIn(replaces[l]) : Spelled(a) = Spelled(name) => a = name
      BY <2>9
    <3> QED
      BY <1>3, <1>4, <3>1, <3>2, LookedUp DEF replaces
  <2> QED
    BY <2>1, <2>2, <2>10, NamedAsShipped DEF entry
<1> QED
  BY <1>6, <1>7, <1>8 DEF ms

\* Of whatever go.mod the go command accepts, parseGoMod and Modules make the
\* modules its directives say it is built from, in their order.
THEOREM GoModIsRead ==
  ASSUME NEW directives, WellFormed(directives)
  PROVE  RequiredBy(directives) = Answers(directives)
<1> DEFINE ms == ModulesOf(Lines(directives))
           requires == EntriesOf(directives, "require")
<1>1. RequiredBy(directives) = [k \in DOMAIN ms |-> Coordinate(ms[k])]
  BY DEF RequiredBy
<1>2. Answers(directives) = [k \in DOMAIN requires |-> Ships(directives, requires[k])]
  BY DEF Answers
<1>3. DOMAIN ms = DOMAIN requires
      /\ \A k \in DOMAIN requires : Coordinate(ms[k]) = Ships(directives, requires[k])
  BY RequirementsAreShipped
<1> HIDE DEF ms, requires
<1> QED
  BY <1>1, <1>2, <1>3

\* RequirementsAnswered: of every go.mod, and of every run over whatever trees,
\* the modules go.mod is answered for are those it is built from
\* (modules.go:24-26, 240-242).
THEOREM RequirementsAreAnswered == Spec => []RequirementsAnswered
<1>1. FormsAreRead
  BY GoModsAssumption, GoModIsRead DEF FormsAreRead
<1>2. Required = Answers(GoModText)
  BY GoModAssumption, GoModsAssumption, GoModIsRead
<1>3. Bookkeeping => RequirementsAnswered
  <2> SUFFICES ASSUME Bookkeeping, pc = "done"
               PROVE  {Required[k] : k \in DOMAIN Required} = read \cup missing
    BY <1>1, <1>2 DEF RequirementsAnswered
  <2>1. read \cup missing = {Required[i] : i \in 1..(at - 1)} /\ at = Len(Required) + 1
    BY DEF Bookkeeping, Counted, Accounted
  <2>2. DOMAIN Required = 1..Len(Required) /\ Len(Required) \in Nat
    BY RequiredAssumption
  <2>3. 1..(at - 1) = DOMAIN Required
    BY <2>1, <2>2
  <2> QED
    BY <2>1, <2>3
<1> QED
  BY <1>3, ModulesAreCountedOnce, PTL
-----------------------------------------------------------------------------
\* Where the source of a requirement may be.

\* Modules looks for a requirement in the places its go.mod entry leaves for it,
\* and where nothing redirects the vendored ones, it looks in all of them.
LEMMA PlacesAreLookedIn ==
  ASSUME RedirectedAreNotVendored, vendored \in BOOLEAN,
         NEW k \in DOMAIN EntriesOf(GoModText, "require"),
         NEW n \in SourcesOf(EntriesOf(GoModText, "require")[k]), n # NoDir
  PROVE  n = LooksIn(Required[k])
<1> DEFINE requires == EntriesOf(GoModText, "require")
           entry == requires[k]
           ms == ModulesOf(Lines(GoModText))
           by == InsteadOf(GoModText, entry)
           code == CodeOf(GoModText, entry)
           place == Where[Required[k]]
<1>1. /\ DOMAIN ms = DOMAIN requires
      /\ \A l \in DOMAIN requires :
           /\ ms[l] = Shipped(GoModText, requires[l])
           /\ LET b == InsteadOf(GoModText, requires[l])
              IN /\ b = << >> \/ Len(b) \in {1, 2}
                 /\ Len(b) = 1 => b[1] # Unset
  BY GoModsAssumption, RequirementsAreShipped
<1>2. /\ Required = [l \in DOMAIN ms |-> Coordinate(ms[l])]
      /\ Where = [c \in {Coordinate(ms[l]) : l \in DOMAIN ms} |->
                    PlaceOf(ms[CHOOSE l \in DOMAIN ms : Coordinate(ms[l]) = c])]
  BY GoModAssumption DEF RequiredBy, WhereBy
<1>3. ms[k] = [path |-> code[1], version |-> code[2],
               dir |-> IF Len(by) = 1 THEN by[1] ELSE Unset]
  BY <1>1 DEF Shipped
<1>4. code = IF Len(by) = 2 THEN by ELSE entry
  BY DEF CodeOf
<1>5. (by # << >> /\ (Len(by) = 1 \/ by[1] # entry[1])) => VendoredAt(entry) = NoDir
  BY DEF RedirectedAreNotVendored
<1>6. \/ vendored /\ n = VendoredAt(entry)
      \/ Len(by) = 1 /\ \E l \in DOMAIN by : n = OnTree(InDirectory(by[l]))
      \/ /\ ~vendored /\ Len(by) # 1
         /\ n = OnTree(InCache(Env, Requirement(code[1], code[2])))
  BY DEF SourcesOf
<1>7. Len(by) = 1 => DOMAIN by = {1}
  <2>1. Len(by) = 1 => by # << >>
    OBVIOUS
  <2> QED
    BY <2>1
<1> HIDE DEF ms, requires, entry, by, code
<1>8. place = PlaceOf(ms[k])
  <2>1. k \in DOMAIN ms
    BY <1>1 DEF requires
  <2>2. \A l \in DOMAIN ms : Coordinate(ms[l]) = Coordinate(ms[k]) => l = k
    <3>1. DOMAIN Required = DOMAIN ms /\ \A l \in DOMAIN ms : Required[l] = Coordinate(ms[l])
      BY <1>2
    <3> QED
      BY <2>1, <3>1, RequiredAssumption
  <2> QED
    BY <1>2, <2>1, <2>2
<1>9. /\ place.byDirectory <=> ms[k].dir # Unset
      /\ place.local = IF ms[k].dir = Unset THEN NoDir ELSE OnTree(InDirectory(ms[k].dir))
      /\ place.vendor = OnTree(InVendor(ms[k].path))
      /\ place.cache = OnTree(InCache(Env, ms[k]))
  <2>1. place = [byDirectory |-> ms[k].dir # Unset,
                 local |-> IF ms[k].dir = Unset THEN NoDir
                           ELSE OnTree(InDirectory(ms[k].dir)),
                 vendor |-> OnTree(InVendor(ms[k].path)),
                 cache |-> OnTree(InCache(Env, ms[k]))]
    BY <1>8 DEF PlaceOf
  <2> HIDE DEF place
  <2>2. place.byDirectory <=> ms[k].dir # Unset
    BY <2>1, Zenon
  <2> QED
    BY <2>1, <2>2
<1>10. InCache(Env, ms[k]) = InCache(Env, Requirement(code[1], code[2]))
  BY <1>3 DEF InCache, Requirement
<1>11. Len(by) = 1 => by[1] # Unset
  BY <1>1 DEF requires, entry, by
<1>12. by = << >> \/ Len(by) \in {1, 2}
  BY <1>1 DEF requires, entry, by
<1> HIDE DEF place
<1>13. CASE Len(by) = 1
  <2>1. place.byDirectory /\ place.local = OnTree(InDirectory(by[1]))
    <3>1. ms[k].dir = by[1] /\ by[1] # Unset
      BY <1>3, <1>11, <1>13
    <3>2. place.byDirectory
      BY <1>9, <3>1, Zenon
    <3> QED
      BY <1>9, <3>1, <3>2
  <2>2. n = OnTree(InDirectory(by[1]))
    <3>1. by # << >>
      BY <1>13
    <3> QED
      BY <1>5, <1>6, <1>7, <1>13, <3>1
  <2> QED
    BY <2>1, <2>2, LooksInCases DEF place
<1>14. CASE Len(by) # 1
  <2>1. ~place.byDirectory
    <3>1. ms[k].dir = Unset
      BY <1>3, <1>14
    <3> QED
      BY <1>9, <3>1, Zenon
  <2>2. CASE vendored
    <3>1. n = VendoredAt(entry)
      BY <1>6, <1>14, <2>2
    <3>2. code[1] = entry[1]
      <4>1. CASE by = << >>
        <5>1. Len(by) # 2
          BY <4>1
        <5> QED
          BY <1>4, <5>1
      <4>2. CASE by # << >>
        BY <1>4, <1>5, <1>12, <1>14, <3>1, <4>2
      <4> QED
        BY <4>1, <4>2
    <3>3. place.vendor = VendoredAt(entry)
      BY <1>3, <1>9, <3>2 DEF VendoredAt
    <3> QED
      BY <2>1, <2>2, <3>1, <3>3, LooksInCases DEF place
  <2>3. CASE ~vendored
    <3>1. n = place.cache
      BY <1>6, <1>9, <1>10, <1>14, <2>3
    <3> QED
      BY <2>1, <2>3, <3>1, LooksInCases DEF place
  <2> QED
    BY <2>2, <2>3
<1> QED
  BY <1>13, <1>14

\* A module is named as missing only where each place that is left for what is
\* built was empty at some moment (modules.go:43-45), whatever others change, in
\* every layout whose places are no links or files and whose vendor directory
\* holds nothing that a directory or another path replaces.
THEOREM MissingModulesWereAbsent ==
  ASSUME PlacesAreDirectories, RedirectedAreNotVendored
  PROVE  Spec => []MissingWasAbsent
<1>1. Bookkeeping /\ NotFoundWasAbsent => MissingWasAbsent
  <2> DEFINE requires == EntriesOf(GoModText, "require")
  <2> SUFFICES ASSUME Bookkeeping, NotFoundWasAbsent,
                      NEW k \in DOMAIN requires, Ships(GoModText, requires[k]) \in missing,
                      NEW n \in SourcesOf(requires[k]), n # NoDir
               PROVE  n \notin disk \ touched
    BY DEF MissingWasAbsent
  <2>1. Required[k] = Ships(GoModText, requires[k])
    <3>1. Required = Answers(GoModText)
      BY GoModAssumption, GoModsAssumption, GoModIsRead
    <3> QED
      BY <3>1 DEF Answers
  <2>2. AbsentOnce(Required[k])
    BY <2>1 DEF NotFoundWasAbsent
  <2>3. n = LooksIn(Required[k])
    BY PlacesAreLookedIn DEF Bookkeeping, TypeOK
  <2> QED
    BY <2>2, <2>3 DEF AbsentOnce
<1> QED
  BY <1>1, AlwaysAbsentWhereLookedFor, ModulesAreCountedOnce, PTL
=============================================================================

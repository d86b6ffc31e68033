----------------------------- MODULE ReplyParsing -----------------------------
(***************************************************************************)
(* parse_lead_json (app/parsing.py): the object found in a model's reply,  *)
(* and the grammars that say which object that should be.                  *)
(*                                                                         *)
(* A reply is a sequence of the tokens the code treats apart; a member of  *)
(* an object, a "key": value pair, is one token or a string or object (its *)
(* value).  Whitespace and lists are left out.                             *)
(***************************************************************************)
EXTENDS Naturals, Sequences, SequencesExt

CONSTANT NoObject   \* no reply is this

Open  == "open brace"
Close == "close brace"
Quote == "quote"
Slash == "backslash"
Comma == "comma"
Fence == "fence"
Member  == "member"    \* a pair JSON accepts, or letters in a string or in prose
Literal == "None"     \* one whose value is None, True or False in Python's spelling
Tokens == {Open, Close, Quote, Slash, Comma, Fence, Member, Literal}

ASSUME NoObjectAssumption == NoObject \notin Seq(Tokens)

\* 0 if there is none.
First(S) == IF S = {} THEN 0 ELSE Min(S)
Positions(t, token) == {i \in DOMAIN t : t[i] = token}

-----------------------------------------------------------------------------
\* The code.

\* What the first pair of fences holds, or all of it.
StripFences(t) ==
    LET fences == Positions(t, Fence)
        open   == First(fences)
        close  == First(fences \ {open})
    IN  IF close = 0 THEN t ELSE SubSeq(t, open + 1, close - 1)

Outside == [depth |-> 0, inString |-> FALSE, escaped |-> FALSE]

\* Mutant of Scanned: a backslash escapes nothing.
ScannedUnescaped(s, token) ==
    CASE token = Quote -> [s EXCEPT !.inString = ~@]
      [] ~s.inString /\ token = Open -> [s EXCEPT !.depth = @ + 1]
      [] ~s.inString /\ token = Close -> [s EXCEPT !.depth = @ - 1]
      [] OTHER -> s
Scanned(s, token) ==
    IF s.inString
    THEN CASE s.escaped -> [s EXCEPT !.escaped = FALSE]
           [] ~s.escaped /\ token = Slash -> [s EXCEPT !.escaped = TRUE]
           [] ~s.escaped /\ token = Quote -> [s EXCEPT !.inString = FALSE]
           [] OTHER -> s
    ELSE CASE token = Quote -> [s EXCEPT !.inString = TRUE]
           [] token = Open -> [s EXCEPT !.depth = @ + 1]
           [] token = Close -> [s EXCEPT !.depth = @ - 1]
           [] OTHER -> s

\* The state after each character from `start` on.
Scan(t, start) ==
    LET state[i \in start - 1 .. Len(t)] ==
            IF i < start THEN Outside ELSE Scanned(state[i - 1], t[i])
    IN  state
Closed(state) == ~state.inString /\ state.depth = 0

FindJsonObject(t) ==
    LET start == First(Positions(t, Open))
        ends  == {i \in start .. Len(t) : Closed(Scan(t, start)[i])}
    IN  IF start = 0 \/ ends = {} THEN NoObject ELSE SubSeq(t, start, Min(ends))

\* Mutant of Repair: commas are left.
RepairLiterals(t) == [i \in DOMAIN t |-> IF t[i] = Literal THEN Member ELSE t[i]]
\* Python literals become JSON's, a comma before a closing brace goes: anywhere,
\* in strings too.
Repair(t) ==
    LET repaired(i) == CASE t[i] = Literal -> <<Member>>
                         [] t[i] = Comma /\ i < Len(t) /\ t[i + 1] = Close -> <<>>
                         [] OTHER -> <<t[i]>>
    IN  FlattenSeq([i \in DOMAIN t |-> repaired(i)])

-----------------------------------------------------------------------------
\* The grammars.  A substring t[i..j] is derived from its parts.

\* In a string every quote between the two at its ends is escaped, the last one
\* is not: an odd number of backslashes stands before it or not.
Escaped(t, i, k) ==
    LET slashes == {n \in 0 .. k - i - 1 : \A m \in k - n .. k - 1 : t[m] = Slash}
    IN  Max(slashes) % 2 = 1
IsString(t, i, j) ==
    /\ i < j /\ t[i] = Quote /\ t[j] = Quote
    /\ ~Escaped(t, i, j)
    /\ \A k \in i + 1 .. j - 1 : t[k] = Quote => Escaped(t, i, k)

\* What of t from i to j may be: <<kind, i, j>>.
Spans(t, kinds) == kinds \X (1 .. Len(t) + 1) \X (0 .. Len(t))

\* An object whose braces balance, whatever else is in it; `body` is what may
\* stand between its braces.
BalancedRule(t, derives, kind, i, j) ==
    IF kind = "object"
    THEN i < j /\ t[i] = Open /\ t[j] = Close /\ derives[<<"body", i + 1, j - 1>>]
    ELSE \/ i > j
         \/ t[i] \notin {Open, Close, Quote} /\ derives[<<"body", i + 1, j>>]
         \/ \E k \in i + 1 .. j :
              /\ IsString(t, i, k) \/ derives[<<"object", i, k>>]
              /\ derives[<<"body", k + 1, j>>]
Balanced(t) ==
    LET derives[x \in Spans(t, {"object", "body"})] ==
            BalancedRule(t, derives, x[1], x[2], x[3])
    IN  derives
IsBalanced(t) == Balanced(t)[<<"object", 1, Len(t)>>]

\* What json.loads takes for an object: members between commas, and no escapes in
\* a string but those of quotes and backslashes.
IsJsonString(t, i, j) ==
    /\ IsString(t, i, j)
    /\ \A k \in i + 2 .. j - 1 : Escaped(t, i, k) => t[k] \in {Quote, Slash}
JsonRule(t, derives, kind, i, j) ==
    CASE kind = "object" ->
           /\ i < j /\ t[i] = Open /\ t[j] = Close
           /\ i + 1 = j \/ derives[<<"members", i + 1, j - 1>>]
      [] kind = "members" ->
           \/ derives[<<"member", i, j>>]
           \/ \E k \in i + 1 .. j - 1 :
                /\ t[k] = Comma
                /\ derives[<<"member", i, k - 1>>]
                /\ derives[<<"members", k + 1, j>>]
      [] kind = "member" ->
           \/ i = j /\ t[i] = Member
           \/ IsJsonString(t, i, j)
           \/ derives[<<"object", i, j>>]
Json(t) ==
    LET derives[x \in Spans(t, {"object", "members", "member"})] ==
            JsonRule(t, derives, x[1], x[2], x[3])
    IN  derives
IsJson(t) == Json(t)[<<"object", 1, Len(t)>>]

-----------------------------------------------------------------------------
\* The candidates, strict before repaired.
Strict(t) ==
    LET stripped  == StripFences(t)
        extracted == FindJsonObject(stripped)
    IN  IF extracted \in {NoObject, stripped} THEN <<stripped>> ELSE <<stripped, extracted>>
Repaired(candidates) == [i \in DOMAIN candidates |-> Repair(candidates[i])]

Candidates(t) == Strict(t) \o Repaired(Strict(t))

\* The first candidate json.loads makes an object of; NoObject is a parse error.
ParseLeadJson(t) ==
    LET candidates == Candidates(t)
        good == {i \in DOMAIN candidates : IsJson(candidates[i])}
    IN  IF good = {} THEN NoObject ELSE candidates[Min(good)]

-----------------------------------------------------------------------------
\* What it should do, whatever way it goes about it.

\* The text from i to j is where a reply is expected to have its object: with no brace
\* before it, in a reply without a pair of fences or in the first such pair.
Introduced(t, i, j) ==
    \/ /\ \A f, g \in Positions(t, Fence) : f = g
       /\ \A k \in 1 .. i - 1 : t[k] # Open
    \/ \E f \in 1 .. i - 1, g \in j + 1 .. Len(t) :
         /\ t[f] = Fence /\ t[g] = Fence
         /\ \A k \in 1 .. g - 1 : t[k] = Fence => k = f
         /\ \A k \in f + 1 .. i - 1 : t[k] # Open

\* An object but for Python's literals and a comma after its last member.
NearJsonRule(t, derives, kind, i, j) ==
    \/ JsonRule(t, derives, kind, i, j)
    \/ /\ kind = "object" /\ i + 2 < j
       /\ t[i] = Open /\ t[j - 1] = Comma /\ t[j] = Close
       /\ derives[<<"members", i + 1, j - 2>>]
    \/ kind = "member" /\ i = j /\ t[i] = Literal
NearJson(t) ==
    LET derives[x \in Spans(t, {"object", "members", "member"})] ==
            NearJsonRule(t, derives, x[1], x[2], x[3])
    IN  derives
IsNearJson(t) == NearJson(t)[<<"object", 1, Len(t)>>]

\* r is s with each literal respelled, and some commas before closing braces dropped.
Respelled(token) == IF token = Literal THEN Member ELSE token
BeforeClose(s) == {k \in Positions(s, Comma) : k < Len(s) /\ s[k + 1] = Close}
MendedFrom(s, r) ==
    \E dropped \in SUBSET BeforeClose(s) :
        /\ Len(r) = Len(s) - Cardinality(dropped)
        /\ \A k \in DOMAIN s \ dropped :
              r[k - Cardinality(dropped \cap 1 .. k)] = Respelled(s[k])
=============================================================================

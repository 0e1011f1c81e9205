------------------------ MODULE DecisionExtraction ------------------------
(***************************************************************************)
(* NemotronProvider._extract_json on answers of the model.  An answer is a *)
(* sequence of tokens; "text" is anything that is neither a brace nor a    *)
(* backtick, inside an object and outside.  White space, which the code    *)
(* strips or skips, is left out.                                           *)
(***************************************************************************)
EXTENDS Integers, Sequences, SequencesExt, FiniteSets

CONSTANT MaxTokens      \* bound: the length of an answer

VARIABLE content        \* the answer, one token longer at every step

Token == {"lbrace", "rbrace", "tick", "json", "text"}

Init == content = <<>>

Next == /\ Len(content) < MaxTokens
        /\ \E t \in Token : content' = Append(content, t)

Spec == Init /\ [][Next]_content

-----------------------------------------------------------------------------
(* A match of a pattern: the tokens of its group, and where the search     *)
(* goes on.                                                                *)
NoMatch == [from |-> 0, to |-> 0, next |-> 0]

Is(s, i, t) == i \in DOMAIN s /\ s[i] = t

Least(S) == CHOOSE i \in S : \A k \in S : i <= k

(* Mutated: a fenced object ends at its first }. *)
FencedToFirst(s, i) ==
    LET open == IF Is(s, i + 1, "json") THEN i + 2 ELSE i + 1
        ends == {k \in open + 1 .. Len(s) : Is(s, k, "rbrace")}
    IN  IF Is(s, i, "tick") /\ Is(s, open, "lbrace") /\ ends # {} /\ Is(s, Least(ends) + 1, "tick")
        THEN [from |-> open, to |-> Least(ends), next |-> Least(ends) + 2]
        ELSE NoMatch

(* A backtick, json or not, and an object up to a } before a backtick. *)
FencedAt(s, i) ==
    LET open == IF Is(s, i + 1, "json") THEN i + 2 ELSE i + 1
        ends == {k \in open + 1 .. Len(s) : Is(s, k, "rbrace") /\ Is(s, k + 1, "tick")}
    IN  IF Is(s, i, "tick") /\ Is(s, open, "lbrace") /\ ends # {}
        THEN [from |-> open, to |-> Least(ends), next |-> Least(ends) + 2]
        ELSE NoMatch

(* An object up to the first }. *)
BracedAt(s, i) ==
    LET ends == {k \in i + 1 .. Len(s) : Is(s, k, "rbrace")}
    IN  IF Is(s, i, "lbrace") /\ ends # {}
        THEN [from |-> i, to |-> Least(ends), next |-> Least(ends) + 1]
        ELSE NoMatch

(* re.findall, given the match at each place: from left to right, without  *)
(* overlaps.                                                               *)
FindAll(s, match) ==
    LET found[i \in 1 .. Len(s) + 2] ==
            IF i > Len(s) THEN <<>>
            ELSE IF match[i] = NoMatch THEN found[i + 1]
            ELSE <<SubSeq(s, match[i].from, match[i].to)>> \o found[match[i].next]
    IN  found[1]

Fences(s) == FindAll(s, [i \in DOMAIN s |-> FencedAt(s, i)])

(* Mutated: of several fenced objects the first is taken. *)
FirstFenced(matches) == Len(matches) > 0

OnlyOne(matches) == Len(matches) = 1

Error == <<>>

(* The result: a part of the answer, or AIDecisionError. *)
ExtractJson(s) ==
    LET fenced == Fences(s)
        braced == FindAll(s, [i \in DOMAIN s |-> BracedAt(s, i)])
    IN  IF Is(s, 1, "lbrace") /\ Is(s, Len(s), "rbrace") THEN s
        ELSE IF OnlyOne(fenced) THEN fenced[1]
        ELSE IF fenced = <<>> /\ OnlyOne(braced) THEN braced[1]
        ELSE Error

-----------------------------------------------------------------------------
(* What JSON asks for: a text is an object if its first brace is closed by *)
(* its last one.  (A backtick within an object is text of a string.)       *)
Depth(s, i) == Cardinality({k \in 1 .. i : s[k] = "lbrace"})
               - Cardinality({k \in 1 .. i : s[k] = "rbrace"})

IsObject(s) == /\ Is(s, 1, "lbrace")
               /\ Depth(s, Len(s)) = 0
               /\ \A i \in 1 .. Len(s) - 1 : Depth(s, i) > 0

(* decide: model_validate_json accepts objects only. *)
Decision(s) == IF IsObject(ExtractJson(s)) THEN ExtractJson(s) ELSE Error

(* The objects of an answer that are not part of another one. *)
ObjectsOf(s) == {o \in (1 .. Len(s)) \X (1 .. Len(s)) :
                    o[1] < o[2] /\ IsObject(SubSeq(s, o[1], o[2]))}

Outermost(s) == {o \in ObjectsOf(s) :
                    \A p \in ObjectsOf(s) \ {o} : ~(p[1] <= o[1] /\ o[2] <= p[2])}

(* Backticks within an object are within a string of it. *)
Inside(s, i) == \E o \in ObjectsOf(s) : o[1] < i /\ i < o[2]

FencesOutside(s) == \A i \in 1 .. Len(s) : s[i] = "tick" => ~Inside(s, i)

(* A decision is an outermost object of the answer, never a fragment of    *)
(* one; and if it is not fenced, it is the only one: between two the code  *)
(* does not choose.                                                        *)
DecisionIsWhole ==
    LET s == content
    IN  Decision(s) # Error /\ FencesOutside(s) =>
            /\ \E o \in Outermost(s) : SubSeq(s, o[1], o[2]) = Decision(s)
            /\ Fences(s) = <<>> => Cardinality(Outermost(s)) = 1

Ticks(s) == {i \in 1 .. Len(s) : s[i] = "tick"}

Braces(s) == {i \in 1 .. Len(s) : s[i] \in {"lbrace", "rbrace"}}

(* o is the only object of s, and no brace is outside of it. *)
Lone(s, o) == IsObject(SubSeq(s, o[1], o[2])) /\ Braces(s) \subseteq o[1] .. o[2]

Fenced(s, o) ==
    LET first == IF Is(s, o[1] - 1, "json") THEN o[1] - 2 ELSE o[1] - 1
    IN  first > 0 /\ Ticks(s) = {first, o[2] + 1}

Found(o) == Lone(content, o) => Decision(content) = SubSeq(content, o[1], o[2])

(* "markdown fences or surrounding text": a lone object is found if it is  *)
(* fenced, whatever it contains, or if it contains no other object.        *)
FencedOrFlatIsFound ==
    \A o \in ObjectsOf(content) :
        Fenced(content, o) \/ (Ticks(content) = {} /\ Cardinality(Braces(content)) = 2)
            => Found(o)
=============================================================================

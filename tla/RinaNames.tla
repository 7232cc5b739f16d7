------------------------------- MODULE RinaNames -------------------------------
(***************************************************************************)
(* The RINA name helpers of common/serdes-utils.c: rina_sername_valid,     *)
(* rina_name_to_string, rina_name_from_string (strsep over ':'),           *)
(* rina_name_fill, rina_name_cmp and rina_name_valid.  A C string is a     *)
(* sequence of characters and NULL is the model value Null; a struct name  *)
(* is a record of its four components.                                     *)
(*                                                                         *)
(* The helpers are pure; a caller hands them one input at a time (call),   *)
(* and the properties compare their results with reference definitions    *)
(* for that input, so a counterexample names the offending input.          *)
(***************************************************************************)
EXTENDS Naturals, Sequences, SequencesExt

CONSTANTS
    Colon,      \* the character ':'
    Letters,    \* the other characters names are made of
    MaxStrLen,  \* longest string the checks enumerate
    Null        \* a NULL char *

VARIABLE call   \* the input a caller has handed the name helpers

Fields == <<"process_name", "process_instance", "entity_name", "entity_instance">>

IsColon(c) == c = Colon
Present(s) == s # Null /\ Len(s) > 0
StrOrEmpty(s) == IF s = Null THEN <<>> ELSE s

\* Mutant: the colon count is post-incremented (cnt++ > 3), letting a
\* fourth colon through.
RinaSernameValidFourColons(str) ==
    /\ Present(str)
    /\ Len(SelectSeq(str, IsColon)) <= 4
    /\ str[1] # Colon

\* rina_sername_valid: non-empty, at most three ':' (the loop returns at the
\* fourth) and not starting with ':'.
RinaSernameValid(str) ==
    /\ Present(str)
    /\ Len(SelectSeq(str, IsColon)) <= 3
    /\ str[1] # Colon

\* __rina_name_to_string: the four components, NULL as empty, joined by ':'.
RinaNameToString(n) ==
    StrOrEmpty(n.process_name) \o <<Colon>> \o StrOrEmpty(n.process_instance)
        \o <<Colon>> \o StrOrEmpty(n.entity_name) \o <<Colon>> \o StrOrEmpty(n.entity_instance)

\* strsep(strp, ":"): the token before the first ':' and the rest after it;
\* NULL once the string is used up.
Strsep(rest) ==
    IF rest = Null THEN [tok |-> Null, rest |-> Null]
    ELSE LET i == SelectInSeq(rest, IsColon)
         IN IF i = 0 THEN [tok |-> rest, rest |-> Null]
            ELSE [tok |-> SubSeq(rest, 1, i - 1), rest |-> SubSeq(rest, i + 1, Len(rest))]

\* Mutant: an empty component is kept as "" instead of NULL.
RinaNameFillKeepsEmpty(apn, api, aen, aei) ==
    [process_name |-> apn, process_instance |-> api,
     entity_name |-> aen, entity_instance |-> aei]

\* __rina_name_fill: each component is duplicated when present and
\* non-empty, else NULL.
RinaNameFill(apn, api, aen, aei) ==
    LET dup(s) == IF Present(s) THEN s ELSE Null
    IN [process_name |-> dup(apn), process_instance |-> dup(api),
        entity_name |-> dup(aen), entity_instance |-> dup(aei)]

\* __rina_name_from_string: four strsep calls on a copy of str, then fill;
\* anything after a fourth ':' is dropped.  apn is never NULL for a
\* non-NULL str, so the -1 return is not taken.
RinaNameFromString(str) ==
    LET s1 == Strsep(str)
        s2 == Strsep(s1.rest)
        s3 == Strsep(s2.rest)
        s4 == Strsep(s3.rest)
    IN RinaNameFill(s1.tok, s2.tok, s3.tok, s4.tok)

\* Mutant: the comparison stops after entity_name (copy-paste slip).
RinaNameCmpSkipsInstance(one, two) ==
    IF \E i \in 1..3 : one[Fields[i]] # two[Fields[i]] THEN -1 ELSE 0

\* rina_name_cmp: -1 as soon as a component is NULL in one name only or the
\* two strings differ, else 0.
RinaNameCmp(one, two) ==
    LET differs(a, b) == (a = Null) # (b = Null) \/ (a # Null /\ a # b)
    IN IF \E i \in 1..4 : differs(one[Fields[i]], two[Fields[i]]) THEN -1 ELSE 0

\* Mutant: only a NULL process name is rejected.
RinaNameValidNonNull(n) == n.process_name # Null

\* rina_name_valid: the process name is present and non-empty.
RinaNameValid(n) == Present(n.process_name)

(***************************************************************************)
(* Reference definitions                                                   *)
(***************************************************************************)

\* The ':'-separated fields of a string (the name string form of the
\* design: processName:processInstance:entityName:entityInstance).
RECURSIVE SplitFields(_)
SplitFields(s) ==
    LET i == SelectInSeq(s, IsColon)
    IN IF i = 0 THEN <<s>>
       ELSE <<SubSeq(s, 1, i - 1)>> \o SplitFields(SubSeq(s, i + 1, Len(s)))

\* The name a component-wise comparison should see: an empty component is
\* the same as an absent one.
NormName(n) == [k \in DOMAIN n |-> IF n[k] = <<>> THEN Null ELSE n[k]]

\* The bounded inputs: strings over Letters and ':', and names whose
\* components are NULL, "" or one letter.
NameStrs == UNION {[1..k -> Letters \cup {Colon}] : k \in 0..MaxStrLen}
Component == {Null, <<>>} \cup {<<c>> : c \in Letters}
Names == [process_name : Component, process_instance : Component,
          entity_name : Component, entity_instance : Component]

\* What a caller may hand the helpers: a name, a pair of names, or a
\* non-empty name string.
NoCall == [op |-> "none"]
Calls == [op : {"name"}, one : Names]
           \cup [op : {"cmp"}, one : Names, two : Names]
           \cup [op : {"str"}, str : NameStrs \ {<<>>}]

CallInit == call = NoCall

CallNameHelper(c) ==
    /\ call = NoCall
    /\ call' = c

NameHelperReturns ==
    /\ call # NoCall
    /\ call' = NoCall

(***************************************************************************)
(* Properties, over every input a caller can hand the helpers             *)
(***************************************************************************)

\* rina_name_from_string undoes rina_name_to_string: a name printed and
\* parsed back compares equal (rina_name_cmp) to the original, an empty
\* component coming back as NULL.
NameStringRoundTrip ==
    call.op = "name" =>
        RinaNameCmp(RinaNameFromString(RinaNameToString(call.one)), NormName(call.one)) = 0

\* rina_sername_valid accepts exactly the strings with at most four
\* ':'-separated fields of which the first (the process name) is non-empty.
SernameValidMeansFields ==
    call.op = "str" =>
        (RinaSernameValid(call.str) <=>
            Len(SplitFields(call.str)) <= 4 /\ SplitFields(call.str)[1] # <<>>)

\* rina_name_valid and rina_sername_valid agree: a name is valid exactly
\* when its string form is a valid name string.
ValidNameValidString ==
    call.op = "name" =>
        (RinaNameValid(call.one) <=> RinaSernameValid(RinaNameToString(call.one)))

\* rina_name_cmp returns 0 exactly for equal names (NULL and "" differ).
CmpIsEquality ==
    call.op = "cmp" => ((RinaNameCmp(call.one, call.two) = 0) <=> call.one = call.two)
=============================================================================

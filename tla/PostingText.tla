------------------------------ MODULE PostingText ------------------------------
(***************************************************************************)
(* What is read out of the text of a posting: html_to_text, the split of   *)
(* the lines into required and preferred, the pay, the remote mode and the *)
(* employment type. A description is a sequence of tokens: a piece of text *)
(* named for the line it would be on its own, or a tag named for what the  *)
(* extractor does with it; a line is the sequence of positions of its      *)
(* pieces. Which words are looked for is left out, what each word means is *)
(* not.                                                                    *)
(***************************************************************************)
EXTENDS Integers, FiniteSets, SequencesExt

CONSTANTS
    Tokens,      \* the tokens a description is made of
    MaxTokens,   \* bound: the length of a description
    Pays         \* the pay a description may state: [form, low, high, thousands]

VARIABLE reading
\* reading.source, .tokens, .pay, .workplace, .place, .mentioned, .given: the posting;
\* .job: what build_job made of it, once .job.stage is "built"

Headings == {"required_heading", "preferred_heading"}
Pieces == Headings \cup {"bullet", "line"}
Tags == {"block", "skip", "end_skip", "void"}

\* A pay that is no range is one number.
ASSUME TextAssumption ==
    /\ Tokens \subseteq Pieces \cup Tags /\ MaxTokens \in Nat
    /\ \A pay \in Pays : /\ pay.low \in Nat /\ pay.high \in Nat /\ pay.thousands \in BOOLEAN
                         /\ pay.form \in {"single", "hourly"} => pay.high = pay.low

-----------------------------------------------------------------------------
(* _TextExtractor: "block" breaks the line, "skip" and "end_skip" are the  *)
(* tags of a nested element that is left out, "void" is a meta or link tag *)
(* that opens and, like every void element, never closes. A blank line is  *)
(* no line.                                                                *)
LineBroken(s) ==
    IF s.line = <<>> THEN s ELSE [s EXCEPT !.lines = Append(s.lines, s.line), !.line = <<>>]

ClosedUnguarded(skip_depth) == skip_depth - 1
Closed(skip_depth) == IF skip_depth > 0 THEN skip_depth - 1 ELSE skip_depth

Feed(s, i, token) ==
    IF token = "block" THEN LineBroken(s)
    ELSE IF token \in {"skip", "void"} THEN [s EXCEPT !.skip_depth = @ + 1]
    ELSE IF token = "end_skip" THEN [s EXCEPT !.skip_depth = Closed(@)]
    ELSE IF s.skip_depth = 0 THEN [s EXCEPT !.line = Append(s.line, i)] ELSE s

\* What is known after each token.
Fed(tokens) ==
    LET after[n \in 0..Len(tokens)] ==
            IF n = 0 THEN [skip_depth |-> 0, lines |-> <<>>, line |-> <<>>]
            ELSE Feed(after[n - 1], n, tokens[n])
    IN  after

\* Text without a tag passes through.
html_to_text(tokens) == LineBroken(Fed(tokens)[Len(tokens)]).lines

\* A heading stands alone on its line; a bullet is at the start of its line.
is_heading(tokens, line) == Len(line) = 1 /\ tokens[line[1]] \in Headings
is_bullet(tokens, line) == tokens[line[1]] = "bullet"

FlushedAsRequired(s) == [s EXCEPT !.required = s.required \o s.buffer, !.buffer = <<>>]
flush(s) ==
    IF s.section = "preferred"
    THEN [s EXCEPT !.preferred = s.preferred \o s.buffer, !.buffer = <<>>]
    ELSE [s EXCEPT !.required = s.required \o s.buffer, !.buffer = <<>>]

Classify(s, tokens, line) ==
    LET flushed == flush(s) IN
    IF is_heading(tokens, line)
    THEN [flushed EXCEPT !.section =
             IF tokens[line[1]] = "required_heading" THEN "required" ELSE "preferred"]
    ELSE IF is_bullet(tokens, line)
    THEN IF s.section = "preferred"
         THEN [flushed EXCEPT !.preferred = Append(flushed.preferred, line)]
         ELSE [flushed EXCEPT !.section = "required",
                              !.required = Append(flushed.required, line)]
    ELSE IF s.section # "none" THEN [s EXCEPT !.buffer = Append(s.buffer, line)]
    ELSE [s EXCEPT !.required = Append(s.required, line)]

\* What is known after each line.
Classified(tokens, lines) ==
    LET after[n \in 0..Len(lines)] ==
            IF n = 0 THEN [section |-> "none", required |-> <<>>, preferred |-> <<>>, buffer |-> <<>>]
            ELSE Classify(after[n - 1], tokens, lines[n])
    IN  after

split_requirements(tokens, lines) ==
    LET last == flush(Classified(tokens, lines)[Len(lines)])
    IN  [required |-> last.required, preferred |-> last.preferred]

-----------------------------------------------------------------------------
NoPay == [minimum |-> 0, maximum |-> 0, period |-> "none"]

\* Compensation._ordered: both ends become the lower one when they are swapped.
Ordered(low, high, period) ==
    [minimum |-> IF low > high THEN high ELSE low, maximum |-> high, period |-> period]

(* parse_compensation tries its patterns in turn. The first one asks for   *)
(* two numbers with at least one character between them, and takes digits  *)
(* for that character: a single number of three digits or more is read as  *)
(* a range, of all but its last two digits up to its last one, and only    *)
(* the last one is scaled by the suffix. A range of hourly rates is found  *)
(* by the same pattern, before the hourly one. (The figure on its own:     *)
(* words and numbers that follow it are left out.)                         *)
parse_compensation(pay) ==
    LET scale == IF pay.thousands THEN 1000 ELSE 1 IN
    CASE pay.form = "none" -> NoPay
      [] pay.form \in {"range", "hourly_range"} ->
            Ordered(pay.low * scale, pay.high * scale, "yearly")
      [] pay.form \in {"single", "hourly"} /\ pay.low >= 100 ->
            Ordered(pay.low \div 100, (pay.low % 10) * scale, "yearly")
      [] pay.form = "single" /\ pay.low < 100 ->
            IF pay.thousands
            THEN [minimum |-> pay.low * scale, maximum |-> 0, period |-> "yearly"] ELSE NoPay
      [] pay.form = "hourly" /\ pay.low \in 10..99 ->
            [minimum |-> pay.low, maximum |-> 0, period |-> "hourly"]
      [] OTHER -> NoPay

\* The hint of the source, then the location, then the description.
infer_remote_mode(hint, place, mentioned) ==
    IF hint # "unknown" THEN hint ELSE IF place # "unknown" THEN place ELSE mentioned

\* The plugin's value counts even when it is "unknown": only none is inferred.
infer_employment(given, mentioned) == IF given # "none" THEN given ELSE mentioned

-----------------------------------------------------------------------------
\* lever: the workplace type, which stands for the commitment when there is no
\* other; greenhouse: its location names remote work or it says nothing.
lever_remote(workplace) == workplace
greenhouse_remote(place) == IF place = "remote" THEN "remote" ELSE "unknown"

Modes == {"unknown", "remote", "hybrid", "onsite"}

\* What a plugin says of the employment type: greenhouse never knows it, lever
\* knows or does not, and a local feed says it or says nothing.
Given(source) ==
    CASE source = "greenhouse" -> {"unknown"}
      [] source = "lever" -> {"unknown", "full_time"}
      [] source = "local_feed" -> {"none", "full_time"}

\* A long description is read for its lines, a short one for the rest.
TextInit ==
    \E tokens \in BoundedSeq(Tokens, MaxTokens), pay \in Pays, workplace \in Modes,
       place \in Modes, mentioned \in Modes, source \in {"lever", "greenhouse", "local_feed"} :
    \E given \in Given(source) :
        /\ Len(tokens) > 1 => /\ pay.form = "none" /\ source = "lever" /\ given = "unknown"
                              /\ <<workplace, place, mentioned>> = <<"unknown", "unknown", "unknown">>
        /\ source = "greenhouse" => workplace = "unknown"
        /\ reading = [source |-> source, tokens |-> tokens, pay |-> pay,
                      workplace |-> workplace, place |-> place, mentioned |-> mentioned,
                      given |-> given, job |-> [stage |-> "new"]]

build_job ==
    /\ reading.job.stage = "new"
    /\ LET lines == html_to_text(reading.tokens)
           hint == CASE reading.source = "lever" -> lever_remote(reading.workplace)
                     [] reading.source = "greenhouse" -> greenhouse_remote(reading.place)
                     [] OTHER -> reading.workplace
       IN  reading' = [reading EXCEPT !.job =
              [stage |-> "built", lines |-> lines,
               requirements |-> split_requirements(reading.tokens, lines),
               compensation |-> parse_compensation(reading.pay),
               remote_mode |-> infer_remote_mode(hint, reading.place, reading.mentioned),
               employment_type |-> infer_employment(reading.given, "part_time")]]

TextSpec == TextInit /\ [][build_job]_reading

-----------------------------------------------------------------------------
\* An element that is left out was opened before i and is still open there: from its tag
\* on, more are opened than closed.
Count(tokens, tag, first, last) == Cardinality({j \in first..last : tokens[j] = tag})
LeftOut(tokens, i) ==
    \E k \in 1..(i - 1) : \A m \in k..(i - 1) :
        Count(tokens, "end_skip", k, m) < Count(tokens, "skip", k, m)
Shown(tokens) == {i \in DOMAIN tokens : tokens[i] \in Pieces /\ ~LeftOut(tokens, i)}

Places(lines) == UNION {Range(lines[n]) : n \in DOMAIN lines}
InReadingOrder(lines) ==
    /\ \A n \in DOMAIN lines : lines[n] # <<>>
    /\ \A n \in DOMAIN lines : \A a, b \in DOMAIN lines[n] : a < b => lines[n][a] < lines[n][b]
    /\ \A m, n \in DOMAIN lines : m < n =>
          \A p \in Range(lines[m]), q \in Range(lines[n]) : p < q

\* Two pieces are on one line unless a block begins or ends between them.
BrokenByBlocks(tokens, lines) ==
    \A p, q \in Places(lines) : p < q =>
        ((\E n \in DOMAIN lines : {p, q} \subseteq Range(lines[n]))
            <=> \A j \in p..q : tokens[j] # "block")

\* The section a line stands in: that of the last heading above it, and
\* before any heading the required one.
Preferred(tokens, lines, n) ==
    \E k \in 1..(n - 1) :
        /\ is_heading(tokens, lines[k]) /\ tokens[lines[k][1]] = "preferred_heading"
        /\ \A j \in (k + 1)..(n - 1) : ~is_heading(tokens, lines[j])

\* The sequence holds these of the lines, each once and in their order.
Lists(listed, lines, positions) ==
    /\ Range(listed) = {lines[n] : n \in positions}
    /\ \A a, b \in DOMAIN listed : a < b => listed[a][1] < listed[b][1]

(* No word of a posting is lost or moved: every piece of text outside the  *)
(* left-out elements is on one line, the one its blocks give it, and every *)
(* line that is not a heading is listed once, in order, under the heading  *)
(* it stands below; the pay that is read is never more than the pay that   *)
(* is stated. Descriptions with a void tag may lose what follows it        *)
(* (html_to_text, split_requirements, parse_compensation).                 *)
PostingIsReadAsWritten ==
    reading.job.stage = "built" =>
    LET tokens == reading.tokens
        lines == reading.job.lines
        below == {n \in DOMAIN lines : ~is_heading(tokens, lines[n])}
        preferred == {n \in below : Preferred(tokens, lines, n)}
        stated == reading.pay.high * (IF reading.pay.thousands THEN 1000 ELSE 1)
    IN
    /\ "void" \notin Range(tokens) => Places(lines) = Shown(tokens)
    /\ InReadingOrder(lines) /\ BrokenByBlocks(tokens, lines)
    /\ Lists(reading.job.requirements.required, lines, below \ preferred)
    /\ Lists(reading.job.requirements.preferred, lines, preferred)
    /\ reading.job.compensation.maximum <= stated
=============================================================================

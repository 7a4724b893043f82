----------------------------- MODULE IgnoreRules ----------------------------
(***************************************************************************)
(* The rules file: how it is read, how a rule is matched against a path,   *)
(* how the row menu writes a rule and how the rows follow (the code of     *)
(* ignore_patterns.c, on_menu.c:73-167, on_tree.c:118-192, update.c:609-   *)
(* 669 and the matching of an analysis, work.c:250-268).                   *)
(*                                                                         *)
(* A path and a line are sequences of characters; the path of a directory  *)
(* ends in a slash.  The file is a sequence of lines and whether the last  *)
(* one is ended.  The pattern of a row is the text it was given when it    *)
(* was matched.  That text is freed when the rules are loaded again while  *)
(* the row keeps its address (dangling): the row still counts as ignored,  *)
(* and why is then the text that is no longer there to show.               *)
(* One menu action is under way at a time: the message that follows the    *)
(* append is handled before the menu is opened again.                      *)
(***************************************************************************)
EXTENDS Glob, SequencesExt

CONSTANTS Paths,       \* the names on the disk, in either tree
          Files,       \* the contents the file may start with
          Edits,       \* the contents the user's editor may leave
          MaxRules     \* bound: the menu adds no rule to a longer file

ASSUME PathsAreRelative ==
  \A p \in Paths : p \in Seq(STRING) /\ Len(p) > 0 /\ p[1] # SLASH
ASSUME FilesAreLines ==
  Files \union Edits \subseteq [lines : Seq(Seq(STRING)), ended : BOOLEAN]

VARIABLES
  file,      \* the rules file
  rules,     \* cecup.ignore_patterns
  shown,     \* the paths that have a row
  why,       \* the pattern of a row, or None
  dangling,  \* the rows whose pattern was freed
  message,   \* MSG_IGNORE_PATTERN is on its way
  current    \* history: the rows were matched with what the file says

vars == <<file, rules, shown, why, dangling, message, current>>

None == <<>>
Kinds == {"extension", "folder", "path", "name"}

is_dir(path) == Last(path) = SLASH

-----------------------------------------------------------------------------
(* Matching.                                                               *)

(* The loop of work_match_pattern goes through pattern and string side by  *)
(* side.  Where it is stuck, the last star takes one character more.  Then *)
(* star_p is its place in the pattern, 0 before the first star.            *)
LoopStates(pat, str) ==
  {st \in [p : 1..(Len(pat) + 1), s : 1..(Len(str) + 1),
           star_p : 0..Len(pat), star_s : 0..(Len(str) + 1)] :
     st.star_p < st.p /\ st.star_s <= st.s}

at_star(pat, st) == st.p <= Len(pat) /\ pat[st.p] = STAR
same(pat, str, st) == st.p <= Len(pat) /\ pat[st.p] = str[st.s]

(* Plausible bug: a bounded star gives up at the slash the loop is at.     *)
gives_up_early(str, bounded, st) ==
  st.star_p = 0 \/ (bounded /\ str[st.s] = SLASH)

gives_up(str, bounded, st) ==
  st.star_p = 0 \/ (bounded /\ str[st.star_s] = SLASH)

over(pat, str, bounded, st) ==
  \/ st.s > Len(str)
  \/ ~at_star(pat, st) /\ ~same(pat, str, st) /\ gives_up(str, bounded, st)

turn(pat, str, st) ==
  IF at_star(pat, st) THEN [st EXCEPT !.p = @ + 1, !.star_p = st.p, !.star_s = st.s]
  ELSE IF same(pat, str, st) THEN [st EXCEPT !.p = @ + 1, !.s = @ + 1]
  ELSE [st EXCEPT !.p = st.star_p + 1, !.s = st.star_s + 1, !.star_s = @ + 1]

(* The state in which the loop ends that is in state st.                   *)
match_end(pat, str, bounded) ==
  LET ends[st \in LoopStates(pat, str)] ==
        IF over(pat, str, bounded, st) THEN st ELSE ends[turn(pat, str, st)]
  IN  ends

match_loop(pat, str, bounded) ==
  LET st == match_end(pat, str, bounded)[[p |-> 1, s |-> 1, star_p |-> 0, star_s |-> 0]]
  IN  st.s > Len(str) /\ \A k \in st.p..Len(pat) : pat[k] = STAR

Slashes(path) == {j \in 1..Len(path) : path[j] = SLASH}

(* The components of a path: what lies between two slashes.                *)
Components(path) ==
  {c \in (1..Len(path)) \X (1..Len(path)) :
     /\ c[1] <= c[2]
     /\ Slashes(path) \cap (c[1]..c[2]) = {}
     /\ c[1] = 1 \/ c[1] - 1 \in Slashes(path)
     /\ c[2] = Len(path) \/ c[2] + 1 \in Slashes(path)}

(* ignore_pattern_match_single: a rule with a slash is held against the    *)
(* whole path, then against every directory above it; a rule without one   *)
(* against every component.                                                *)
match_single(r, path) ==
  LET enough == ~r.dir_only \/ is_dir(path)
  IN  IF r.has_slash
      THEN IF match_loop(r.match, path, TRUE) THEN enough
           ELSE \E j \in Slashes(path) :
                  match_loop(r.match, SubSeq(path, 1, j - 1), TRUE)
      ELSE \E c \in Components(path) :
             /\ match_loop(r.match, SubSeq(path, c[1], c[2]), FALSE)
             /\ c[2] < Len(path) \/ enough

-----------------------------------------------------------------------------
(* The file.                                                               *)

Rule(line) ==
  LET dir == line # <<>> /\ Last(line) = SLASH
      str == IF dir THEN Front(line) ELSE line
  IN  [text |-> line, dir_only |-> dir,
       has_slash |-> SLASH \in ToSet(str),
       match |-> IF str # <<>> /\ Head(str) = SLASH THEN Tail(str) ELSE str]

IsRule(line) == line # <<>> /\ Head(line) # "#"

(* The rules of the first n lines.                                         *)
Loaded(f) ==
  LET loaded[n \in 0..Len(f.lines)] ==
        IF n = 0 THEN <<>>
        ELSE IF IsRule(f.lines[n]) THEN Append(loaded[n - 1], Rule(f.lines[n]))
        ELSE loaded[n - 1]
  IN  loaded

Load(f) == Loaded(f)[Len(f.lines)]

(* Plausible bug: the line is written where the file ends.                 *)
write_blindly(f, line) ==
  [lines |-> IF f.ended \/ f.lines = <<>> THEN Append(f.lines, line)
             ELSE Append(Front(f.lines), Last(f.lines) \o line),
   ended |-> TRUE]

(* on_menu_append_ignore_pattern: a last line without its end gets one.    *)
append_pattern(f, line) ==
  [lines |-> Append(f.lines, line), ended |-> TRUE]

-----------------------------------------------------------------------------
(* The rules of the row menu.                                              *)

(* The name of a path, with the slash of a directory, and what is before.  *)
name_at(path) ==
  LET above == {j \in Slashes(path) : j < Len(path)}
  IN  IF above = {} THEN 1 ELSE 1 + CHOOSE j \in above : \A k \in above : k <= j

basename(path) == SubSeq(path, name_at(path), Len(path))
dirname(path) == SubSeq(path, 1, name_at(path) - 2)

Dots(name) == {i \in 2..Len(name) : name[i] = "."}

Offered(path, kind) ==
  CASE kind = "extension" -> Dots(basename(path)) # {}
    [] kind = "folder" -> name_at(path) > 1
    [] OTHER -> TRUE

(* The folder's rule is formatted with the length of the whole path, so    *)
(* the text ends at the end of the name of the folder: the slash that      *)
(* would follow is lost (on_tree.c:163-167; "%.*s" of cbase writes exactly *)
(* as many bytes as it is told, the zero after the name among them).       *)
menu_rule(path, kind) ==
  LET name == basename(path)
      dot == CHOOSE i \in Dots(name) : \A k \in Dots(name) : k <= i
  IN  CASE kind = "extension" -> <<STAR>> \o SubSeq(name, dot, Len(name))
        [] kind = "folder" -> <<SLASH>> \o dirname(path)
        [] kind = "path" -> <<SLASH>> \o path
        [] kind = "name" -> <<STAR, SLASH>> \o name

-----------------------------------------------------------------------------
(* The steps.                                                              *)

(* The first rule that matches a path, as an analysis takes it.            *)
first_match(rs, path) ==
  LET hits == {i \in 1..Len(rs) : match_single(rs[i], path)}
  IN  IF hits = {} THEN None
      ELSE rs[CHOOSE i \in hits : \A k \in hits : i <= k].text

Above(d, path) == is_dir(d) /\ d # path /\ IsStrictPrefix(d, path)

Ignored == {p \in shown : why[p] # None}

Init ==
  /\ file \in Files
  /\ rules = <<>>
  /\ shown = {}
  /\ why = [p \in Paths |-> None]
  /\ dangling = {}
  /\ message = FALSE
  /\ current = TRUE

(* The user's editor leaves another file.                                  *)
Edit ==
  /\ file' \in Edits
  /\ file' # file
  /\ current' = FALSE
  /\ UNCHANGED <<rules, shown, why, dangling, message>>

(* An analysis reads the file, or fails to and goes on without rules, and  *)
(* lists both trees anew: a directory that matches is not entered.  Its    *)
(* end reaches the rows after a message sent before it; what happens when  *)
(* the message comes in its middle is the subject of WorkControl.          *)
Analyse(read) ==
  LET rs == IF read THEN Load(file) ELSE <<>>
      matched == [p \in Paths |-> first_match(rs, p)]
      listed == {p \in Paths : \A d \in Paths : Above(d, p) => matched[d] = None}
  IN  /\ ~message
      /\ rules' = rs
      /\ shown' = listed
      /\ why' = [p \in Paths |-> IF p \in listed THEN matched[p] ELSE None]
      /\ dangling' = {}
      /\ current' = read
      /\ UNCHANGED <<file, message>>

(* The menu appends a rule for a row; when the append fails nothing        *)
(* follows, though the end of the last line may have been written.         *)
Ignore(path, kind) ==
  /\ path \in shown
  /\ Offered(path, kind)
  /\ ~message
  /\ Len(file.lines) < MaxRules
  /\ file' = append_pattern(file, menu_rule(path, kind))
  /\ message' = TRUE
  /\ UNCHANGED <<rules, shown, why, dangling, current>>

IgnoreFails ==
  /\ shown # {}
  /\ ~message
  /\ ~file.ended
  /\ file' = [file EXCEPT !.ended = TRUE]
  /\ UNCHANGED <<rules, shown, why, dangling, message, current>>

(* Plausible bug: the rows are held against the first rule.                *)
first_matches(rs) ==
  {p \in shown : rs # <<>> /\ match_single(Head(rs), p)}

(* update_row_ignore: the old rules are freed, their texts with them, the  *)
(* file is read again, and the rows are held against the last rule only:   *)
(* an ignored row that it does not match is left with a freed text.        *)
last_matches(rs) ==
  {p \in shown : rs # <<>> /\ match_single(Last(rs), p)}

RowsFollow(read) ==
  LET rs == IF read THEN Load(file) ELSE <<>>
      hit == last_matches(rs)
  IN  /\ message
      /\ rules' = rs
      /\ why' = [p \in Paths |-> IF p \in hit THEN Last(rs).text ELSE why[p]]
      /\ dangling' = Ignored \ hit
      /\ message' = FALSE
      /\ current' = (current /\ read)
      /\ UNCHANGED <<file, shown>>

Next ==
  \/ Edit
  \/ \E read \in BOOLEAN : Analyse(read) \/ RowsFollow(read)
  \/ \E path \in Paths, kind \in Kinds : Ignore(path, kind)
  \/ IgnoreFails

Spec == Init /\ [][Next]_vars

-----------------------------------------------------------------------------
(* Properties.                                                             *)

TypeOK ==
  /\ \A i \in 1..Len(rules) : Len(rules[i].text) > 0
  /\ shown \subseteq Paths
  /\ DOMAIN why = Paths
  /\ dangling \subseteq Ignored
  /\ message \in BOOLEAN /\ current \in BOOLEAN /\ file.ended \in BOOLEAN

(* The loop with its single star to go back to gives the answer of the     *)
(* definition, on every path, on every directory above it and on every     *)
(* component, whether or not a star may take a slash: going back to the    *)
(* last star only, and giving up when it meets a slash, loses no match.    *)
LoopIsGlob ==
  \A i \in 1..Len(rules), p \in Paths, bounded \in BOOLEAN :
    \A c \in {<<1, j - 1>> : j \in Slashes(p)} \union {<<1, Len(p)>>}
              \union Components(p) :
      LET str == SubSeq(p, c[1], c[2])
      IN  match_loop(rules[i].match, str, bounded)
            <=> Matches(rules[i].match, str, bounded)

(* The rows agree with the file: after the menu has added a rule and only  *)
(* the last rule was tried, a row is ignored exactly if an analysis of the *)
(* file would ignore it.  What it shows is a rule that matches it, unless  *)
(* the text it shows was freed by the message (ignore_patterns.c:34-37;    *)
(* TipHasPattern below).  No rule is empty, which the loading relies on    *)
(* when it looks at the last character of a line (ignore_patterns.c:117).  *)
RowsAgree ==
  /\ TypeOK
  /\ current /\ ~message =>
       \A p \in shown :
         /\ (why[p] # None) <=> (first_match(Load(file), p) # None)
         /\ why[p] # None /\ p \notin dangling =>
               \E i \in 1..Len(rules) : rules[i].text = why[p] /\ match_single(rules[i], p)

(* The menu adds one rule and keeps those there are, in their order, even  *)
(* to a file whose last line is not ended.                                 *)
RuleIsAdded ==
  [][message' /\ ~message =>
       /\ Len(Load(file')) = Len(Load(file)) + 1
       /\ Front(Load(file')) = Load(file)]_vars

(* The README says of the rule by name that it "matches any file with the  *)
(* same basename" (README.md:63): once the rules hold the rule that the    *)
(* menu writes for a name, every row with that name is ignored.            *)
NameRuleMatches ==
  current /\ ~message =>
    \A i \in 1..Len(rules) : \A p, q \in shown :
      rules[i].text = menu_rule(p, "name") /\ basename(q) = basename(p)
        => why[q] # None

(* The tip of an ignored row reads "Matches an ignore pattern (pattern:    *)
(* ...)" (cecup.h:276, on_tree.c:408): there is such a pattern to print.   *)
TipHasPattern == dangling = {}
=============================================================================

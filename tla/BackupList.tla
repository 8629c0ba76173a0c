------------------------------ MODULE BackupList ------------------------------
(***************************************************************************)
(* The directory of backups of internal/server/config_workflow.go: how a   *)
(* backup is named, written, listed and read back.  A save names its       *)
(* backup after the nanosecond it starts in and the reason it was given;   *)
(* the list is ordered by the second the file was last written in, by an   *)
(* unstable sort, and cut; a rollback names an entry of a list that may    *)
(* be old by then.  Saves exclude one another (ConfigStore shows it), so   *)
(* one of them is under way at a time; lists are made at any moment.       *)
(*                                                                         *)
(* A name is [id, slug]: the timestamp, three runes (its second, a dot and *)
(* its nanoseconds), and the reason.  A timestamp has no "_", so two names *)
(* are one file if and only if they are equal.                             *)
(***************************************************************************)
EXTENDS Normalizer, Integers, FiniteSets, SequencesExt, TLC

CONSTANTS
  Contents,   \* the files a save may propose, all of them loadable
  Torn,       \* what a file being written holds
  Runes,      \* the runes of reasons and names
  Reasons,    \* the reasons given with a save, sequences of runes
  MaxSlug,    \* the longest reason in a name (32 in the code)
  Limit,      \* the longest list (20 in the code)
  PerSecond,  \* bound: readings of the clock in one second
  MaxClock,   \* bound: the last reading of the clock
  Digits      \* Digits[n] is n written in a timestamp

ASSUME BoundsAssumption ==
  /\ Torn \notin Contents
  /\ {MaxSlug, Limit, PerSecond, MaxClock} \subseteq Nat \ {0}
  /\ \A m, n \in 0 .. MaxClock : Digits[m] = Digits[n] => m = n

ASSUME RunesAssumption ==
  /\ {"a", "b", "r", ":", "_", "-", "."} \subseteq Runes
  /\ \A n \in 0 .. MaxClock : Digits[n] \in Runes \ {"_", "-"}
  /\ Reasons \subseteq Seq(Runes)

VARIABLES
  clock,   \* the time; it is never set back
  file,    \* the configuration file
  dir,     \* .prompt-guard-backups: dir[name] is the content and the time of
           \* its last write
  asked,   \* the request that waits for reloadMu, or Nothing
  save,    \* the save that holds it, past its checks, or Nothing
  shown,   \* the names in the last list a UI was given
  made     \* history: the backups begun, [name, content, reason], with the file
           \* each is of

vars == <<clock, file, dir, asked, save, shown, made>>

Nothing == [proposed |-> Torn, reason |-> <<>>, of |-> {}]

-----------------------------------------------------------------------------
(* Names.                                                                  *)

Plain(rune) ==
  rune \in {"a", "b", "r"} \cup {Digits[n] : n \in 0 .. MaxClock}

WriteRuneAlways(slug, rune) ==                 \* slip: a dash for every rune
  Append(slug, IF Plain(Lowered(rune)) THEN Lowered(rune) ELSE "-")

WriteRune(slug, rune) ==
  IF Plain(Lowered(rune)) THEN Append(slug, Lowered(rune))
  ELSE IF slug # <<>> /\ Last(slug) = "-" THEN slug ELSE Append(slug, "-")

TrimDashes(slug) ==
  LET kept == {i \in DOMAIN slug : slug[i] # "-"}
  IN  IF kept = {} THEN <<>> ELSE SubSeq(slug, Min(kept), Max(kept))

Uncut(slug) == slug                            \* slip: a name of any length

Cut(slug) == SubSeq(slug, 1, Min({Len(slug), MaxSlug}))

\* sanitizeBackupReason: a run of other runes becomes one dash; the dashes at
\* the ends go, and then the cut, which may leave one at the end.
Sanitize(reason) == Cut(TrimDashes(FoldLeft(WriteRune, <<>>, reason)))

Names == DOMAIN dir

Second(t) == t \div PerSecond

BackupIDInSeconds(t) == <<Digits[Second(t)], ".">>        \* slip: no fraction

\* backupID, and the name that createBackupLocked makes of it.
BackupID(t) == <<Digits[Second(t)], ".", Digits[t]>>
Name(t, reason) == [id |-> BackupID(t), slug |-> Sanitize(reason)]

\* The name as it is written, without ".yaml": the id of a listed backup.
Text(name) ==
  name.id \o (IF name.slug = <<>> THEN <<>> ELSE <<"_", "_">> \o name.slug)

\* What listBackups shows as the reason: what follows the first "__".
ReasonIn(text) ==
  LET at == {i \in 1 .. Len(text) - 2 : text[i] = "_" /\ text[i + 1] = "_"}
  IN  IF at = {} THEN <<>> ELSE SubSeq(text, Min(at) + 2, Len(text))

\* handleConfigRollback's reason, "rollback:" shortened to two runes.
RollbackOf(name) == <<"r", ":">> \o Text(name)

-----------------------------------------------------------------------------
(* Saves.                                                                  *)

Init ==
  /\ clock = 0
  /\ file \in Contents
  /\ dir = <<>>
  /\ asked = Nothing /\ save = Nothing
  /\ shown = {}
  /\ made = {}

\* Time passes; at the bound it stands still.
Tick ==
  /\ clock < MaxClock
  /\ clock' = clock + 1
  /\ UNCHANGED <<file, dir, asked, save, shown, made>>

\* An apply or a PUT reaches saveConfig.
Apply ==
  /\ asked = Nothing
  /\ \E content \in Contents, reason \in Reasons :
       asked' = [proposed |-> content, reason |-> reason, of |-> {}]
  /\ UNCHANGED <<clock, file, dir, save, shown, made>>

\* A rollback reads the backup before it waits, whatever writes it by then.
Rollback ==
  /\ asked = Nothing
  /\ \E name \in shown :
       asked' = [proposed |-> dir[name].content,
                 reason |-> RollbackOf(name), of |-> {name}]
  /\ UNCHANGED <<clock, file, dir, save, shown, made>>

LoadsAnything(content) == TRUE                 \* slip: no parseConfigContent

\* parseConfigContent, for the files there are here.
Loads(content) == content # Torn

\* A file that does not parse, or that is there already.
Refuse ==
  /\ asked # Nothing /\ save = Nothing
  /\ ~Loads(asked.proposed) \/ asked.proposed = file
  /\ asked' = Nothing
  /\ UNCHANGED <<clock, file, dir, save, shown, made>>

\* createBackupLocked opens the file.  The next one is named later: a save
\* takes many nanoseconds.
CreateBackup ==
  /\ asked # Nothing /\ save = Nothing /\ clock < MaxClock
  /\ Loads(asked.proposed) /\ asked.proposed # file
  /\ LET name == Name(clock, asked.reason)
     IN  /\ dir' = [n \in Names \cup {name} |->
                     IF n = name THEN [content |-> Torn, at |-> Second(clock)]
                     ELSE dir[n]]
         /\ made' = made \cup {[name |-> name, content |-> file,
                                reason |-> asked.reason]}
         /\ save' = [asked |-> asked, name |-> name]
  /\ asked' = Nothing
  /\ clock' = clock + 1
  /\ UNCHANGED <<file, shown>>

\* It has the whole content; its last write may be of a later second.
WriteBackup ==
  /\ save # Nothing /\ dir[save.name].content = Torn
  /\ dir' = [dir EXCEPT ![save.name] = [content |-> file, at |-> Second(clock)]]
  /\ UNCHANGED <<clock, file, asked, save, shown, made>>

WriteConfig ==
  /\ save # Nothing /\ dir[save.name].content # Torn
  /\ file' = save.asked.proposed
  /\ save' = Nothing
  /\ UNCHANGED <<clock, dir, asked, shown, made>>

\* The backup cannot be written, or the file cannot, or it is put back: the
\* save fails and the backup stays, half-written or whole.
FailSave ==
  /\ save # Nothing
  /\ save' = Nothing
  /\ UNCHANGED <<clock, file, dir, asked, shown, made>>

-----------------------------------------------------------------------------
(* Lists.                                                                  *)

EarlierFirst(a, b) == dir[a].at <= dir[b].at   \* slip: the other way round

\* sort.Slice by CreatedAt, an RFC 3339 time in whole seconds.
NoEarlier(a, b) == dir[a].at >= dir[b].at

InOrder(names) ==
  \A i \in 1..(Len(names) - 1) : NoEarlier(names[i], names[i + 1])

\* listBackups(Limit), one list for each order the sort may leave.
Lists ==
  {[i \in {j \in DOMAIN names : j <= Limit} |-> names[i]] :
     names \in {n \in SetToSeqs(Names) : InOrder(n)}}

\* GET /admin/config, and the answer to every save.
List ==
  /\ \E list \in Lists : shown' = Range(list)
  /\ UNCHANGED <<clock, file, dir, asked, save, made>>

Next ==
  \/ Tick \/ Apply \/ Rollback \/ Refuse
  \/ CreateBackup \/ WriteBackup \/ WriteConfig \/ FailSave \/ List

Spec == Init /\ [][Next]_vars

-----------------------------------------------------------------------------
(* What the backups are for.                                               *)

Asked(request) ==
  /\ request.proposed \in Contents \cup {Torn}
  /\ request.of \subseteq Names

\* The state is well formed; no reason in a name is longer than the cut, so a
\* rollback of a rollback of a rollback still has a name a file can bear.
TypeOK ==
  /\ clock \in 0..MaxClock
  /\ file \in Contents
  /\ \A name \in Names : /\ dir[name].content \in Contents \cup {Torn}
                         /\ dir[name].at \in Nat
                         /\ Len(ReasonIn(Text(name))) <= MaxSlug
  /\ Asked(asked)
  /\ save # Nothing => Asked(save.asked) /\ save.name \in Names
  /\ shown \subseteq Names

\* A backup is never lost or overwritten: whatever is saved after it, under
\* whatever reason, its name leads to the very file it was made of, or, when
\* its own save was cut short, to a half-written one.
BackupsStay ==
  \A m \in made : m.name \in Names /\ dir[m.name].content \in {m.content, Torn}

\* A rollback puts back the file that was replaced when its backup was made,
\* however old the list it was chosen from and whatever was being written
\* when it was read: never a half-written one, never another's.
RollbackRestores ==
  [][file' # file =>
       \A m \in made : m.name \in save.asked.of => file' = m.content]_vars

\* "Rollback also creates a fresh backup of the current config first, so the
\* rollback itself is reversible": what a save replaced is in a backup, whole,
\* that every list made before the next save offers, unless Limit others were
\* last written in the same second, where the order is anyone's.
SaveIsReversible ==
  [][file' # file =>
       /\ dir[save.name].content = file
       /\ \A names \in Lists' :
            \/ save.name \in Range(names)
            \/ Cardinality({other \in Names :
                              dir[other].at = dir[save.name].at}) > Limit]_vars

\* What is neither letter nor digit is passed over.
ReadRune(read, rune) == IF Plain(rune) THEN Append(read, rune) ELSE read
Readable(runes) == FoldLeft(ReadRune, <<>>, runes)

\* The reason a list shows is the one that was given, read without what is
\* neither letter nor digit: its beginning if it is long, with its runes in
\* their order, and no dash first or twice.
ReasonReads ==
  \A m \in made :
    LET slug == ReasonIn(Text(m.name))
        given == Readable([i \in DOMAIN m.reason |-> Lowered(m.reason[i])])
    IN  /\ IsPrefix(Readable(slug), given)
        /\ Len(slug) < MaxSlug => Readable(slug) = given
        /\ \A i \in DOMAIN slug :
             slug[i] = "-" => i > 1 /\ slug[i - 1] # "-"
=============================================================================

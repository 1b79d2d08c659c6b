------------------------- MODULE SchemaFilesProofs -------------------------
(***************************************************************************)
(* Proofs about SchemaFiles, for any disk, arguments and files: a schema   *)
(* is made of statements of files that verification found no fault with,   *)
(* and of nothing else.                                                    *)
(***************************************************************************)
EXTENDS SchemaFiles, FiniteSetTheorems, TLAPS

-----------------------------------------------------------------------------
(* Cutting a text gives a sequence of statements.                          *)

\* Where a lexeme stands in a text.
LEMMA PositionsType ==
  ASSUME NEW A, NEW s \in Seq(A), NEW l
  PROVE  Positions(s, l) \subseteq 1..Len(s) /\ Len(s) \in Nat
BY DEF Positions

\* As many as there are to be put in order.
LEMMA InOrderType ==
  ASSUME NEW n \in Nat, NEW S, S \subseteq 0..n
  PROVE  \E m \in Nat : DOMAIN InOrder(S) = 1..m /\ Len(InOrder(S)) = m /\ (S # {} => m # 0)
<1>1. 0 \in Int /\ n \in Int
  OBVIOUS
<1>2. IsFiniteSet(0..n)
  BY <1>1, FS_Interval
<1>3. IsFiniteSet(S)
  BY <1>2, FS_Subset
<1>4. Cardinality(S) \in Nat /\ (S # {} => Cardinality(S) # 0)
  BY <1>3, FS_CardinalityType, FS_EmptySet
<1>5. PICK m : m = Cardinality(S)
  OBVIOUS
<1>6. DOMAIN InOrder(S) = 1..m /\ Len(InOrder(S)) = m
  BY <1>4, <1>5 DEF InOrder
<1> QED
  BY <1>4, <1>5, <1>6

\* The cuts of a text leave a number of pieces.
LEMMA PiecesType ==
  ASSUME NEW A, NEW s \in Seq(A), NEW cuts, cuts \subseteq 1..Len(s)
  PROVE  \E n \in Nat : DOMAIN Pieces(s, cuts) = 1..n
<1> DEFINE S == cuts \cup {0, Len(s) + 1}
<1>1. Len(s) + 1 \in Nat /\ S \subseteq 0..Len(s) + 1 /\ S # {}
  <2>1. PICK n \in Nat : n = Len(s)
    OBVIOUS
  <2>2. cuts \cup {0, n + 1} \subseteq 0..n + 1 /\ n + 1 \in Nat
    <3>1. cuts \subseteq 1..n
      BY <2>1
    <3>2. \A c \in 1..n : c \in 0..n + 1
      OBVIOUS
    <3>3. 0 \in 0..n + 1 /\ n + 1 \in 0..n + 1
      OBVIOUS
    <3> QED
      BY <3>1, <3>2, <3>3
  <2> QED
    BY <2>1, <2>2
<1>2. PICK m \in Nat : Len(InOrder(S)) = m /\ m # 0
  <2> HIDE DEF S
  <2> QED
    BY <1>1, InOrderType
<1>3. DOMAIN Pieces(s, cuts) = 1..m - 1
  BY <1>2 DEF Pieces
<1>4. m - 1 \in Nat
  BY <1>2
<1> QED
  BY <1>3, <1>4

\* Some of them are not empty.
LEMMA NonEmptyType ==
  ASSUME NEW n \in Nat, NEW parts, DOMAIN parts = 1..n
  PROVE  \E m \in Nat : \E at : NonEmpty(parts) = [k \in 1..m |-> at[k]]
<1> DEFINE S == {k \in DOMAIN parts : parts[k] # <<>>}
<1>1. S \subseteq 0..n
  OBVIOUS
<1>2. PICK m \in Nat : DOMAIN InOrder(S) = 1..m
  <2> HIDE DEF S
  <2> QED
    BY <1>1, InOrderType
<1>3. NonEmpty(parts) = [k \in 1..m |-> parts[InOrder(S)[k]]]
  BY <1>2 DEF NonEmpty
<1> DEFINE at == [k \in 1..m |-> parts[InOrder(S)[k]]]
<1>4. NonEmpty(parts) = [k \in 1..m |-> at[k]]
  BY <1>3
<1> QED
  BY <1>4

\* The statements of a text are a sequence.
LEMMA StatementsType ==
  ASSUME NEW text \in Seq(STRING)
  PROVE  LET ss == splitStatements(text) IN ss \in Seq({ss[k] : k \in DOMAIN ss})
<1> DEFINE parts == Pieces(text, Positions(text, ";"))
           stripped == [k \in DOMAIN parts |-> stripComments(parts[k])]
           ss == splitStatements(text)
<1>1. PICK n \in Nat : DOMAIN parts = 1..n
  BY PositionsType, PiecesType
<1>2. DOMAIN stripped = 1..n
  BY <1>1
<1>3. ss = NonEmpty(stripped)
  BY DEF splitStatements
<1> HIDE DEF stripped, ss
<1>4. PICK m \in Nat : \E at : ss = [k \in 1..m |-> at[k]]
  BY <1>2, <1>3, NonEmptyType
<1>5. ss \in Seq({ss[k] : k \in DOMAIN ss})
  BY <1>4
<1> QED
  BY <1>5 DEF ss

-----------------------------------------------------------------------------
(* What verification and reading have done so far.                         *)

\* No line of the files breaks a rule.
Clean == \A k \in DOMAIN files : CheckSQL(files[k]) = {}

\* Each file is one whose violations are noted, or is still to be verified.
Verifying ==
  \A k \in DOMAIN files : CheckSQL(files[k]) \subseteq violations \/ \E j \in DOMAIN todo : todo[j] = files[k]

StatementsOf(f) == LET ss == splitStatements(FileText(Content[f])) IN {ss[k] : k \in DOMAIN ss}

\* The statements of the files.
Stated == UNION {StatementsOf(f) : f \in {files[k] : k \in DOMAIN files} \cap DOMAIN Content}

TypeInv ==
  /\ disk \in Disks
  /\ files \in Seq(STRING)
  /\ phase # "parse" => todo \in Seq(STRING)
  /\ stmts \in Seq(Stated)

\* How far it is.
PhaseInv ==
  /\ phase # "ended" => outcome = ""
  /\ phase \in {"resolve", "verify"} => stmts = <<>>
  /\ phase = "verify" => Verifying
  /\ phase = "read" => \A k \in DOMAIN todo : \E j \in DOMAIN files : todo[k] = files[j]

\* What is read and parsed has been verified, except for the library.
CleanInv ==
  caller # "library" /\ (phase \in {"read", "parse"} \/ outcome \in {"compatible", "parsed"}) => Clean

FilesInv == TypeInv /\ PhaseInv /\ CleanInv

\* Content has the files of the disk.
LEMMA TextOnDisk == \A f \in DOMAIN Content : FileText(Content[f]) \in TextsOf(disk)
BY DEF Content, TextsOf

\* What verification finds depends on the disk alone.
LEMMA SameDisk ==
  ASSUME disk' = disk
  PROVE  Content' = Content /\ \A f : CheckSQL(f)' = CheckSQL(f)
BY DEF Content, CheckSQL

\* The files of a run are what they were, and so is all that follows from them.
LEMMA SameFiles ==
  ASSUME disk' = disk, files' = files
  PROVE  Stated' = Stated /\ Clean' = Clean
<1>1. Content' = Content /\ \A f : CheckSQL(f)' = CheckSQL(f)
  BY SameDisk
<1>2. Stated' = Stated
  BY <1>1 DEF Stated, StatementsOf, Content
<1>3. Clean' = Clean
  BY DEF Clean, CheckSQL, Content
<1> QED
  BY <1>2, <1>3

\* Facts about sequences.
LEMMA EmptySeq == \A A : <<>> \in Seq(A)
OBVIOUS

LEMMA NoneInEmpty == DOMAIN <<>> = {}
OBVIOUS

LEMMA Joined ==
  ASSUME NEW A, NEW s \in Seq(A), NEW t \in Seq(A)
  PROVE  s \o t \in Seq(A)
OBVIOUS

\* The first of a sequence and the others.
LEMMA HeadAndTail ==
  ASSUME NEW A, NEW s \in Seq(A), s # <<>>
  PROVE  /\ Head(s) \in A /\ Tail(s) \in Seq(A)
         /\ \A j \in DOMAIN s : s[j] = Head(s) \/ \E k \in DOMAIN Tail(s) : Tail(s)[k] = s[j]
         /\ \A k \in DOMAIN Tail(s) : \E j \in DOMAIN s : s[j] = Tail(s)[k]
<1>1. Len(s) \in Nat /\ Len(s) # 0 /\ Len(Tail(s)) = Len(s) - 1 /\ Head(s) = s[1]
      /\ DOMAIN s = 1..Len(s) /\ DOMAIN Tail(s) = 1..Len(s) - 1
  OBVIOUS
<1>2. \A k \in 1..Len(s) - 1 : Tail(s)[k] = s[k + 1]
  OBVIOUS
<1>3. \A j \in 1..Len(s) : j = 1 \/ (j - 1 \in 1..Len(s) - 1 /\ (j - 1) + 1 = j)
  BY <1>1
<1>4. \A k \in 1..Len(s) - 1 : k + 1 \in 1..Len(s)
  BY <1>1
<1>5. Head(s) \in A /\ Tail(s) \in Seq(A)
  OBVIOUS
<1>6. \A j \in DOMAIN s : s[j] = Head(s) \/ \E k \in DOMAIN Tail(s) : Tail(s)[k] = s[j]
  BY <1>1, <1>2, <1>3
<1>7. \A k \in DOMAIN Tail(s) : \E j \in DOMAIN s : s[j] = Tail(s)[k]
  BY <1>1, <1>2, <1>4
<1> QED
  BY <1>5, <1>6, <1>7

\* Nothing is verified or read at the start; the library reads at once.
LEMMA InitInv == Init => FilesInv
<1> SUFFICES ASSUME Init PROVE FilesInv
  OBVIOUS
<1>1. <<>> \in Seq(Stated) /\ <<>> \in Seq(STRING)
  OBVIOUS
<1>2. TypeInv
  BY <1>1, FilesAssumption DEF Init, TypeInv
<1>3. PhaseInv
  BY FilesAssumption DEF Init, PhaseInv
<1>4. CleanInv
  BY DEF Init, CleanInv
<1> QED
  BY <1>2, <1>3, <1>4 DEF FilesInv

\* Most steps leave the files and the statements read alone.
LEMMA FrameInv ==
  ASSUME FilesInv, disk' = disk, files' = files, stmts' = stmts, phase' # "parse" => todo' \in Seq(STRING)
  PROVE  TypeInv'
<1>1. Stated' = Stated
  BY SameFiles
<1> QED
  BY <1>1 DEF FilesInv, TypeInv

\* No file is resolved but all are still to be verified.
LEMMA ResolveInv ==
  ASSUME FilesInv, Resolve
  PROVE  FilesInv'
<1>1. /\ phase = "resolve" /\ outcome = "" /\ stmts' = <<>> /\ disk' = disk /\ disk \in Disks
      /\ todo \in Seq(STRING) /\ files \in Seq(STRING) /\ caller' = caller
  BY DEF FilesInv, TypeInv, PhaseInv, Resolve
<1>2. CASE todo = <<>>
  <2>1. phase' = "verify" /\ todo' = files /\ files' = files /\ outcome' = ""
    BY <1>1, <1>2 DEF Resolve
  <2>2. TypeInv'
    BY <1>1, <2>1, EmptySeq DEF TypeInv
  <2>3. Verifying'
    BY <2>1 DEF Verifying
  <2>4. PhaseInv'
    BY <1>1, <2>1, <2>3 DEF PhaseInv
  <2>5. CleanInv'
    BY <2>1 DEF CleanInv
  <2> QED
    BY <2>2, <2>4, <2>5 DEF FilesInv
<1>3. CASE todo # <<>> /\ Matches(Head(todo)) = <<>>
  <2>1. phase' = "ended" /\ todo' = <<>> /\ files' = files /\ outcome' = "no .sql file"
    BY <1>3 DEF Resolve, Ends
  <2> QED
    BY <1>1, <2>1, EmptySeq DEF FilesInv, TypeInv, PhaseInv, CleanInv
<1>4. CASE todo # <<>> /\ Matches(Head(todo)) # <<>>
  <2>1. phase' = "resolve" /\ todo' = Tail(todo) /\ files' = files \o Matches(Head(todo)) /\ outcome' = ""
    BY <1>1, <1>4 DEF Resolve
  <2>2. Matches(Head(todo)) \in Seq(STRING)
    <3>1. Head(todo) \in STRING /\ <<Head(todo)>> \in Seq(STRING) /\ <<>> \in Seq(STRING)
      <4>1. Head(todo) \in STRING
        BY <1>1, <1>4, HeadAndTail
      <4> QED
        BY <4>1
    <3>2. \A p \in DOMAIN disk : disk[p].kind = "dir" => disk[p].files \in Seq(STRING)
      BY <1>1, FilesAssumption
    <3>3. PICK p : p = Head(todo)
      OBVIOUS
    <3>4. Matches(p) = <<>> \/ Matches(p) = <<p>> \/ (p \in DOMAIN disk /\ disk[p].kind = "dir"
                                                      /\ Matches(p) = disk[p].files)
      BY DEF Matches
    <3> QED
      BY <3>1, <3>2, <3>3, <3>4
  <2>3. files' \in Seq(STRING) /\ todo' \in Seq(STRING)
    BY <1>1, <1>4, <2>1, <2>2, Joined, HeadAndTail
  <2> QED
    BY <1>1, <2>1, <2>3, EmptySeq DEF FilesInv, TypeInv, PhaseInv, CleanInv
<1> QED
  BY <1>2, <1>3, <1>4

\* An end without a schema.
LEMMA EndsInv ==
  ASSUME FilesInv, disk' = disk, files' = files, stmts' = stmts,
         NEW why, Ends(why), why \notin {"compatible", "parsed"}
  PROVE  FilesInv'
<1>1. phase' = "ended" /\ todo' = <<>> /\ outcome' = why
  BY DEF Ends
<1>2. TypeInv'
  BY <1>1, FrameInv
<1> QED
  BY <1>1, <1>2 DEF FilesInv, PhaseInv, CleanInv

\* The violations of the file that is verified are noted.
LEMMA VerifyInv ==
  ASSUME FilesInv, Verify
  PROVE  FilesInv'
<1>1. /\ phase = "verify" /\ phase' = phase /\ outcome' = outcome /\ outcome = "" /\ caller' = caller
      /\ disk' = disk /\ files' = files /\ stmts' = stmts /\ stmts = <<>>
      /\ todo \in Seq(STRING) /\ todo # <<>> /\ todo' = Tail(todo)
      /\ violations' = violations \cup CheckSQL(Head(todo))
  BY DEF FilesInv, TypeInv, PhaseInv, Verify
<1>2. TypeInv'
  <2>1. Tail(todo) \in Seq(STRING)
    BY <1>1, HeadAndTail
  <2> QED
    BY <1>1, <2>1, FrameInv
<1>3. Verifying'
  <2>1. Verifying /\ \A f : CheckSQL(f)' = CheckSQL(f)
    BY <1>1, SameDisk DEF FilesInv, PhaseInv
  <2>2. \A f : (\E j \in DOMAIN todo : todo[j] = f) => f = Head(todo) \/ \E j \in DOMAIN todo' : todo'[j] = f
    <3>1. \A j \in DOMAIN todo : todo[j] = Head(todo) \/ \E k \in DOMAIN Tail(todo) : Tail(todo)[k] = todo[j]
      BY <1>1, HeadAndTail
    <3> QED
      BY <1>1, <3>1
  <2>3. ASSUME NEW k \in DOMAIN files
        PROVE  CheckSQL(files[k])' \subseteq violations' \/ \E j \in DOMAIN todo' : todo'[j] = files[k]
    BY <1>1, <2>1, <2>2 DEF Verifying
  <2> QED
    BY <1>1, <2>3 DEF Verifying
<1> QED
  BY <1>1, <1>2, <1>3 DEF FilesInv, PhaseInv, CleanInv

\* Without violations every file is clean.
LEMMA VerifiedInv ==
  ASSUME FilesInv, Verified
  PROVE  FilesInv'
<1>1. /\ phase = "verify" /\ outcome = "" /\ caller' = caller /\ todo = <<>>
      /\ disk' = disk /\ files' = files /\ stmts' = stmts /\ stmts = <<>> /\ files \in Seq(STRING)
  BY DEF FilesInv, TypeInv, PhaseInv, Verified
<1>2. violations = {} => Clean
  <2>1. Verifying
    BY <1>1 DEF FilesInv, PhaseInv
  <2>2. DOMAIN todo = {}
    BY <1>1, NoneInEmpty
  <2>3. violations = {} => \A k \in DOMAIN files : CheckSQL(files[k]) \subseteq {}
    BY <2>1, <2>2 DEF Verifying
  <2> QED
    BY <2>3 DEF Clean
<1>3. Clean' = Clean
  BY <1>1, SameFiles
<1>4. CASE caller = "verify" \/ violations # {}
  <2>1. phase' = "ended" /\ todo' = <<>> /\ outcome' = IF violations = {} THEN "compatible" ELSE "violations"
    BY <1>4 DEF Verified, Ends
  <2>2. TypeInv'
    BY <1>1, <2>1, EmptySeq, FrameInv
  <2> QED
    BY <1>1, <1>2, <1>3, <2>1, <2>2 DEF FilesInv, PhaseInv, CleanInv
<1>5. CASE caller # "verify" /\ violations = {}
  <2>1. phase' = "read" /\ todo' = files /\ outcome' = ""
    BY <1>1, <1>5 DEF Verified
  <2>2. TypeInv'
    BY <1>1, <2>1, FrameInv
  <2>3. PhaseInv'
    BY <1>1, <2>1 DEF PhaseInv
  <2> QED
    BY <1>2, <1>3, <1>5, <2>1, <2>2, <2>3 DEF FilesInv, CleanInv
<1> QED
  BY <1>4, <1>5

\* The statements added are those of a file.
LEMMA ReadFileInv ==
  ASSUME TextsAreWords, FilesInv, ReadFile
  PROVE  FilesInv'
<1>1. /\ phase = "read" /\ phase' = phase /\ outcome' = outcome /\ caller' = caller
      /\ disk' = disk /\ files' = files /\ disk \in Disks /\ files \in Seq(STRING)
      /\ todo \in Seq(STRING) /\ todo # <<>> /\ todo' = Tail(todo) /\ Head(todo) \in DOMAIN Content
      /\ stmts' = stmts \o splitStatements(FileText(Content[Head(todo)])) /\ stmts \in Seq(Stated)
      /\ \A k \in DOMAIN todo : \E j \in DOMAIN files : todo[k] = files[j]
  BY DEF FilesInv, TypeInv, PhaseInv, ReadFile
<1>2. PICK f : f = Head(todo)
  OBVIOUS
<1>3. f \in DOMAIN Content /\ \E j \in DOMAIN files : f = files[j]
  BY <1>1, <1>2
<1>4. PICK ss : ss = splitStatements(FileText(Content[f]))
  OBVIOUS
<1>5. ss \in Seq(StatementsOf(f))
  <2>1. FileText(Content[f]) \in Seq(STRING)
    BY <1>1, <1>3, TextOnDisk DEF TextsAreWords
  <2> QED
    BY <1>4, <2>1, StatementsType DEF StatementsOf
<1>6. StatementsOf(f) \subseteq Stated
  BY <1>3 DEF Stated
<1>7. ss \in Seq(Stated)
  BY <1>5, <1>6
<1>8. stmts' \in Seq(Stated) /\ todo' \in Seq(STRING)
  BY <1>1, <1>2, <1>4, <1>7
<1>9. Stated' = Stated /\ Clean' = Clean
  BY <1>1, SameFiles
<1>10. \A k \in DOMAIN todo' : \E j \in DOMAIN files : todo'[k] = files[j]
  <2>1. \A k \in DOMAIN todo' : k + 1 \in DOMAIN todo /\ todo'[k] = todo[k + 1]
    BY <1>1
  <2> QED
    BY <1>1, <2>1
<1> QED
  BY <1>1, <1>8, <1>9, <1>10 DEF FilesInv, TypeInv, PhaseInv, CleanInv

\* Nothing is read after this.
LEMMA AllReadInv ==
  ASSUME FilesInv, AllRead
  PROVE  FilesInv'
<1>1. /\ phase = "read" /\ phase' = "parse" /\ outcome' = outcome /\ caller' = caller
      /\ disk' = disk /\ files' = files /\ stmts' = stmts
  BY DEF AllRead
<1>2. TypeInv' /\ Clean' = Clean
  BY <1>1, FrameInv, SameFiles
<1> QED
  BY <1>1, <1>2 DEF FilesInv, PhaseInv, CleanInv

\* Parsing changes neither files nor statements.
LEMMA ParseInv ==
  ASSUME FilesInv, ParseStatements
  PROVE  FilesInv'
<1>1. /\ phase = "parse" /\ outcome = "" /\ disk' = disk /\ files' = files /\ stmts' = stmts /\ caller' = caller
  BY DEF FilesInv, PhaseInv, ParseStatements, ParseCreateTable, ParseCreateIndex, ParseOther, AllParsed,
         ParseFrame
<1>2. \/ phase' = phase /\ outcome' = outcome
      \/ Ends("unsupported") \/ Ends("unknown table") \/ Ends("parsed")
  BY DEF ParseStatements, ParseCreateTable, ParseCreateIndex, ParseOther, AllParsed
<1>3. CASE phase' = phase /\ outcome' = outcome
  <2>1. TypeInv' /\ Clean' = Clean
    BY <1>1, <1>3, FrameInv, SameFiles
  <2> QED
    BY <1>1, <1>3, <2>1 DEF FilesInv, PhaseInv, CleanInv
<1>4. CASE Ends("unsupported") \/ Ends("unknown table")
  BY <1>1, <1>4, EndsInv
<1>5. CASE Ends("parsed")
  <2>1. phase' = "ended" /\ todo' = <<>>
    BY <1>5 DEF Ends
  <2>2. TypeInv' /\ Clean' = Clean
    BY <1>1, <2>1, EmptySeq, FrameInv, SameFiles
  <2> QED
    BY <1>1, <2>1, <2>2 DEF FilesInv, PhaseInv, CleanInv
<1> QED
  BY <1>2, <1>3, <1>4, <1>5

-----------------------------------------------------------------------------
(* The theorems.                                                           *)

\* What verify calls compatible, and what a plan is made from, are files of
\* which no line breaks a rule; and each statement of the plan stands in one of
\* them.
OnlyCleanFiles ==
  /\ caller # "library" /\ outcome \in {"compatible", "parsed"} => Clean
  /\ caller # "library" /\ outcome = "parsed" =>
       \A k \in DOMAIN stmts : \E j \in DOMAIN files :
         /\ files[j] \in DOMAIN Content /\ CheckSQL(files[j]) = {}
         /\ stmts[k] \in StatementsOf(files[j])

LEMMA StatementsAreClean == FilesInv => OnlyCleanFiles
<1> SUFFICES ASSUME FilesInv, caller # "library", outcome = "parsed", NEW k \in DOMAIN stmts
             PROVE  \E j \in DOMAIN files : /\ files[j] \in DOMAIN Content /\ CheckSQL(files[j]) = {}
                                            /\ stmts[k] \in StatementsOf(files[j])
  BY DEF FilesInv, CleanInv, OnlyCleanFiles
<1>1. Clean /\ stmts[k] \in Stated
  BY DEF FilesInv, CleanInv, TypeInv
<1>2. PICK f \in {files[j] : j \in DOMAIN files} \cap DOMAIN Content : stmts[k] \in StatementsOf(f)
  BY <1>1 DEF Stated
<1>3. PICK j \in DOMAIN files : f = files[j]
  BY <1>2
<1> QED
  BY <1>1, <1>2, <1>3 DEF Clean

\* The invariant is kept by every step.
LEMMA NextInv ==
  ASSUME TextsAreWords, FilesInv, [Next]_vars
  PROVE  FilesInv'
<1>1. CASE Resolve
  BY <1>1, ResolveInv
<1>2. CASE Unreadable
  BY <1>2, EndsInv DEF Unreadable
<1>3. CASE Verify
  BY <1>3, VerifyInv
<1>4. CASE Verified
  BY <1>4, VerifiedInv
<1>5. CASE ReadFile
  BY <1>5, ReadFileInv
<1>6. CASE AllRead
  BY <1>6, AllReadInv
<1>7. CASE ParseStatements
  BY <1>7, ParseInv
<1>8. CASE UNCHANGED vars
  <2>1. disk' = disk /\ files' = files /\ stmts' = stmts /\ todo' = todo /\ phase' = phase
        /\ outcome' = outcome /\ caller' = caller /\ violations' = violations
    BY <1>8 DEF vars
  <2>2. TypeInv' /\ Clean' = Clean /\ \A f : CheckSQL(f)' = CheckSQL(f)
    BY <2>1, FrameInv, SameFiles, SameDisk DEF FilesInv, TypeInv
  <2>3. Verifying' = Verifying
    BY <2>1 DEF Verifying, CheckSQL, Content
  <2> QED
    BY <2>1, <2>2, <2>3 DEF FilesInv, PhaseInv, CleanInv
<1> QED
  BY <1>1, <1>2, <1>3, <1>4, <1>5, <1>6, <1>7, <1>8 DEF Next

\* Between --schema and a plan nothing is left out: whatever the arguments name,
\* in directories or not, each file was verified and has no violation
\* (verifySchemaFiles in cli/helpers.go before Parse), and nothing but the
\* statements of these files is parsed.
THEOREM OnlyCleanFilesPass ==
  ASSUME TextsAreWords
  PROVE  Spec => []OnlyCleanFiles
<1>1. Init => FilesInv
  BY InitInv
<1>2. FilesInv /\ [Next]_vars => FilesInv'
  BY NextInv
<1>3. FilesInv => OnlyCleanFiles
  BY StatementsAreClean
<1> QED
  BY <1>1, <1>2, <1>3, PTL DEF Spec

=============================================================================

-------------------------- MODULE CollectionProofs --------------------------
(***************************************************************************)
(* Proofs about Collection for any number of requests, rows and files.     *)
(*                                                                         *)
(* That a photo or an avatar is there rests on files having one name each  *)
(* and one place to be named from: a fresh name is nobody's, and what a    *)
(* request has loaded or written is in no other place than the one it is   *)
(* about to change.                                                        *)
(***************************************************************************)
EXTENDS Collection, TLAPS

\* Whatever is named was written before.
Fresh ==
    /\ \A f \in files \cup doomed : f < next
    /\ \A i \in DOMAIN rows : rows[i] < next
    /\ account.avatar < next
    /\ \A w \in Requests : req[w].old < next /\ req[w].new < next

\* What a request may have in hand at each of its awaits.
InHand ==
    \A w \in Requests :
        /\ req[w].at = "idle" => req[w] = Idle
        /\ req[w].at = "reading" => req[w].new = NoFile
        /\ req[w].at = "analyzing" =>
              req[w].kind = "analyze" /\ req[w].new \in files /\ req[w].old \notin files
        /\ req[w].kind = "add" => req[w].old = NoFile

\* One row, or the avatar, names a file; what is to be removed is not named.
OneName ==
    /\ \A i, j \in DOMAIN rows : rows[i] = rows[j] /\ rows[i] # NoFile => i = j
    /\ \A i \in DOMAIN rows :
          rows[i] # NoFile => rows[i] # account.avatar /\ rows[i] \notin doomed
    /\ account.avatar \notin doomed

\* A photo that was loaded is named by the row it was loaded from or by none; an
\* avatar that was loaded by no row.
OldNames ==
    \A w \in Requests : req[w].old # NoFile =>
        /\ req[w].kind # "avatar" => req[w].old # account.avatar
        /\ \A j \in DOMAIN rows : rows[j] = req[w].old =>
              req[w].kind # "avatar" /\ j = req[w].id

\* A photo that was written and not yet committed is nobody else's.
NewNames ==
    \A w \in Requests : req[w].new # NoFile =>
        /\ req[w].new # account.avatar /\ req[w].new \notin doomed
        /\ \A j \in DOMAIN rows : rows[j] # req[w].new
        /\ \A v \in Requests : req[v].old # req[w].new /\ (v # w => req[v].new # req[w].new)

Names == Fresh /\ InHand /\ OneName /\ OldNames /\ NewNames

IInv == TypeOK /\ Names /\ AvatarIsThere /\ PhotosAreThere /\ FilesAreNamed

LEMMA InitInv == Init => IInv
  <1>1. SUFFICES ASSUME Init PROVE IInv
    OBVIOUS
  <1>2. DOMAIN rows = {} /\ Named(rows) = {}
    BY <1>1 DEF Init, Named
  <1>3. TypeOK
    BY <1>1, <1>2, CollectionAssumption DEF Init, TypeOK, Hand, Idle, Files, Kinds, NoFile
  <1>4. Names
    BY <1>1, <1>2 DEF Init, Names, Fresh, InHand, OneName, OldNames, NewNames, Idle, NoFile
  <1>5. AvatarIsThere /\ PhotosAreThere /\ FilesAreNamed
    BY <1>1, <1>2 DEF Init, AvatarIsThere, PhotosAreThere, FilesAreNamed
  <1>6. QED
    BY <1>3, <1>4, <1>5 DEF IInv

LEMMA Updated ==
    ASSUME TypeOK, NEW w \in Requests, NEW r, Goes(w, r)
    PROVE  /\ \A v \in Requests : req'[v] = IF v = w THEN r ELSE req[v]
           /\ req' = [v \in Requests |-> IF v = w THEN r ELSE req[v]]
  BY DEF TypeOK, Hand, Goes

LEMMA FilesAreNumbers ==
    /\ \A f \in Files : f \in Nat /\ f # NoFile
    /\ NoFile \in Nat
  BY CollectionAssumption DEF Files, NoFile

\* A request takes nothing new in hand that is not its own.
LEMMA LoadStep ==
    ASSUME IInv, doomed = {}, NEW w \in Requests, NEW kind \in Kinds, NEW i \in 0..MaxId,
           Load(w, kind, i)
    PROVE  IInv'
  <1> DEFINE r == req'[w]
  <1>1. /\ UNCHANGED <<rows, account, files, next, doomed, stray, torn>>
        /\ \A v \in Requests : v # w => req'[v] = req[v]
        /\ r.at = "reading" /\ r.kind = kind /\ r.id = i /\ r.new = NoFile
        /\ kind = "add" => r.old = NoFile
        /\ kind = "avatar" => r.old = account.avatar
        /\ kind \in {"edit", "analyze"} => i \in DOMAIN rows /\ r.old = rows[i]
        /\ req[w].at = "idle"
    BY Updated DEF Load, IInv
  <1>2. r.old \in Files \cup {NoFile} /\ r.old < next
    BY <1>1 DEF IInv, TypeOK, Hand, Names, Fresh, Kinds, NoFile
  <1>3. TypeOK'
    BY <1>1, <1>2, Updated DEF IInv, TypeOK, Hand, Load
  <1>4. Fresh' /\ InHand' /\ OneName'
    BY <1>1, <1>2, FilesAreNumbers DEF IInv, TypeOK, Hand, Names, Fresh, InHand, OneName, NoFile
  <1>5. OldNames'
    BY <1>1 DEF IInv, Names, OldNames, OneName, Kinds
  <1>6. NewNames'
    BY <1>1 DEF IInv, Names, NewNames, InHand, Kinds
  <1>7. AvatarIsThere' /\ PhotosAreThere' /\ FilesAreNamed'
    <2>1. req[w].new = NoFile
      BY <1>1 DEF IInv, Names, InHand, Idle
    <2>2. NoFile \notin files
      BY FilesAreNumbers DEF IInv, TypeOK, Hand
    <2>3. QED
      BY <1>1, <2>1, <2>2 DEF IInv, AvatarIsThere, PhotosAreThere, FilesAreNamed
  <1>8. QED
    BY <1>3, <1>4, <1>5, <1>6, <1>7 DEF IInv, Names

LEMMA RefusedStep ==
    ASSUME IInv, NEW w \in Requests, Refused(w)
    PROVE  IInv'
  <1>1. /\ UNCHANGED <<rows, account, files, next, doomed, stray, torn>>
        /\ \A v \in Requests : v # w => req'[v] = req[v]
        /\ req'[w] = Idle /\ req[w].at = "reading" /\ req[w].new = NoFile
    BY Updated DEF Refused, IInv, Names, InHand
  <1>2. Idle.old = NoFile /\ Idle.new = NoFile /\ Idle.at = "idle" /\ Idle.kind = "add"
        /\ NoFile < next
    BY FilesAreNumbers DEF Idle, NoFile, IInv, TypeOK, Hand
  <1>3. TypeOK'
    BY <1>1, Updated, CollectionAssumption DEF IInv, TypeOK, Hand, Refused, Idle, Kinds, NoFile
  <1>4. Names'
    BY <1>1, <1>2 DEF IInv, Names, Fresh, InHand, OneName, OldNames, NewNames
  <1>5. NoFile \notin files
    BY FilesAreNumbers DEF IInv, TypeOK, Hand
  <1>6. AvatarIsThere' /\ PhotosAreThere' /\ FilesAreNamed'
    BY <1>1, <1>2, <1>5 DEF IInv, AvatarIsThere, PhotosAreThere, FilesAreNamed
  <1>7. QED
    BY <1>3, <1>4, <1>6 DEF IInv

\* A new row under a row id that is free.
LEMMA NewRow ==
    ASSUME TypeOK, NEW photo, WithRow(photo)
    PROVE  \E i \in 1..MaxId : /\ i \notin DOMAIN rows
                               /\ rows' = [j \in DOMAIN rows \cup {i} |->
                                             IF j = i THEN photo ELSE rows[j]]
  BY CollectionAssumption DEF TypeOK, Hand, WithRow, IsNextRow

LEMMA AddBareStep ==
    ASSUME IInv, doomed = {}, AddBare
    PROVE  IInv'
  <1>1. PICK i \in 1..MaxId : /\ i \notin DOMAIN rows
                              /\ rows' = [j \in DOMAIN rows \cup {i} |->
                                            IF j = i THEN NoFile ELSE rows[j]]
    BY NewRow DEF AddBare, IInv
  <1>2. UNCHANGED <<account, files, next, doomed, req, stray, torn>>
    BY DEF AddBare
  <1>3. NoFile < next
    BY FilesAreNumbers DEF NoFile, IInv, TypeOK, Hand
  <1>4. TypeOK'
    BY <1>1, <1>2 DEF IInv, TypeOK, Hand
  <1>5. Fresh' /\ InHand' /\ OneName'
    BY <1>1, <1>2, <1>3 DEF IInv, Names, Fresh, InHand, OneName
  <1>6. OldNames' /\ NewNames'
    BY <1>1, <1>2 DEF IInv, Names, OldNames, NewNames
  <1>7. Named(rows)' = Named(rows)
    BY <1>1 DEF Named
  <1>8. AvatarIsThere' /\ PhotosAreThere' /\ FilesAreNamed'
    BY <1>2, <1>7 DEF IInv, AvatarIsThere, PhotosAreThere, FilesAreNamed
  <1>9. QED
    BY <1>4, <1>5, <1>6, <1>8 DEF IInv, Names

LEMMA FreshName ==
    ASSUME IInv, Saves
    PROVE  /\ next \in Files /\ next # NoFile
           /\ next' \in 1..MaxFiles + 1 /\ next' = next + 1
           /\ next \notin files /\ next \notin doomed /\ next # account.avatar
           /\ \A i \in DOMAIN rows : rows[i] # next
           /\ \A v \in Requests : req[v].old # next /\ req[v].new # next
           /\ \A f \in files \cup doomed : f < next'
           /\ \A i \in DOMAIN rows : rows[i] < next'
           /\ account.avatar < next'
           /\ \A v \in Requests : req[v].old < next' /\ req[v].new < next'
           /\ next < next' /\ NoFile < next'
  <1>1. next \in Nat /\ next # 0 /\ next <= MaxFiles /\ next' = next + 1
    BY CollectionAssumption DEF IInv, TypeOK, Hand, Saves
  <1>2. /\ \A f \in files \cup doomed : f \in Nat
        /\ \A i \in DOMAIN rows : rows[i] \in Nat
        /\ account.avatar \in Nat
        /\ \A v \in Requests : req[v].old \in Nat /\ req[v].new \in Nat
    BY FilesAreNumbers DEF IInv, TypeOK, Hand
  <1>3. /\ \A f \in files \cup doomed : f < next
        /\ \A i \in DOMAIN rows : rows[i] < next
        /\ account.avatar < next
        /\ \A v \in Requests : req[v].old < next /\ req[v].new < next
    BY DEF IInv, Names, Fresh
  <1>4. next \in Files /\ next # NoFile /\ next' \in 1..MaxFiles + 1
    BY <1>1, CollectionAssumption DEF Files, NoFile
  <1>5. \A n \in Nat : n < next => n # next /\ n < next'
    BY <1>1
  <1>6. next < next' /\ NoFile < next'
    BY <1>1 DEF NoFile
  <1>7. QED
    BY <1>1, <1>2, <1>3, <1>4, <1>5, <1>6

LEMMA IdleHand ==
    /\ Idle.old = NoFile /\ Idle.new = NoFile /\ Idle.at = "idle" /\ Idle.kind = "add"
    /\ Idle \in Hand
  BY CollectionAssumption DEF Hand, Idle, NoFile, Kinds

LEMMA AddStep ==
    ASSUME IInv, doomed = {}, NEW w \in Requests, NEW commits \in BOOLEAN, Add(w, commits)
    PROVE  IInv'
  <1>1. /\ Saves /\ files' = files \cup {next}
        /\ UNCHANGED <<account, doomed, torn>>
        /\ req[w].at = "reading" /\ req[w].new = NoFile /\ req[w].old = NoFile
        /\ req'[w] = Idle /\ \A v \in Requests : v # w => req'[v] = req[v]
    BY Updated DEF Add, IInv, Names, InHand
  <1>2. req' \in [Requests -> Hand]
    BY Updated, IdleHand DEF Add, IInv, TypeOK, Hand
  <1>3. NewNames /\ OldNames /\ InHand /\ OneName
    BY DEF IInv, Names
  <1>4. NoFile \notin files
    BY FilesAreNumbers DEF IInv, TypeOK, Hand
  <1>5. CASE commits /\ account.there
    <2>1. stray' = stray
      BY <1>5 DEF Add
    <2>2. PICK i \in 1..MaxId : /\ i \notin DOMAIN rows
                                /\ rows' = [j \in DOMAIN rows \cup {i} |->
                                              IF j = i THEN next ELSE rows[j]]
      BY <1>5, NewRow DEF Add, IInv
    <2>3. TypeOK'
      BY <1>1, <1>2, <2>1, <2>2, FreshName DEF IInv, TypeOK, Hand
    <2>4. Fresh' /\ InHand' /\ OneName'
      BY <1>1, <1>3, <2>2, FreshName, IdleHand DEF Fresh, InHand, OneName
    <2>5. OldNames' /\ NewNames'
      BY <1>1, <1>3, <2>2, FreshName, IdleHand DEF OldNames, NewNames
    <2>6. Named(rows)' = Named(rows) \cup {next}
      BY <2>2, FreshName, <1>1 DEF Named
    <2>7. AvatarIsThere' /\ PhotosAreThere' /\ FilesAreNamed'
      BY <1>1, <1>4, <2>1, <2>6, IdleHand DEF IInv, AvatarIsThere, PhotosAreThere, FilesAreNamed
    <2>8. QED
      BY <2>3, <2>4, <2>5, <2>7 DEF IInv, Names
  <1>6. CASE ~(commits /\ account.there)
    <2>1. rows' = rows /\ stray' = stray \cup {next}
      BY <1>6 DEF Add
    <2>2. TypeOK'
      BY <1>1, <1>2, <2>1, FreshName DEF IInv, TypeOK, Hand
    <2>3. Names'
      BY <1>1, <1>3, <2>1, FreshName, IdleHand
      DEF Names, Fresh, InHand, OneName, OldNames, NewNames
    <2>4. AvatarIsThere' /\ PhotosAreThere' /\ FilesAreNamed'
      BY <1>1, <1>4, <2>1, IdleHand DEF IInv, AvatarIsThere, PhotosAreThere, FilesAreNamed
    <2>5. QED
      BY <2>2, <2>3, <2>4 DEF IInv
  <1>7. QED
    BY <1>5, <1>6

\* The old photo goes before the commit, so a commit that fails is remembered.
LEMMA EditStep ==
    ASSUME IInv, doomed = {}, NEW w \in Requests, NEW commits \in BOOLEAN, Edit(w, commits)
    PROVE  IInv'
  <1> DEFINE i == req[w].id
             old == req[w].old
  <1>1. /\ Saves /\ files' = (files \cup {next}) \ {old}
        /\ UNCHANGED <<account, doomed>>
        /\ req[w].at = "reading" /\ req[w].kind = "edit" /\ req[w].new = NoFile
        /\ req'[w] = Idle /\ \A v \in Requests : v # w => req'[v] = req[v]
    BY Updated DEF Edit, Swapped, IInv, Names, InHand
  <1>2. req' \in [Requests -> Hand]
    BY Updated, IdleHand DEF Edit, IInv, TypeOK, Hand
  <1>3. NewNames /\ OldNames /\ InHand /\ OneName
    BY DEF IInv, Names
  <1>4. NoFile \notin files /\ old \in Files \cup {NoFile}
    BY FilesAreNumbers DEF IInv, TypeOK, Hand
  <1>5. /\ old # NoFile => old # account.avatar
        /\ old # NoFile => \A j \in DOMAIN rows : rows[j] = old => j = i
        /\ \A v \in Requests : req[v].new # NoFile => req[v].new # old
    BY <1>1, <1>3 DEF OldNames, NewNames
  <1>6. next # old /\ next \in files'
    BY <1>1, FreshName
  <1>7. AvatarIsThere'
    BY <1>1, <1>4, <1>5 DEF IInv, AvatarIsThere
  <1>8. InHand'
    <2>1. ASSUME NEW v \in Requests, v # w, req[v].at = "analyzing"
          PROVE  req[v].kind = "analyze" /\ req[v].new \in files' /\ req[v].old \notin files'
      BY <1>1, <1>3, <1>4, <1>5, <2>1, FreshName DEF InHand
    <2>2. QED
      BY <1>1, <1>3, <2>1, IdleHand DEF InHand
  <1>9. CASE commits /\ i \in DOMAIN rows
    <2>1. /\ rows' = [rows EXCEPT ![i] = next] /\ torn' = torn
          /\ stray' = stray \cup (files' \cap ({rows[i]} \ {old}))
      BY <1>9 DEF Edit, Replaced
    <2>2. DOMAIN rows' = DOMAIN rows /\ rows'[i] = next
          /\ \A j \in DOMAIN rows : j # i => rows'[j] = rows[j]
      BY <1>9, <2>1 DEF IInv, TypeOK, Hand
    <2>3. TypeOK'
      BY <1>1, <1>2, <1>9, <2>1, <2>2, FreshName DEF IInv, TypeOK, Hand
    <2>4. Fresh' /\ OneName'
      BY <1>1, <1>3, <2>2, FreshName, IdleHand DEF Fresh, OneName
    <2>5. OldNames' /\ NewNames'
      BY <1>1, <1>3, <2>2, FreshName, IdleHand DEF OldNames, NewNames
    <2>6. PhotosAreThere'
      <3>1. SUFFICES ASSUME NEW j \in DOMAIN rows, j # i, rows[j] # NoFile,
                            rows[j] \notin files', rows[j] \notin torn
                     PROVE  \E v \in Requests : req'[v].at = "analyzing" /\ req'[v].old = rows[j]
        BY <1>6, <2>1, <2>2 DEF PhotosAreThere, Named
      <3>2. rows[j] \notin files
        BY <1>1, <1>5, <3>1
      <3>3. PICK v \in Requests : req[v].at = "analyzing" /\ req[v].old = rows[j]
        BY <3>1, <3>2 DEF IInv, PhotosAreThere, Named
      <3>4. QED
        BY <1>1, <3>3
    <2>7. FilesAreNamed'
      <3>1. SUFFICES ASSUME NEW f \in files', f \notin stray', f # next
                     PROVE  f \in Named(rows)' \cup {account.avatar} \cup doomed
                                    \cup {req'[v].new : v \in Requests}
        BY <1>1, <2>2, <1>9, FreshName DEF FilesAreNamed, Named
      <3>2. f \in files /\ f # old /\ f # NoFile
        BY <1>1, <1>4, <3>1
      <3>3. CASE \E j \in DOMAIN rows : rows[j] = f
        BY <2>1, <2>2, <3>1, <3>2, <3>3 DEF Named
      <3>4. CASE \E v \in Requests : req[v].new = f
        BY <1>1, <3>2, <3>4
      <3>5. QED
        BY <2>1, <3>1, <3>2, <3>3, <3>4 DEF IInv, FilesAreNamed, Named
    <2>8. QED
      BY <1>7, <1>8, <2>3, <2>4, <2>5, <2>6, <2>7 DEF IInv, Names
  <1>10. CASE ~(commits /\ i \in DOMAIN rows)
    <2>1. rows' = rows /\ stray' = stray \cup {next} /\ torn' = torn \cup {old}
      BY <1>10 DEF Edit, Replaced
    <2>2. TypeOK'
      BY <1>1, <1>2, <1>4, <2>1, FreshName DEF IInv, TypeOK, Hand
    <2>3. Fresh' /\ OneName' /\ OldNames' /\ NewNames'
      BY <1>1, <1>3, <2>1, FreshName, IdleHand DEF Fresh, OneName, OldNames, NewNames
    <2>4. PhotosAreThere'
      BY <1>1, <2>1 DEF IInv, PhotosAreThere, Named
    <2>5. FilesAreNamed'
      <3>1. SUFFICES ASSUME NEW f \in files, f \notin stray
                     PROVE  f \in Named(rows) \cup {account.avatar} \cup doomed
                                    \cup {req'[v].new : v \in Requests}
        BY <1>1, <2>1 DEF FilesAreNamed
      <3>2. QED
        BY <1>1, <1>4, <3>1 DEF IInv, FilesAreNamed
    <2>6. QED
      BY <1>7, <1>8, <2>2, <2>3, <2>4, <2>5 DEF IInv, Names
  <1>11. QED
    BY <1>9, <1>10

\* The new photo is the request's own until it commits, the old one is excused.
LEMMA AnalyzeStep ==
    ASSUME IInv, doomed = {}, NEW w \in Requests, Analyze(w)
    PROVE  IInv'
  <1> DEFINE old == req[w].old
             hand == [req[w] EXCEPT !.at = "analyzing", !.new = next]
  <1>1. /\ Saves /\ files' = (files \cup {next}) \ {old} /\ Goes(w, hand)
        /\ UNCHANGED <<rows, account, doomed, stray, torn>>
        /\ req[w].at = "reading" /\ req[w].kind = "analyze" /\ req[w].new = NoFile
        /\ req'[w] = hand /\ \A v \in Requests : v # w => req'[v] = req[v]
        /\ hand.at = "analyzing" /\ hand.new = next /\ hand.old = old
        /\ hand.kind = "analyze" /\ hand.id = req[w].id
    BY Updated DEF Analyze, Swapped, IInv, Names, InHand, TypeOK, Hand
  <1>2. TypeOK'
    <2>1. hand \in Hand
      BY FreshName, <1>1 DEF IInv, TypeOK, Hand
    <2>2. req' \in [Requests -> Hand]
      BY <1>1, <2>1, Updated DEF IInv, TypeOK
    <2>3. QED
      BY <1>1, <2>2, FreshName DEF IInv, TypeOK
  <1> HIDE DEF hand
  <1>3. NewNames /\ OldNames /\ InHand /\ OneName
    BY DEF IInv, Names
  <1>4. NoFile \notin files /\ old \in Files \cup {NoFile}
    BY FilesAreNumbers DEF IInv, TypeOK, Hand
  <1>5. /\ old # NoFile => old # account.avatar
        /\ \A v \in Requests : req[v].new # NoFile => req[v].new # old
    BY <1>1, <1>3 DEF OldNames, NewNames
  <1>6. next # old /\ next \in files'
    BY <1>1, FreshName
  <1>7. AvatarIsThere'
    BY <1>1, <1>4, <1>5 DEF IInv, AvatarIsThere
  <1>8. InHand'
    <2>1. ASSUME NEW v \in Requests, v # w, req[v].at = "analyzing"
          PROVE  req[v].kind = "analyze" /\ req[v].new \in files' /\ req[v].old \notin files'
      BY <1>1, <1>3, <1>4, <1>5, <2>1, FreshName DEF InHand
    <2>2. old \notin files'
      BY <1>1, <1>6
    <2>3. QED
      BY <1>1, <1>3, <1>6, <2>1, <2>2 DEF InHand
  <1>9. Fresh' /\ OneName' /\ OldNames'
    BY <1>1, <1>3, FreshName DEF Fresh, OneName, OldNames
  <1>10. NewNames'
    BY <1>1, <1>3, <1>6, FreshName DEF NewNames
  <1>11. PhotosAreThere'
    BY <1>1 DEF IInv, PhotosAreThere
  <1>12. FilesAreNamed'
    <2>1. SUFFICES ASSUME NEW f \in files, f \notin stray
                   PROVE  f \in Named(rows) \cup {account.avatar} \cup doomed
                                  \cup {req'[v].new : v \in Requests}
      BY <1>1 DEF FilesAreNamed
    <2>2. QED
      BY <1>1, <1>4, <2>1 DEF IInv, FilesAreNamed
  <1>13. QED
    BY <1>2, <1>7, <1>8, <1>9, <1>10, <1>11, <1>12 DEF IInv, Names

LEMMA AnalyzeEndsStep ==
    ASSUME IInv, doomed = {}, NEW w \in Requests, NEW commits \in BOOLEAN,
           AnalyzeEnds(w, commits)
    PROVE  IInv'
  <1> DEFINE i == req[w].id
             old == req[w].old
             new == req[w].new
  <1>1. /\ UNCHANGED <<files, account, next, doomed>>
        /\ req[w].at = "analyzing" /\ req[w].kind = "analyze" /\ new \in files
        /\ req'[w] = Idle /\ \A v \in Requests : v # w => req'[v] = req[v]
    BY Updated DEF AnalyzeEnds, IInv, Names, InHand
  <1>2. req' \in [Requests -> Hand]
    BY Updated, IdleHand DEF AnalyzeEnds, IInv, TypeOK, Hand
  <1>3. NewNames /\ OldNames /\ InHand /\ OneName /\ Fresh
    BY DEF IInv, Names
  <1>4. NoFile \notin files /\ old \in Files \cup {NoFile} /\ new \in Files /\ new # NoFile
        /\ NoFile < next
    BY <1>1, FilesAreNumbers DEF IInv, TypeOK, Hand, NoFile
  <1>5. /\ old # NoFile => \A j \in DOMAIN rows : rows[j] = old => j = i
        /\ new # account.avatar /\ new # old /\ new < next
        /\ \A j \in DOMAIN rows : rows[j] # new
        /\ \A v \in Requests : req[v].old # new /\ (v # w => req[v].new # new)
    BY <1>1, <1>3, <1>4 DEF OldNames, NewNames, Fresh
  <1>6. InHand' /\ AvatarIsThere'
    BY <1>1, <1>3, IdleHand DEF InHand, IInv, AvatarIsThere
  <1>7. CASE commits /\ i \in DOMAIN rows
    <2>1. /\ rows' = [rows EXCEPT ![i] = new] /\ torn' = torn
          /\ stray' = stray \cup (files' \cap ({rows[i]} \ {old}))
      BY <1>7 DEF AnalyzeEnds, Replaced
    <2>2. DOMAIN rows' = DOMAIN rows /\ rows'[i] = new
          /\ \A j \in DOMAIN rows : j # i => rows'[j] = rows[j]
      BY <1>7, <2>1 DEF IInv, TypeOK
    <2>3. TypeOK'
      BY <1>1, <1>2, <1>4, <1>7, <2>1, <2>2 DEF IInv, TypeOK
    <2>4. Fresh' /\ OneName'
      BY <1>1, <1>3, <1>4, <1>5, <2>2, IdleHand DEF Fresh, OneName
    <2>5. OldNames' /\ NewNames'
      BY <1>1, <1>3, <1>5, <2>2, IdleHand DEF OldNames, NewNames
    <2>6. PhotosAreThere'
      <3>1. SUFFICES ASSUME NEW j \in DOMAIN rows, j # i, rows[j] # NoFile,
                            rows[j] \notin files, rows[j] \notin torn
                     PROVE  \E v \in Requests : req'[v].at = "analyzing" /\ req'[v].old = rows[j]
        BY <1>1, <2>1, <2>2 DEF PhotosAreThere, Named
      <3>2. PICK v \in Requests : req[v].at = "analyzing" /\ req[v].old = rows[j]
        BY <3>1 DEF IInv, PhotosAreThere, Named
      <3>3. v # w
        BY <1>5, <3>1, <3>2
      <3>4. QED
        BY <1>1, <3>2, <3>3
    <2>7. FilesAreNamed'
      <3>1. SUFFICES ASSUME NEW f \in files, f \notin stray, f # new
                     PROVE  f \in Named(rows)' \cup {account.avatar} \cup doomed \cup stray'
                                    \cup {req'[v].new : v \in Requests}
        BY <1>1, <1>4, <2>1, <2>2, <1>7 DEF FilesAreNamed, Named
      <3>2. f # NoFile
        BY <1>4, <3>1
      <3>3. CASE \E j \in DOMAIN rows : rows[j] = f
        <4>1. PICK j \in DOMAIN rows : rows[j] = f
          BY <3>3
        <4>2. CASE j # i
          BY <2>2, <3>2, <4>1, <4>2 DEF Named
        <4>3. CASE j = i /\ f # old
          BY <1>1, <2>1, <4>1, <4>3
        <4>4. CASE f = old
          BY <1>1, <1>3, <3>1, <4>4 DEF InHand
        <4>5. QED
          BY <4>2, <4>3, <4>4
      <3>4. CASE \E v \in Requests : req[v].new = f
        BY <1>1, <3>1, <3>2, <3>4
      <3>5. QED
        BY <2>1, <3>1, <3>2, <3>3, <3>4 DEF IInv, FilesAreNamed, Named
    <2>8. QED
      BY <1>6, <2>3, <2>4, <2>5, <2>6, <2>7 DEF IInv, Names
  <1>8. CASE ~(commits /\ i \in DOMAIN rows)
    <2>1. rows' = rows /\ stray' = stray \cup {new} /\ torn' = torn \cup {old}
      BY <1>8 DEF AnalyzeEnds, Replaced
    <2>2. TypeOK'
      BY <1>1, <1>2, <1>4, <2>1 DEF IInv, TypeOK
    <2>3. Fresh' /\ OneName' /\ OldNames' /\ NewNames'
      BY <1>1, <1>3, <1>4, <2>1, IdleHand DEF Fresh, OneName, OldNames, NewNames
    <2>4. PhotosAreThere'
      BY <1>1, <2>1 DEF IInv, PhotosAreThere
    <2>5. FilesAreNamed'
      <3>1. SUFFICES ASSUME NEW f \in files, f \notin stray, f # new
                     PROVE  f \in Named(rows) \cup {account.avatar} \cup doomed
                                    \cup {req'[v].new : v \in Requests}
        BY <1>1, <2>1 DEF FilesAreNamed
      <3>2. QED
        BY <1>1, <1>4, <3>1 DEF IInv, FilesAreNamed
    <2>6. QED
      BY <1>6, <2>2, <2>3, <2>4, <2>5 DEF IInv, Names
  <1>9. QED
    BY <1>7, <1>8

\* The avatar is committed first; only what no row names any more is removed.
LEMMA UpdateAvatarStep ==
    ASSUME IInv, doomed = {}, NEW w \in Requests, NEW commits \in BOOLEAN,
           UpdateAvatar(w, commits)
    PROVE  IInv'
  <1> DEFINE old == req[w].old
             done == commits /\ account.there
  <1>1. /\ Saves /\ files' = files \cup {next} /\ UNCHANGED <<rows, torn>>
        /\ doomed' = IF done THEN {old} \ {NoFile} ELSE {}
        /\ req[w].at = "reading" /\ req[w].kind = "avatar" /\ req[w].new = NoFile
        /\ req'[w] = Idle /\ \A v \in Requests : v # w => req'[v] = req[v]
    BY Updated DEF UpdateAvatar, Doomed, IInv, Names, InHand
  <1>2. req' \in [Requests -> Hand]
    BY Updated, IdleHand DEF UpdateAvatar, IInv, TypeOK
  <1>3. NewNames /\ OldNames /\ InHand /\ OneName
    BY DEF IInv, Names
  <1>4. NoFile \notin files /\ old \in Files \cup {NoFile}
    BY FilesAreNumbers DEF IInv, TypeOK, Hand
  <1>5. /\ old # NoFile => \A j \in DOMAIN rows : rows[j] # old
        /\ \A v \in Requests : req[v].new # NoFile => req[v].new # old
        /\ old # next /\ old < next'
    BY <1>1, <1>3, FreshName DEF OldNames, NewNames
  <1>6. InHand'
    BY <1>1, <1>3, FreshName, IdleHand DEF InHand
  <1>7. PhotosAreThere'
    BY <1>1 DEF IInv, PhotosAreThere
  <1>8. CASE done
    <2>1. /\ account' = [account EXCEPT !.avatar = next]
          /\ stray' = stray \cup ({account.avatar} \ {old, NoFile})
      BY <1>8 DEF UpdateAvatar
    <2>2. account'.avatar = next /\ account' \in [there : BOOLEAN, avatar : Files \cup {NoFile}]
      BY <1>1, <2>1, FreshName DEF IInv, TypeOK
    <2>3. TypeOK'
      BY <1>1, <1>2, <1>4, <2>1, <2>2, FreshName DEF IInv, TypeOK
    <2>4. Fresh' /\ OneName'
      BY <1>1, <1>3, <1>5, <2>2, FreshName, IdleHand DEF Fresh, OneName
    <2>5. OldNames' /\ NewNames'
      BY <1>1, <1>3, <1>5, <2>2, FreshName, IdleHand DEF OldNames, NewNames
    <2>6. AvatarIsThere'
      BY <1>1, <2>2 DEF AvatarIsThere
    <2>7. FilesAreNamed'
      <3>1. SUFFICES ASSUME NEW f \in files, f \notin stray'
                     PROVE  f \in Named(rows) \cup doomed' \cup {req'[v].new : v \in Requests}
        BY <1>1, <2>2 DEF FilesAreNamed
      <3>2. f # NoFile /\ (f = account.avatar => f = old)
        BY <1>4, <2>1, <3>1
      <3>3. f = old => f \in doomed'
        BY <1>1, <1>8, <3>2
      <3>4. CASE f \in Named(rows) \cup {req[v].new : v \in Requests}
        BY <1>1, <3>2, <3>4
      <3>5. QED
        BY <2>1, <3>1, <3>2, <3>3, <3>4 DEF IInv, FilesAreNamed
    <2>8. QED
      BY <1>6, <1>7, <2>3, <2>4, <2>5, <2>6, <2>7 DEF IInv, Names
  <1>9. CASE ~done
    <2>1. account' = account /\ stray' = stray \cup {next} /\ doomed' = {}
      BY <1>1, <1>9 DEF UpdateAvatar
    <2>2. TypeOK'
      BY <1>1, <1>2, <2>1, FreshName DEF IInv, TypeOK
    <2>3. Fresh' /\ OneName' /\ OldNames' /\ NewNames'
      BY <1>1, <1>3, <2>1, FreshName, IdleHand DEF Fresh, OneName, OldNames, NewNames
    <2>4. AvatarIsThere'
      BY <1>1, <2>1 DEF IInv, AvatarIsThere
    <2>5. FilesAreNamed'
      <3>1. SUFFICES ASSUME NEW f \in files, f \notin stray
                     PROVE  f \in Named(rows) \cup {account.avatar}
                                    \cup {req'[v].new : v \in Requests}
        BY <1>1, <2>1 DEF FilesAreNamed
      <3>2. QED
        BY <1>1, <1>4, <3>1 DEF IInv, FilesAreNamed
    <2>6. QED
      BY <1>6, <1>7, <2>2, <2>3, <2>4, <2>5 DEF IInv, Names
  <1>10. QED
    BY <1>8, <1>9

LEMMA RemoveAvatarStep ==
    ASSUME IInv, doomed = {}, RemoveAvatar
    PROVE  IInv'
  <1>1. /\ account' = [account EXCEPT !.avatar = NoFile]
        /\ doomed' = {account.avatar} \ {NoFile}
        /\ UNCHANGED <<rows, files, next, req, stray, torn>>
    BY DEF RemoveAvatar
  <1>2. /\ account'.avatar = NoFile /\ account' \in [there : BOOLEAN, avatar : Files \cup {NoFile}]
        /\ account.avatar \in Files \cup {NoFile} /\ NoFile < next
    BY <1>1, FilesAreNumbers DEF IInv, TypeOK, NoFile
  <1>3. TypeOK'
    BY <1>1, <1>2 DEF IInv, TypeOK
  <1>4. Names'
    BY <1>1, <1>2 DEF IInv, Names, Fresh, InHand, OneName, OldNames, NewNames
  <1>5. AvatarIsThere' /\ PhotosAreThere'
    BY <1>1, <1>2 DEF IInv, AvatarIsThere, PhotosAreThere
  <1>6. FilesAreNamed'
    BY <1>1, <1>2 DEF IInv, FilesAreNamed
  <1>7. QED
    BY <1>3, <1>4, <1>5, <1>6 DEF IInv

LEMMA DeleteBottleStep ==
    ASSUME IInv, doomed = {}, NEW i \in DOMAIN rows, NEW commits \in BOOLEAN,
           DeleteBottle(i, commits)
    PROVE  IInv'
  <1>1. /\ files' = files \ {rows[i]} /\ UNCHANGED <<account, next, doomed, req, stray>>
        /\ IF commits THEN rows' = Without(rows, i) /\ torn' = torn
           ELSE rows' = rows /\ torn' = torn \cup {rows[i]}
    BY DEF DeleteBottle, Remaining
  <1>2. OneName /\ OldNames /\ NewNames /\ InHand /\ Fresh
    BY DEF IInv, Names
  <1>3. /\ DOMAIN rows' \subseteq DOMAIN rows /\ \A j \in DOMAIN rows' : rows'[j] = rows[j]
        /\ rows' \in [DOMAIN rows' -> Files \cup {NoFile}]
        /\ commits => DOMAIN rows' = DOMAIN rows \ {i}
    BY <1>1 DEF Without, IInv, TypeOK
  <1>4. TypeOK'
    BY <1>1, <1>3 DEF IInv, TypeOK
  <1>5. NoFile \notin files /\ \A v \in Requests : req[v].new \in files => req[v].new # rows[i]
    BY <1>2, FilesAreNumbers DEF IInv, TypeOK, NewNames
  <1>6. Fresh' /\ InHand' /\ OneName'
    BY <1>1, <1>2, <1>3, <1>5 DEF Fresh, InHand, OneName
  <1>7. OldNames' /\ NewNames'
    BY <1>1, <1>2, <1>3 DEF OldNames, NewNames
  <1>8. AvatarIsThere'
    BY <1>1, <1>2, <1>5 DEF IInv, AvatarIsThere, OneName
  <1>9. PhotosAreThere'
    <2>1. SUFFICES ASSUME NEW j \in DOMAIN rows', rows[j] # NoFile, rows[j] \notin files',
                          rows[j] \notin torn'
                   PROVE  \E v \in Requests : req[v].at = "analyzing" /\ req[v].old = rows[j]
      BY <1>1, <1>3 DEF PhotosAreThere, Named
    <2>2. rows[j] # rows[i]
      BY <1>1, <1>2, <1>3, <2>1 DEF OneName
    <2>3. QED
      BY <1>1, <1>3, <2>1, <2>2 DEF IInv, PhotosAreThere, Named
  <1>10. FilesAreNamed'
    <2>1. SUFFICES ASSUME NEW f \in files, f # rows[i], f \notin stray
                   PROVE  f \in Named(rows)' \cup {account.avatar} \cup doomed
                                  \cup {req[v].new : v \in Requests}
      BY <1>1 DEF FilesAreNamed
    <2>2. f \in Named(rows) => f \in Named(rows)'
      BY <1>1, <1>3, <2>1 DEF Named
    <2>3. QED
      BY <2>1, <2>2 DEF IInv, FilesAreNamed
  <1>11. QED
    BY <1>4, <1>6, <1>7, <1>8, <1>9, <1>10 DEF IInv, Names

LEMMA DeleteAccountStep ==
    ASSUME IInv, doomed = {}, DeleteAccount
    PROVE  IInv'
  <1>1. /\ account' = [there |-> FALSE, avatar |-> NoFile] /\ rows' = << >>
        /\ doomed' = ({rows[i] : i \in DOMAIN rows} \cup {account.avatar}) \ {NoFile}
        /\ UNCHANGED <<files, next, req, stray, torn>>
    BY DEF DeleteAccount, FilesOf
  <1>2. DOMAIN rows' = {} /\ account'.avatar = NoFile /\ NoFile < next
    BY <1>1 DEF IInv, TypeOK, NoFile
  <1>3. TypeOK'
    BY <1>1, <1>2 DEF IInv, TypeOK
  <1>4. Fresh' /\ InHand'
    BY <1>1, <1>2 DEF IInv, Names, Fresh, InHand
  <1>5. OneName' /\ OldNames' /\ NewNames'
    BY <1>1, <1>2 DEF IInv, Names, OneName, OldNames, NewNames
  <1>6. AvatarIsThere' /\ PhotosAreThere'
    BY <1>1, <1>2 DEF IInv, AvatarIsThere, PhotosAreThere, Named
  <1>7. FilesAreNamed'
    BY <1>1, <1>2, FilesAreNumbers DEF IInv, TypeOK, FilesAreNamed, Named
  <1>8. QED
    BY <1>3, <1>4, <1>5, <1>6, <1>7 DEF IInv, Names

LEMMA UnlinkStep ==
    ASSUME IInv, Unlink
    PROVE  IInv'
  <1>1. /\ doomed' = {} /\ files' = files \ doomed
        /\ UNCHANGED <<rows, account, next, req, stray, torn>>
    BY DEF Unlink
  <1>2. TypeOK'
    BY <1>1 DEF IInv, TypeOK
  <1>3. \A v \in Requests : req[v].new \in files => req[v].new \notin doomed
    BY FilesAreNumbers DEF IInv, TypeOK, Names, NewNames
  <1>4. Names'
    BY <1>1, <1>3 DEF IInv, Names, Fresh, InHand, OneName, OldNames, NewNames
  <1>5. AvatarIsThere' /\ PhotosAreThere'
    BY <1>1 DEF IInv, Names, OneName, AvatarIsThere, PhotosAreThere, Named
  <1>6. FilesAreNamed'
    BY <1>1 DEF IInv, FilesAreNamed
  <1>7. QED
    BY <1>2, <1>4, <1>5, <1>6 DEF IInv

LEMMA ProcessEndsStep ==
    ASSUME IInv, ProcessEnds
    PROVE  IInv'
  <1>1. /\ stray' = (stray \cup doomed \cup {req[w].new : w \in Requests}) \ {NoFile}
        /\ torn' = torn \cup {req[w].old : w \in {v \in Requests : req[v].at = "analyzing"}}
        /\ doomed' = {} /\ req' = [w \in Requests |-> Idle]
        /\ UNCHANGED <<rows, account, files, next>>
    BY DEF ProcessEnds
  <1>2. \A w \in Requests : req'[w] = Idle /\ req[w].new \in Files \cup {NoFile}
                            /\ req[w].old \in Files \cup {NoFile}
    BY <1>1 DEF IInv, TypeOK, Hand
  <1>3. TypeOK'
    BY <1>1, <1>2, IdleHand DEF IInv, TypeOK
  <1>4. NoFile < next /\ NoFile \notin files
    BY FilesAreNumbers DEF IInv, TypeOK, NoFile
  <1>5. Names'
    BY <1>1, <1>2, <1>4, IdleHand DEF IInv, Names, Fresh, InHand, OneName, OldNames, NewNames
  <1>6. AvatarIsThere' /\ PhotosAreThere'
    BY <1>1 DEF IInv, AvatarIsThere, PhotosAreThere
  <1>7. FilesAreNamed'
    BY <1>1, <1>2, <1>4 DEF IInv, FilesAreNamed
  <1>8. QED
    BY <1>3, <1>5, <1>6, <1>7 DEF IInv

LEMMA NextInv ==
    ASSUME IInv, [Next]_vars
    PROVE  IInv'
  <1>1. CASE Unlink
    BY <1>1, UnlinkStep
  <1>2. CASE ProcessEnds
    BY <1>2, ProcessEndsStep
  <1>3. ASSUME doomed = {}, NEW w \in Requests, NEW kind \in Kinds, NEW i \in 0..MaxId,
               Load(w, kind, i)
        PROVE  IInv'
    BY <1>3, LoadStep
  <1>4. ASSUME doomed = {}, NEW w \in Requests, Refused(w) \/ Analyze(w)
        PROVE  IInv'
    BY <1>4, RefusedStep, AnalyzeStep
  <1>5. ASSUME doomed = {}, NEW w \in Requests, NEW c \in BOOLEAN,
               Add(w, c) \/ Edit(w, c) \/ AnalyzeEnds(w, c) \/ UpdateAvatar(w, c)
        PROVE  IInv'
    BY <1>5, AddStep, EditStep, AnalyzeEndsStep, UpdateAvatarStep
  <1>6. ASSUME doomed = {}, NEW i \in DOMAIN rows, NEW c \in BOOLEAN, DeleteBottle(i, c)
        PROVE  IInv'
    BY <1>6, DeleteBottleStep
  <1>7. ASSUME doomed = {}, AddBare \/ RemoveAvatar \/ DeleteAccount
        PROVE  IInv'
    BY <1>7, AddBareStep, RemoveAvatarStep, DeleteAccountStep
  <1>8. CASE UNCHANGED vars
    BY <1>8 DEF vars, IInv, TypeOK, Names, Fresh, InHand, OneName, OldNames, NewNames,
                AvatarIsThere, PhotosAreThere, FilesAreNamed, Named
  <1>9. QED
    BY <1>1, <1>2, <1>3, <1>4, <1>5, <1>6, <1>7, <1>8 DEF Next

\* Types, and where each file may be named from, for any number of requests.
THEOREM Invariance == Spec => []IInv
  BY InitInv, NextInv, PTL DEF Spec

\* Every variable has its type.
THEOREM TypeCorrect == Spec => []TypeOK
  <1>1. IInv => TypeOK
    BY DEF IInv
  <1>2. QED
    BY <1>1, Invariance, PTL

\* A photo is missing only under a re-analysis or where a commit failed.
THEOREM PhotosStay == Spec => []PhotosAreThere
  <1>1. IInv => PhotosAreThere
    BY DEF IInv
  <1>2. QED
    BY <1>1, Invariance, PTL

\* The avatar that the committed row names is on disk at every moment.
THEOREM AvatarStays == Spec => []AvatarIsThere
  <1>1. IInv => AvatarIsThere
    BY DEF IInv
  <1>2. QED
    BY <1>1, Invariance, PTL

\* A file that nothing names is a failure's or an overlapping request's.
THEOREM NothingLeftOver == Spec => []FilesAreNamed
  <1>1. IInv => FilesAreNamed
    BY DEF IInv
  <1>2. QED
    BY <1>1, Invariance, PTL

=============================================================================

-------------------------- MODULE SqlJsSaver_proofs ---------------------------
(***************************************************************************)
(* For any number of puts, writers' failures, crashes and damaged files: at *)
(* most one snapshot is on its way to the file, nothing unsaved is          *)
(* forgotten, and the saver implements a durable register.                  *)
(*                                                                          *)
(* The first part is about directories only.  In a sound directory the      *)
(* variants are ordered by age, later ones have larger values, and no       *)
(* backup is ahead of a readable live file; then what the next open finds   *)
(* is the largest value there is (LargestIsFound), and each effect of a     *)
(* write keeps the directory sound if the value written is the largest.     *)
(***************************************************************************)
EXTENDS SqlJsSaver, TLAPS

IsWhole(d, n) == d.file[n].is = "whole"

Sound(d, top) ==
  /\ d = [file |-> d.file, later |-> d.later]
  /\ IsDir(d, top)
  /\ \A a, b, c \in Names : <<a, b>> \in d.later /\ <<b, c>> \in d.later => <<a, c>> \in d.later
  /\ \A a \in Names : <<a, a>> \notin d.later
  /\ \A a, b \in Candidates :
       IsWhole(d, a) /\ IsWhole(d, b) /\ <<a, b>> \in d.later => d.file[a].val >= d.file[b].val
  /\ IsWhole(d, "live") => \A n \in {"bakTmp", "bak"} : d.file[n].val <= d.file["live"].val

Below(d, v) == \A n \in Candidates : d.file[n].val <= v

OnTop(d, n) == \A m \in Present(d) \ {n} : <<n, m>> \in d.later

\* What a variant can hold.
LEMMA Contents ==
  ASSUME NEW d, NEW top \in Nat, IsDir(d, top), NEW n \in Names
  PROVE  /\ d.file[n].is \in {"absent", "torn", "whole"}
         /\ d.file[n].val \in 0 .. top
         /\ d.file[n].is = "absent" <=> d.file[n] = Absent
         /\ d.file[n].is = "torn" <=> d.file[n] = Torn
         /\ d.file[n].is = "whole" <=> d.file[n] = Whole(d.file[n].val)
         /\ d.file[n].is # "whole" => d.file[n].val = 0
         /\ n \in Present(d) <=> d.file[n].is # "absent"
<1>1. d.file[n] \in {Absent, Torn} \cup {Whole(v) : v \in 0 .. top}
  BY DEF IsDir
<1>2. CASE d.file[n] = Absent
  BY <1>2 DEF Absent, Torn, Whole, Present
<1>3. CASE d.file[n] = Torn
  BY <1>3 DEF Absent, Torn, Whole, Present
<1>4. ASSUME NEW v \in 0 .. top, d.file[n] = Whole(v)
      PROVE  /\ d.file[n].is = "whole" /\ d.file[n].val = v /\ d.file[n] # Absent /\ d.file[n] # Torn
  BY <1>4 DEF Absent, Torn, Whole
<1> QED BY <1>1, <1>2, <1>3, <1>4 DEF Present

\* The newest of some sidecars exists.
LEMMA NewestExists ==
  ASSUME NEW d, NEW top \in Nat, Sound(d, top),
         NEW S \in SUBSET {"tmp", "bakTmp", "bak"}, S # {}, S \subseteq Present(d)
  PROVE  /\ Newest(d, S) \in S
         /\ \A m \in S \ {Newest(d, S)} : <<Newest(d, S), m>> \in d.later
<1> DEFINE Top(n) == \A m \in S \ {n} : <<n, m>> \in d.later
<1>1. \A a, b \in S : a # b => (<<a, b>> \in d.later <=> <<b, a>> \notin d.later)
  BY DEF Sound, IsDir
<1>2. \A a, b, c \in S : <<a, b>> \in d.later /\ <<b, c>> \in d.later => <<a, c>> \in d.later
  BY DEF Sound, Names
<1>3. \E n \in S : Top(n)
  <2>1. CASE "tmp" \in S /\ (\A m \in S \ {"tmp"} : <<"tmp", m>> \in d.later)
    BY <2>1
  <2>2. CASE "bak" \in S /\ (\A m \in S \ {"bak"} : <<"bak", m>> \in d.later)
    BY <2>2
  <2>3. CASE "bakTmp" \in S /\ (\A m \in S \ {"bakTmp"} : <<"bakTmp", m>> \in d.later)
    BY <2>3
  <2>4. \/ "tmp" \in S /\ (\A m \in S \ {"tmp"} : <<"tmp", m>> \in d.later)
        \/ "bak" \in S /\ (\A m \in S \ {"bak"} : <<"bak", m>> \in d.later)
        \/ "bakTmp" \in S /\ (\A m \in S \ {"bakTmp"} : <<"bakTmp", m>> \in d.later)
    <3> DEFINE Beats(a, b) == b \in S => <<a, b>> \in d.later
    <3>1. \A n \in S : \/ n = "tmp" \/ n = "bak" \/ n = "bakTmp"
      OBVIOUS
    <3>2. CASE "tmp" \in S /\ Beats("tmp", "bak") /\ Beats("tmp", "bakTmp")
      BY <3>1, <3>2
    <3>3. CASE "bak" \in S /\ Beats("bak", "tmp") /\ Beats("bak", "bakTmp")
      BY <3>1, <3>3
    <3>4. CASE "bakTmp" \in S /\ Beats("bakTmp", "tmp") /\ Beats("bakTmp", "bak")
      BY <3>1, <3>4
    <3>5. /\ "tmp" \in S /\ "bak" \in S => (<<"tmp", "bak">> \in d.later <=> <<"bak", "tmp">> \notin d.later)
          /\ "tmp" \in S /\ "bakTmp" \in S =>
               (<<"tmp", "bakTmp">> \in d.later <=> <<"bakTmp", "tmp">> \notin d.later)
          /\ "bak" \in S /\ "bakTmp" \in S =>
               (<<"bak", "bakTmp">> \in d.later <=> <<"bakTmp", "bak">> \notin d.later)
      BY <1>1
    <3>6. "tmp" \in S /\ "bak" \in S /\ "bakTmp" \in S =>
            /\ ~(<<"tmp", "bak">> \in d.later /\ <<"bak", "bakTmp">> \in d.later
                   /\ <<"bakTmp", "tmp">> \in d.later)
            /\ ~(<<"bak", "tmp">> \in d.later /\ <<"tmp", "bakTmp">> \in d.later
                   /\ <<"bakTmp", "bak">> \in d.later)
      BY <1>2, <3>5
    <3>7. "tmp" \in S \/ "bak" \in S \/ "bakTmp" \in S
      BY <3>1
    <3> QED BY <3>2, <3>3, <3>4, <3>5, <3>6, <3>7
  <2> QED BY <2>1, <2>2, <2>3, <2>4
<1> QED BY <1>3 DEF Newest

\* What the next open finds is the largest value that any variant holds.
LEMMA LargestIsFound ==
  ASSUME NEW d, NEW top \in Nat, Sound(d, top)
  PROVE  /\ Below(d, Recoverable(d)) /\ Recoverable(d) \in 0 .. top
         /\ Choice(d) \in Valid(d) \cup {""}
         /\ Choice(d) = "" <=> Valid(d) = {}
         /\ Choice(d) # "" => Recoverable(d) = d.file[Choice(d)].val
         /\ Choice(d) = "" => Recoverable(d) = 0
<1>1. \A n \in Candidates : /\ d.file[n].val \in 0 .. top
                            /\ n \in Valid(d) <=> IsWhole(d, n)
                            /\ ~IsWhole(d, n) => d.file[n].val = 0
                            /\ IsWhole(d, n) => n \in Present(d)
  BY Contents DEF Sound, Candidates, Valid, IsWhole
<1>2. "" \notin Candidates /\ Valid(d) \subseteq Candidates
      /\ Candidates = {"live", "tmp", "bakTmp", "bak"}
  BY DEF Candidates, Names, Valid
<1>3. CASE Valid(d) = {}
  BY <1>1, <1>2, <1>3 DEF Choice, Recoverable, Below
<1>4. CASE "live" \in Valid(d) /\ "tmp" \in Valid(d) /\ <<"tmp", "live">> \in d.later
  <2>1. Choice(d) = "tmp" /\ Recoverable(d) = d.file["tmp"].val
    BY <1>4 DEF Choice, Recoverable
  <2>2. d.file["tmp"].val >= d.file["live"].val
    BY <1>1, <1>2, <1>4 DEF Sound
  <2>3. d.file["bak"].val <= d.file["live"].val /\ d.file["bakTmp"].val <= d.file["live"].val
    BY <1>1, <1>2, <1>4 DEF Sound
  <2> QED BY <1>1, <1>2, <1>4, <2>1, <2>2, <2>3 DEF Below
<1>5. CASE "live" \in Valid(d) /\ ~("tmp" \in Valid(d) /\ <<"tmp", "live">> \in d.later)
  <2>1. Choice(d) = "live" /\ Recoverable(d) = d.file["live"].val
    BY <1>5 DEF Choice, Recoverable
  <2>2. d.file["bak"].val <= d.file["live"].val /\ d.file["bakTmp"].val <= d.file["live"].val
    BY <1>1, <1>2, <1>5 DEF Sound
  <2>3. d.file["tmp"].val <= d.file["live"].val
    <3>1. CASE "tmp" \notin Valid(d)
      BY <1>1, <1>2, <3>1
    <3>2. CASE "tmp" \in Valid(d)
      <4>1. <<"live", "tmp">> \in d.later
        BY <1>1, <1>2, <1>5, <3>2 DEF Sound, IsDir
      <4> QED BY <1>1, <1>2, <1>5, <3>2, <4>1 DEF Sound
    <3> QED BY <3>1, <3>2
  <2> QED BY <1>1, <1>2, <1>5, <2>1, <2>2, <2>3 DEF Below
<1>6. CASE Valid(d) # {} /\ "live" \notin Valid(d)
  <2>1. Choice(d) = Newest(d, Valid(d))
    BY <1>6 DEF Choice
  <2>2. Valid(d) \in SUBSET {"tmp", "bakTmp", "bak"} /\ Valid(d) \subseteq Present(d)
    BY <1>1, <1>2, <1>6
  <2>3. /\ Newest(d, Valid(d)) \in Valid(d)
        /\ \A m \in Valid(d) \ {Newest(d, Valid(d))} : <<Newest(d, Valid(d)), m>> \in d.later
    BY <1>6, <2>2, NewestExists
  <2>4. Choice(d) \in Valid(d) /\ Choice(d) # "" /\ Recoverable(d) = d.file[Choice(d)].val
    BY <1>2, <2>1, <2>3 DEF Recoverable
  <2>5. \A m \in Valid(d) \ {Choice(d)} : d.file[m].val <= d.file[Choice(d)].val
    BY <1>1, <1>2, <2>1, <2>3, <2>4 DEF Sound
  <2>6. Choice(d) \in Candidates /\ d.file[Choice(d)].val \in 0 .. top
    BY <1>1, <1>2, <2>4
  <2>7. ASSUME NEW n \in Candidates PROVE d.file[n].val <= d.file[Choice(d)].val
    <3>1. CASE n \in Valid(d)
      BY <2>5, <2>6, <3>1
    <3>2. CASE n \notin Valid(d)
      BY <1>1, <2>6, <3>2
    <3> QED BY <3>1, <3>2
  <2>8. Below(d, Recoverable(d))
    BY <2>4, <2>7 DEF Below
  <2> QED BY <1>6, <2>4, <2>6, <2>8
<1> QED BY <1>3, <1>4, <1>5, <1>6

\* The three effects keep a directory sound.
LEMMA UnlinkedSound ==
  ASSUME NEW d, NEW top \in Nat, Sound(d, top), NEW n \in Names
  PROVE  /\ Sound(Unlinked(d, n), top)
         /\ \A m \in Names \ {n} : Unlinked(d, n).file[m] = d.file[m]
         /\ Unlinked(d, n).file[n] = Absent
         /\ \A a, b : <<a, b>> \in Unlinked(d, n).later <=> <<a, b>> \in d.later /\ a # n /\ b # n
<1> DEFINE e == Unlinked(d, n)
<1>1. /\ e.file = [d.file EXCEPT ![n] = Absent] /\ e.later = {p \in d.later : n \notin {p[1], p[2]}}
      /\ e = [file |-> e.file, later |-> e.later]
  BY DEF Unlinked
<1> HIDE DEF e
<1>2. d.file \in [Names -> {Absent, Torn} \cup {Whole(v) : v \in 0 .. top}]
  BY DEF Sound, IsDir
<1>3. /\ \A m \in Names \ {n} : e.file[m] = d.file[m]
      /\ e.file[n] = Absent
      /\ e.file \in [Names -> {Absent, Torn} \cup {Whole(v) : v \in 0 .. top}]
  BY <1>1, <1>2
<1>4. \A a, b : <<a, b>> \in e.later <=> <<a, b>> \in d.later /\ a # n /\ b # n
  BY <1>1
<1>5. Present(e) = Present(d) \ {n}
  BY <1>3 DEF Present
<1>6. e.later \subseteq Present(e) \X Present(e)
  <2>1. \A p \in e.later : p \in Present(d) \X Present(d) /\ n \notin {p[1], p[2]}
    BY <1>1 DEF Sound, IsDir
  <2> QED BY <1>5, <2>1
<1>7. IsDir(e, top)
  BY <1>3, <1>4, <1>5, <1>6 DEF IsDir, Sound
<1>8. \A m \in Names : IsWhole(e, m) => m # n /\ IsWhole(d, m) /\ e.file[m] = d.file[m]
  BY <1>3 DEF IsWhole, Absent
<1>9. \A m \in Names : e.file[m].val \in {0, d.file[m].val}
  <2>1. e.file[n].val = 0
    BY <1>3 DEF Absent
  <2>2. \A m \in Names \ {n} : e.file[m].val = d.file[m].val
    BY <1>3
  <2> QED BY <2>1, <2>2
<1>10. Sound(e, top)
  <2>1. \A a, b, c \in Names : <<a, b>> \in e.later /\ <<b, c>> \in e.later => <<a, c>> \in e.later
    BY <1>4 DEF Sound
  <2>2. \A a, b \in Candidates :
          IsWhole(e, a) /\ IsWhole(e, b) /\ <<a, b>> \in e.later => e.file[a].val >= e.file[b].val
    BY <1>4, <1>8 DEF Sound, Candidates
  <2>3. IsWhole(e, "live") => \A m \in {"bakTmp", "bak"} : e.file[m].val <= e.file["live"].val
    <3> SUFFICES ASSUME IsWhole(e, "live"), NEW m \in {"bakTmp", "bak"}
                 PROVE  e.file[m].val <= e.file["live"].val
      OBVIOUS
    <3>1. m \in Names /\ "live" \in Names
      BY DEF Names
    <3>2. e.file["live"] = d.file["live"] /\ IsWhole(d, "live") /\ d.file["live"].val \in 0 .. top
      BY <1>8, <3>1, Contents DEF Sound
    <3> QED BY <1>9, <3>1, <3>2 DEF Sound
  <2> QED BY <1>1, <1>4, <1>7, <2>1, <2>2, <2>3 DEF Sound
<1> QED BY <1>3, <1>4, <1>10 DEF e

\* A rename onto a name keeps the directory sound, unless it tears the live file or sets a backup ahead of it.
LEMMA PutSound ==
  ASSUME NEW d, NEW top \in Nat, Sound(d, top), NEW n \in Names,
         NEW f \in {Torn} \cup {Whole(v) : v \in 0 .. top},
         n = "live" => f # Torn,
         f # Torn => /\ Below(d, f.val)
                     /\ n \in {"bakTmp", "bak"} => d.file["live"] = f
  PROVE  /\ Sound(Put(d, n, f), top)
         /\ \A m \in Names \ {n} : Put(d, n, f).file[m] = d.file[m]
         /\ Put(d, n, f).file[n] = f
         /\ OnTop(Put(d, n, f), n)
<1> DEFINE e == Put(d, n, f)
<1>1. /\ e.file = [d.file EXCEPT ![n] = f]
      /\ e.later = Unlinked(d, n).later \cup {n} \X (Present(d) \ {n})
      /\ e = [file |-> e.file, later |-> e.later]
  BY DEF Put
<1> HIDE DEF e
<1>2. d.file \in [Names -> {Absent, Torn} \cup {Whole(v) : v \in 0 .. top}]
  BY DEF Sound, IsDir
<1>3. /\ \A m \in Names \ {n} : e.file[m] = d.file[m]
      /\ e.file[n] = f /\ f # Absent
      /\ e.file \in [Names -> {Absent, Torn} \cup {Whole(v) : v \in 0 .. top}]
  BY <1>1, <1>2 DEF Absent, Torn, Whole
<1>4. \A a, b : <<a, b>> \in e.later <=>
        \/ <<a, b>> \in d.later /\ a # n /\ b # n
        \/ a = n /\ b \in Present(d) \ {n}
  <2>1. \A a, b : <<a, b>> \in Unlinked(d, n).later <=> <<a, b>> \in d.later /\ a # n /\ b # n
    BY DEF Unlinked
  <2>2. \A a, b : <<a, b>> \in {n} \X (Present(d) \ {n}) <=> a = n /\ b \in Present(d) \ {n}
    OBVIOUS
  <2> QED BY <1>1, <2>1, <2>2
<1>5. Present(e) = Present(d) \cup {n}
  BY <1>3 DEF Present
<1>6. e.later \subseteq Present(e) \X Present(e)
  <2>1. Unlinked(d, n).later \subseteq Present(d) \X Present(d)
    BY DEF Unlinked, Sound, IsDir
  <2> QED BY <1>1, <1>5, <2>1
<1>7. \A a, b \in Present(e) : a # b => (<<a, b>> \in e.later <=> <<b, a>> \notin e.later)
  BY <1>4, <1>5 DEF Sound, IsDir
<1>8. IsDir(e, top)
  BY <1>3, <1>6, <1>7 DEF IsDir
<1>9. \A a, b, c \in Names : <<a, b>> \in e.later /\ <<b, c>> \in e.later => <<a, c>> \in e.later
  <2>1. \A a, b : <<a, b>> \in d.later => a \in Present(d) /\ b \in Present(d)
    BY DEF Sound, IsDir
  <2> QED BY <1>4, <2>1 DEF Sound
<1>10. \A m \in Names : m # n => (IsWhole(e, m) <=> IsWhole(d, m))
  BY <1>3 DEF IsWhole
<1>11. IsWhole(e, n) => f # Torn
  BY <1>3 DEF IsWhole, Torn
<1>12. \A a, b \in Candidates :
         IsWhole(e, a) /\ IsWhole(e, b) /\ <<a, b>> \in e.later => e.file[a].val >= e.file[b].val
  <2> SUFFICES ASSUME NEW a \in Candidates, NEW b \in Candidates,
                      IsWhole(e, a), IsWhole(e, b), <<a, b>> \in e.later
               PROVE  e.file[a].val >= e.file[b].val
    OBVIOUS
  <2>1. a \in Names /\ b \in Names /\ b # n
    BY <1>4 DEF Candidates
  <2>2. CASE a = n
    <3>1. f # Torn
      BY <1>11, <2>2
    <3>2. e.file[b] = d.file[b] /\ e.file[a] = f
      BY <1>3, <2>1, <2>2
    <3>3. d.file[b].val <= f.val
      BY <3>1 DEF Below
    <3>4. d.file[b].val \in 0 .. top
      BY <2>1, Contents DEF Sound
    <3>5. f.val \in 0 .. top
      BY <3>1 DEF Whole
    <3> QED BY <3>2, <3>3, <3>4, <3>5
  <2>3. CASE a # n
    BY <1>3, <1>4, <1>10, <2>1, <2>3 DEF Sound
  <2> QED BY <2>2, <2>3
<1>13. IsWhole(e, "live") => \A m \in {"bakTmp", "bak"} : e.file[m].val <= e.file["live"].val
  <2> SUFFICES ASSUME IsWhole(e, "live"), NEW m \in {"bakTmp", "bak"}
               PROVE  e.file[m].val <= e.file["live"].val
    OBVIOUS
  <2>1. m \in Names /\ "live" \in Names
    BY DEF Names
  <2>5. CASE n = "live"
    <3>1. f # Torn /\ e.file["live"] = f /\ e.file[m] = d.file[m]
      BY <1>3, <2>1, <2>5
    <3>2. d.file[m].val <= f.val
      BY <3>1 DEF Below, Candidates, Names
    <3> QED BY <3>1, <3>2
  <2>2. ASSUME n # "live"
        PROVE  e.file["live"] = d.file["live"] /\ IsWhole(d, "live") /\ d.file["live"].val \in 0 .. top
    BY <1>3, <1>10, <2>1, <2>2, Contents DEF Sound
  <2>3. CASE m = n
    <3>1. n # "live" /\ (f = Torn \/ f = d.file["live"])
      BY <2>3
    <3>2. f.val <= d.file["live"].val
      BY <2>2, <3>1 DEF Torn
    <3> QED BY <1>3, <2>2, <2>3, <3>2
  <2>4. CASE m # n /\ n # "live"
    BY <1>3, <2>1, <2>2, <2>4 DEF Sound
  <2> QED BY <2>3, <2>4, <2>5
<1>14. Sound(e, top)
  BY <1>1, <1>4, <1>8, <1>9, <1>12, <1>13 DEF Sound
<1>15. OnTop(e, n)
  BY <1>4, <1>5 DEF OnTop
<1> QED BY <1>3, <1>14, <1>15 DEF e

\* A rename of the newest variant is its removal and a write of the same content
\* under the other name.
LEMMA RenamedSound ==
  ASSUME NEW d, NEW top \in Nat, Sound(d, top), NEW a \in Names, NEW b \in Names, a # b,
         OnTop(d, a), NEW v \in 0 .. top, d.file[a] = Whole(v), Below(d, v),
         b # "live" => b = "bak" /\ a # "live" /\ d.file["live"] = Whole(v)
  PROVE  /\ Sound(Renamed(d, a, b), top)
         /\ \A m \in Names \ {a, b} : Renamed(d, a, b).file[m] = d.file[m]
         /\ Renamed(d, a, b).file[a] = Absent
         /\ Renamed(d, a, b).file[b] = Whole(v)
<1> DEFINE u == Unlinked(d, a)
           e == Put(u, b, Whole(v))
<1>1. /\ Sound(u, top)
      /\ \A m \in Names \ {a} : u.file[m] = d.file[m]
      /\ u.file[a] = Absent
      /\ \A x, y : <<x, y>> \in u.later <=> <<x, y>> \in d.later /\ x # a /\ y # a
  BY UnlinkedSound
<1>2. Below(u, v)
  <2>1. u.file[a].val = 0
    BY <1>1 DEF Absent
  <2>2. \A m \in Names \ {a} : u.file[m].val = d.file[m].val
    BY <1>1
  <2> SUFFICES ASSUME NEW m \in Candidates PROVE u.file[m].val <= v
    BY DEF Below
  <2> HIDE DEF u
  <2>3. CASE m = a
    BY <2>1, <2>3
  <2>4. CASE m # a
    BY <2>2, <2>4 DEF Below, Candidates
  <2> QED BY <2>3, <2>4
<1>3. /\ Sound(e, top)
      /\ \A m \in Names \ {b} : e.file[m] = u.file[m]
      /\ e.file[b] = Whole(v)
  <2>1. Whole(v) # Torn /\ Whole(v).val = v
    BY DEF Whole, Torn
  <2>2. b = "bak" => u.file["live"] = Whole(v)
    BY <1>1 DEF Names
  <2>3. b # "live" => b \notin {"bakTmp"}
    OBVIOUS
  <2>4. Below(u, Whole(v).val) /\ Whole(v) \in {Torn} \cup {Whole(w) : w \in 0 .. top}
    BY <1>2, <2>1
  <2>5. b \in {"bakTmp", "bak"} => u.file["live"] = Whole(v)
    BY <2>2, <2>3
  <2> DEFINE f == Whole(v)
  <2>6. f # Torn /\ Below(u, f.val) /\ f \in {Torn} \cup {Whole(w) : w \in 0 .. top}
        /\ (b \in {"bakTmp", "bak"} => u.file["live"] = f)
    BY <2>1, <2>4, <2>5
  <2> HIDE DEF u, f
  <2>7. /\ Sound(Put(u, b, f), top)
        /\ \A m \in Names \ {b} : Put(u, b, f).file[m] = u.file[m]
        /\ Put(u, b, f).file[b] = f
    BY <1>1, <2>6, PutSound
  <2> QED BY <2>7 DEF f
<1>4. Renamed(d, a, b) = e
  <2>1. Renamed(d, a, b).file = e.file
    <3>1. d.file \in [Names -> {Absent, Torn} \cup {Whole(w) : w \in 0 .. top}]
      BY DEF Sound, IsDir
    <3> QED BY <3>1 DEF Renamed, Put, Unlinked
  <2>2. Renamed(d, a, b).later = e.later
    <3> DEFINE As(n) == IF n = a THEN b ELSE n
               R == {<<As(p[1]), As(p[2])>> : p \in Unlinked(d, b).later}
    <3>1. Renamed(d, a, b).later = R
      BY DEF Renamed
    <3>2. e.later = Unlinked(u, b).later \cup {b} \X (Present(u) \ {b})
      BY DEF Put
    <3>3. \A x, y : <<x, y>> \in Unlinked(d, b).later <=> <<x, y>> \in d.later /\ x # b /\ y # b
      BY UnlinkedSound
    <3>4. \A x, y : <<x, y>> \in Unlinked(u, b).later
                      <=> <<x, y>> \in d.later /\ x \notin {a, b} /\ y \notin {a, b}
      <4>1. \A x, y : <<x, y>> \in Unlinked(u, b).later <=> <<x, y>> \in u.later /\ x # b /\ y # b
        <5> HIDE DEF u
        <5> QED BY <1>1, UnlinkedSound
      <4> QED BY <1>1, <4>1
    <3>5. Present(u) \ {b} = Present(d) \ {a, b}
      BY <1>1 DEF Present
    <3>6. \A x : <<x, a>> \notin d.later
      BY DEF Sound, OnTop, IsDir
    <3>7. \A y : <<a, y>> \in d.later <=> y \in Present(d) \ {a}
      BY <3>6 DEF Sound, OnTop, IsDir
    <3>8. \A p \in d.later : p = <<p[1], p[2]>>
      BY DEF Sound, IsDir
    <3>9. R \subseteq e.later
      <4> SUFFICES ASSUME NEW p \in Unlinked(d, b).later
                   PROVE  <<As(p[1]), As(p[2])>> \in e.later
        OBVIOUS
      <4>1. <<p[1], p[2]>> \in d.later /\ p[1] # b /\ p[2] # b /\ p[2] # a
        BY <3>6, <3>8 DEF Unlinked
      <4>2. CASE p[1] = a
        BY <3>2, <3>5, <3>7, <4>1, <4>2
      <4>3. CASE p[1] # a
        BY <3>2, <3>4, <4>1, <4>3
      <4> QED BY <4>2, <4>3
    <3>10. e.later \subseteq R
      <4>1. ASSUME NEW q \in Unlinked(u, b).later PROVE q \in R
        <5>1. q = <<q[1], q[2]>>
          BY <1>1, <3>8 DEF Unlinked
        <5>2. <<q[1], q[2]>> \in Unlinked(d, b).later /\ q[1] # a /\ q[2] # a
          BY <3>3, <3>4, <4>1, <5>1
        <5> QED BY <5>1, <5>2
      <4>2. ASSUME NEW y \in Present(u) \ {b} PROVE <<b, y>> \in R
        <5>1. <<a, y>> \in Unlinked(d, b).later /\ y # a
          BY <3>3, <3>5, <3>7, <4>2
        <5> QED BY <5>1
      <4> QED BY <3>2, <4>1, <4>2
    <3> QED BY <3>1, <3>9, <3>10
  <2> QED BY <2>1, <2>2 DEF Renamed, Put
<1> QED BY <1>1, <1>3, <1>4

Under(e, d) == \A n \in Candidates : e.file[n].val <= d.file[n].val

\* Smaller contents, smaller find.
LEMMA FoundMonotone ==
  ASSUME NEW d, NEW e, NEW top \in Nat, Sound(d, top), Sound(e, top), Under(e, d)
  PROVE  Recoverable(e) <= Recoverable(d)
<1>1. Recoverable(d) \in 0 .. top /\ Below(d, Recoverable(d))
  BY LargestIsFound
<1>2. Recoverable(e) \in 0 .. top
  BY LargestIsFound
<1>3. CASE Choice(e) = ""
  <2>1. Recoverable(e) = 0
    BY <1>3, LargestIsFound
  <2> QED BY <1>1, <2>1
<1>4. CASE Choice(e) # ""
  <2>1. Recoverable(e) = e.file[Choice(e)].val /\ Choice(e) \in Candidates
    BY <1>4, LargestIsFound DEF Valid
  <2>2. d.file[Choice(e)].val <= Recoverable(d) /\ e.file[Choice(e)].val <= d.file[Choice(e)].val
    BY <1>1, <2>1 DEF Below, Under
  <2>3. d.file[Choice(e)].val \in 0 .. top
    BY <2>1, Contents DEF Sound, Candidates
  <2> DEFINE r == Recoverable(d)
             s == Recoverable(e)
             m == d.file[Choice(e)].val
  <2>4. s <= m /\ m <= r /\ s \in 0 .. top /\ m \in 0 .. top /\ r \in 0 .. top
    BY <1>1, <1>2, <2>1, <2>2, <2>3
  <2> HIDE DEF r, s, m
  <2>5. s <= r
    BY <2>4
  <2> QED BY <2>5 DEF r, s
<1> QED BY <1>3, <1>4

\* Recovery finds the same in two directories with the same contents.
LEMMA FoundSame ==
  ASSUME NEW d, NEW e, NEW top \in Nat, Sound(d, top), Sound(e, top),
         \A n \in Candidates : e.file[n].val = d.file[n].val
  PROVE  Recoverable(e) = Recoverable(d)
<1>1. \A n \in Candidates : d.file[n].val \in 0 .. top
  BY Contents DEF Sound, Candidates
<1>2. Recoverable(e) <= Recoverable(d) /\ Recoverable(d) <= Recoverable(e)
  <2>1. Under(e, d) /\ Under(d, e)
    BY <1>1 DEF Under
  <2> QED BY <2>1, FoundMonotone
<1>3. Recoverable(e) \in 0 .. top /\ Recoverable(d) \in 0 .. top
  BY LargestIsFound
<1> QED BY <1>2, <1>3

\* Recovery finds nothing above what all variants are below.
LEMMA FoundBelow ==
  ASSUME NEW d, NEW top \in Nat, Sound(d, top), NEW v \in Nat, Below(d, v)
  PROVE  Recoverable(d) <= v
<1>1. CASE Choice(d) = ""
  <2>1. Recoverable(d) = 0
    BY <1>1, LargestIsFound
  <2> QED BY <2>1
<1>2. CASE Choice(d) # ""
  <2>1. Recoverable(d) = d.file[Choice(d)].val /\ Choice(d) \in Candidates
    BY <1>2, LargestIsFound DEF Valid
  <2>2. d.file[Choice(d)].val <= v
    BY <2>1 DEF Below
  <2> QED BY <2>1, <2>2
<1> QED BY <1>1, <1>2

\* A complete live file that holds the largest value is what is found.
LEMMA FoundLive ==
  ASSUME NEW d, NEW top \in Nat, Sound(d, top), NEW v \in 0 .. top,
         d.file["live"] = Whole(v), Below(d, v)
  PROVE  Recoverable(d) = v
<1>1. Recoverable(d) \in 0 .. top /\ Below(d, Recoverable(d))
  BY LargestIsFound
<1>2. d.file["live"].val = v /\ "live" \in Candidates
  BY DEF Whole, Candidates, Names
<1>3. v <= Recoverable(d)
  BY <1>1, <1>2 DEF Below
<1>4. Recoverable(d) <= v
  BY FoundBelow
<1> DEFINE r == Recoverable(d)
<1>5. v <= r /\ r <= v /\ r \in 0 .. top
  BY <1>1, <1>3, <1>4
<1> HIDE DEF r
<1>6. r = v
  BY <1>5
<1> QED BY <1>6 DEF r

\* The live file becomes unreadable.
LEMMA DamagedSound ==
  ASSUME NEW d, NEW top \in Nat, Sound(d, top), IsWhole(d, "live"),
         NEW e, e = [d EXCEPT !.file["live"] = Torn]
  PROVE  /\ Sound(e, top)
         /\ \A m \in Names \ {"live"} : e.file[m] = d.file[m]
         /\ e.file["live"] = Torn
         /\ Recoverable(e) <= Recoverable(d)
<1>1. /\ d.file \in [Names -> {Absent, Torn} \cup {Whole(v) : v \in 0 .. top}]
      /\ d = [file |-> d.file, later |-> d.later]
  BY DEF Sound, IsDir
<1>2. /\ e.file = [d.file EXCEPT !["live"] = Torn] /\ e.later = d.later
      /\ e = [file |-> e.file, later |-> e.later]
  BY <1>1
<1>3. /\ \A m \in Names \ {"live"} : e.file[m] = d.file[m]
      /\ e.file["live"] = Torn /\ "live" \in Names
      /\ e.file \in [Names -> {Absent, Torn} \cup {Whole(v) : v \in 0 .. top}]
  BY <1>1, <1>2 DEF Names
<1>4. Torn # Absent /\ Torn.is = "torn" /\ Torn.val = 0 /\ d.file["live"] # Absent
  BY DEF Torn, Absent, IsWhole
<1>5. Present(e) = Present(d)
  BY <1>3, <1>4 DEF Present
<1>6. IsDir(e, top)
  BY <1>2, <1>3, <1>5 DEF IsDir, Sound
<1>7. \A m \in Names : IsWhole(e, m) => m # "live" /\ IsWhole(d, m) /\ e.file[m] = d.file[m]
  BY <1>3, <1>4 DEF IsWhole
<1>8. Sound(e, top)
  <2>1. \A a, b \in Candidates :
          IsWhole(e, a) /\ IsWhole(e, b) /\ <<a, b>> \in e.later => e.file[a].val >= e.file[b].val
    BY <1>2, <1>7 DEF Sound, Candidates
  <2>2. ~IsWhole(e, "live")
    BY <1>3, <1>7
  <2> QED BY <1>2, <1>6, <2>1, <2>2 DEF Sound
<1>9. Under(e, d)
  <2> SUFFICES ASSUME NEW n \in Candidates PROVE e.file[n].val <= d.file[n].val
    BY DEF Under
  <2>1. n \in Names /\ d.file[n].val \in 0 .. top
    BY Contents DEF Sound, Candidates
  <2>2. CASE n = "live"
    BY <1>3, <1>4, <2>1, <2>2
  <2>3. CASE n # "live"
    BY <1>3, <2>1, <2>3
  <2> QED BY <2>2, <2>3
<1> QED BY <1>3, <1>8, <1>9, FoundMonotone

\* An open sets aside an unreadable live file: what it finds stays the same.
LEMMA ArchivedSound ==
  ASSUME NEW d, NEW top \in Nat, Sound(d, top)
  PROVE  /\ Sound(Archived(d), top)
         /\ \A n \in Names : Archived(d).file[n].val = d.file[n].val
         /\ Recoverable(Archived(d)) = Recoverable(d)
<1>1. CASE d.file["live"] = Torn
  <2> DEFINE e == Unlinked(d, "live")
  <2>1. /\ Sound(e, top) /\ e.file["live"] = Absent
        /\ \A m \in Names \ {"live"} : e.file[m] = d.file[m]
    BY UnlinkedSound DEF Names
  <2>2. \A n \in Names : e.file[n].val = d.file[n].val
    BY <1>1, <2>1 DEF Absent, Torn
  <2>3. Archived(d) = e
    BY <1>1 DEF Archived
  <2> HIDE DEF e
  <2>4. Recoverable(e) = Recoverable(d)
    BY <2>1, <2>2, FoundSame DEF Candidates
  <2> QED BY <2>1, <2>2, <2>3, <2>4
<1>2. CASE d.file["live"] # Torn
  BY <1>2 DEF Archived
<1> QED BY <1>1, <1>2

\* One step of persistSqliteSnapshot with a value that is the largest.
LEMMA StepSound ==
  ASSUME NEW d, NEW top \in Nat, Sound(d, top),
         NEW step \in PersistSteps, NEW t \in {"tmp", "recTmp"},
         NEW v \in 0 .. top, Below(d, v),
         step = "written" => d.file[t] = Whole(v) /\ OnTop(d, t),
         step \in {"renamed", "bakTmp", "bakWritten"} => d.file["live"] = Whole(v),
         step = "bakWritten" => d.file["bakTmp"] = Whole(v) /\ OnTop(d, "bakTmp"),
         NEW e, e = PersistEffect(d, step, t, v)
  PROVE  /\ Sound(e, top) /\ Below(e, v)
         /\ e.file["live"] = IF step = "written" THEN Whole(v) ELSE d.file["live"]
         /\ e.file["bak"] = IF step = "bakWritten" THEN Whole(v) ELSE d.file["bak"]
         /\ step = "tmp" => e.file[t] = Whole(v) /\ OnTop(e, t)
         /\ step = "bakTmp" => e.file["bakTmp"] = Whole(v) /\ OnTop(e, "bakTmp")
         /\ t = "recTmp" /\ v = Recoverable(d) => Recoverable(e) = v
<1>1. /\ t \in Names /\ t # "live" /\ t # "bak" /\ t # "bakTmp"
      /\ "live" \in Names /\ "bak" \in Names /\ "bakTmp" \in Names
      /\ Torn.val = 0 /\ Whole(v).val = v /\ Whole(v) # Torn /\ Absent.val = 0
      /\ Torn \in {Torn} \cup {Whole(w) : w \in 0 .. top}
      /\ Whole(v) \in {Torn} \cup {Whole(w) : w \in 0 .. top}
  BY DEF Names, Torn, Whole, Absent
<1>2. \A n \in Candidates : n \in Names /\ d.file[n].val <= v
  BY DEF Below, Candidates
<1>3. ASSUME NEW n \in Names, NEW f \in {Torn, Whole(v)}, n # "live", e = Put(d, n, f),
             n \in {"bakTmp", "bak"} /\ f # Torn => d.file["live"] = f
      PROVE  /\ Sound(e, top) /\ Below(e, v)
             /\ \A m \in Names \ {n} : e.file[m] = d.file[m]
             /\ e.file[n] = f /\ OnTop(e, n)
  <2>1. /\ Sound(e, top) /\ OnTop(e, n) /\ e.file[n] = f
        /\ \A m \in Names \ {n} : e.file[m] = d.file[m]
    BY <1>1, <1>3, PutSound
  <2>2. f.val <= v
    BY <1>1
  <2>3. Below(e, v)
    BY <1>2, <2>1, <2>2 DEF Below
  <2> QED BY <2>1, <2>3
<1>4. ASSUME Sound(e, top), Below(e, v), e.file["live"] = Whole(v)
      PROVE  Recoverable(e) = v
  BY <1>4, FoundLive
<1>5. ASSUME NEW n \in Names, NEW b \in {"live", "bak"}, n # b, n # "live", e = Renamed(d, n, b),
             OnTop(d, n), d.file[n] = Whole(v), b = "bak" => d.file["live"] = Whole(v)
      PROVE  /\ Sound(e, top) /\ Below(e, v)
             /\ \A m \in Names \ {n, b} : e.file[m] = d.file[m]
             /\ e.file[b] = Whole(v)
  <2>1. /\ Sound(e, top) /\ e.file[b] = Whole(v) /\ e.file[n] = Absent
        /\ \A m \in Names \ {n, b} : e.file[m] = d.file[m]
    BY <1>1, <1>5, RenamedSound
  <2>2. Below(e, v)
    BY <1>1, <1>2, <2>1 DEF Below
  <2> QED BY <2>1, <2>2
<1>6. ASSUME t = "recTmp", v = Recoverable(d), Sound(e, top),
             \A m \in Names \ {t} : e.file[m] = d.file[m]
      PROVE  Recoverable(e) = v
  <2>1. \A n \in Candidates : e.file[n].val = d.file[n].val
    BY <1>6 DEF Candidates
  <2> QED BY <1>6, <2>1, FoundSame
<1>7. CASE step = "begin"
  <2>1. e = Put(d, t, Torn)
    BY <1>7 DEF PersistEffect
  <2> QED BY <1>1, <1>3, <1>6, <1>7, <2>1
<1>8. CASE step = "tmp"
  <2>1. e = Put(d, t, Whole(v))
    BY <1>8 DEF PersistEffect
  <2> QED BY <1>1, <1>3, <1>6, <1>8, <2>1
<1>9. CASE step = "written"
  <2>1. e = Renamed(d, t, "live")
    BY <1>9 DEF PersistEffect
  <2> QED BY <1>1, <1>4, <1>5, <1>9, <2>1
<1>10. CASE step = "renamed"
  <2>1. e = Put(d, "bakTmp", Torn)
    BY <1>10 DEF PersistEffect
  <2> QED BY <1>1, <1>3, <1>4, <1>10, <2>1
<1>11. CASE step = "bakTmp"
  <2>1. e = Put(d, "bakTmp", Whole(v))
    BY <1>11 DEF PersistEffect
  <2> QED BY <1>1, <1>3, <1>4, <1>11, <2>1
<1>12. CASE step = "bakWritten"
  <2>1. e = Renamed(d, "bakTmp", "bak")
    BY <1>12 DEF PersistEffect
  <2> QED BY <1>1, <1>4, <1>5, <1>12, <2>1
<1> QED BY <1>7, <1>8, <1>9, <1>10, <1>11, <1>12 DEF PersistSteps

-----------------------------------------------------------------------------
\* The inductive invariant.  Who may be under way at the same time: a drain
\* that writes has stopped the background save and keeps it blocked, a close
\* has waited for the flush, and nobody starts a flush behind a close.
Drains == {"flush", "close"}

Steps == PersistSteps \cup {"idle", "done", "failed"}

Shape ==
  /\ io \in [Writers -> [step : Steps, val : 0 .. MaxPuts]]
  /\ \A w \in Writers : io[w].step = "idle" => io[w] = NoIO
  /\ drain \in [Drains -> [pc : DrainPcs, failed : BOOLEAN]]
  /\ need \in [Drains -> 0 .. MaxPuts]
  /\ \A d \in Drains : /\ drain[d].pc = "none" => drain[d] = NoDrain /\ need[d] = 0
                       /\ need[d] <= mem
  /\ mem \in 0 .. issued /\ issued \in 0 .. MaxPuts
  /\ strict \in 0 .. MaxStrict /\ fails \in Nat

Flags ==
  /\ open \in BOOLEAN /\ dirty \in BOOLEAN /\ timer \in BOOLEAN /\ block \in BOOLEAN
  /\ setup \in BOOLEAN /\ saving \in BOOLEAN /\ retired \in BOOLEAN /\ gone \in BOOLEAN
  /\ opening \in {"no", "recovering"}

Turns ==
  /\ saving <=> io["save"].step # "idle"
  /\ \A d \in Drains : drain[d].pc = "writing" <=> io[d].step # "idle"
  /\ opening = "recovering" <=> io["open"].step # "idle"
  /\ drain["flush"].pc # "flush"
  /\ drain["flush"].pc \in {"saving", "writing"} => block
  /\ drain["flush"].pc = "ending" => ~block
  /\ drain["close"].pc \in {"saving", "writing", "ending"} => block /\ drain["flush"].pc = "none"
  /\ \A d \in Drains : drain[d].pc \in {"writing", "ending"} => ~saving
  /\ strict > 0 => open /\ drain["close"].pc = "none"
  /\ ~open => ~saving /\ strict = 0 /\ \A d \in Drains : drain[d].pc = "none"
  /\ opening = "recovering" => ~open /\ ~retired /\ ~block
  /\ open /\ block => \E d \in Drains : drain[d].pc # "none"
  /\ \A w \in Writers : io[w].step = "failed" => fails > 0

\* What the file holds at each step of a write.
OnDisk ==
  /\ Sound(disk, MaxPuts)
  /\ Below(disk, issued)
  /\ open => Below(disk, mem)
  /\ \A w \in Writers : io[w].step # "idle" =>
       /\ Below(disk, io[w].val)
       /\ w # "open" => io[w].val <= mem
       /\ w = "open" => io[w].val = Recoverable(disk)
       /\ io[w].step = "written" => disk.file[Tmp(w)] = Whole(io[w].val) /\ OnTop(disk, Tmp(w))
       /\ io[w].step \in {"renamed", "bakTmp", "bakWritten", "done"} =>
            disk.file["live"] = Whole(io[w].val)
       /\ io[w].step = "bakWritten" =>
            disk.file["bakTmp"] = Whole(io[w].val) /\ OnTop(disk, "bakTmp")

Vouched ==
  /\ acked \in 0 .. issued
  /\ acked <= Recoverable(disk)
  /\ open => acked <= disk.file["live"].val

Deletion ==
  /\ deleting \in 0 .. 5
  /\ deleting > 0 => retired /\ ~open
  /\ \A i \in 1 .. deleting : disk.file[DeleteOrder[i]] = Absent
  /\ gone => ~open /\ opening = "no" /\ \A n \in Names : disk.file[n] = Absent

Marked ==
  open /\ ~retired =>
    \/ dirty
    \/ disk.file["live"].val = mem
    \/ \E w \in Writers : io[w].val = mem /\ io[w].step \in {"begin", "tmp", "written", "failed"}

\* Somebody will save what is marked; the end of a flush leaves that to the timer.
Attended ==
  open /\ ~retired /\ dirty /\ disk.file["live"].val # mem =>
    /\ timer \/ saving \/ fails > 0 \/ \E d \in Drains : drain[d].pc # "none"
    /\ drain["flush"].pc = "ending" => timer \/ drain["close"].pc # "none"

SaverIInv == Shape /\ Flags /\ Turns /\ OnDisk /\ Vouched /\ Deletion /\ Marked /\ Attended

\* The invariant holds of an empty directory and a saver that is not open.
LEMMA InitSaver == Init => SaverIInv
<1> SUFFICES ASSUME Init PROVE SaverIInv
  OBVIOUS
<1> USE SaverAssumption
<1>0. /\ \A w \in Writers : io[w] = NoIO /\ io[w].step = "idle"
      /\ \A d \in Drains : drain[d] = NoDrain /\ drain[d].pc = "none" /\ need[d] = 0
      /\ Drains = {"flush", "close"} /\ "save" \in Writers /\ "open" \in Writers /\ Drains \subseteq Writers
  BY DEF Init, Fresh, NoIO, NoDrain, Drains, Writers
<1>1. Shape /\ Flags /\ Turns /\ Marked /\ Attended
  <2>1. Shape
    <3>1. /\ NoIO \in [step : Steps, val : 0 .. MaxPuts]
          /\ NoDrain \in [pc : DrainPcs, failed : BOOLEAN]
      BY DEF NoIO, NoDrain, Steps, DrainPcs
    <3>2. /\ io \in [Writers -> [step : Steps, val : 0 .. MaxPuts]]
          /\ drain \in [Drains -> [pc : DrainPcs, failed : BOOLEAN]]
          /\ need \in [Drains -> 0 .. MaxPuts]
      BY <1>0, <3>1 DEF Init, Fresh
    <3>3. /\ \A w \in Writers : io[w].step = "idle" => io[w] = NoIO
          /\ \A d \in Drains : /\ drain[d].pc = "none" => drain[d] = NoDrain /\ need[d] = 0
                               /\ need[d] <= mem
      <4>1. mem = 0
        BY DEF Init
      <4>2. \A d \in Drains : need[d] <= mem
        BY <1>0, <4>1
      <4> QED BY <1>0, <4>2
    <3>4. mem \in 0 .. issued /\ issued \in 0 .. MaxPuts /\ strict \in 0 .. MaxStrict /\ fails \in Nat
      BY DEF Init, Fresh
    <3> QED BY <3>2, <3>3, <3>4 DEF Shape
  <2>4. Flags
    BY DEF Init, Fresh, Flags
  <2>2. Turns
    BY <1>0 DEF Init, Fresh, Turns
  <2>3. Marked /\ Attended
    BY DEF Init, Fresh, Marked, Attended
  <2> QED BY <2>1, <2>2, <2>3, <2>4
<1>2. \A n \in Names : disk.file[n] = Absent /\ disk.file[n].val = 0 /\ ~IsWhole(disk, n)
  BY DEF Init, EmptyDir, IsWhole, Absent
<1>3. Present(disk) = {} /\ disk.later = {}
  BY <1>2 DEF Present, Init, EmptyDir
<1>4. IsDir(disk, MaxPuts)
  BY <1>3 DEF IsDir, Init, EmptyDir
<1>5. Sound(disk, MaxPuts)
  BY <1>2, <1>3, <1>4 DEF Sound, Init, EmptyDir, Names
<1>6. Recoverable(disk) = 0
  <2>1. Valid(disk) = {}
    BY <1>2 DEF Valid, IsWhole, Candidates
  <2> QED BY <2>1 DEF Recoverable, Choice
<1>7. OnDisk
  BY <1>2, <1>5 DEF Init, Fresh, OnDisk, Below, NoIO, Candidates
<1>8. Vouched /\ Deletion
  BY <1>6 DEF Init, Fresh, Vouched, Deletion
<1> QED BY <1>1, <1>7, <1>8 DEF SaverIInv

-----------------------------------------------------------------------------
\* At most one writer is at work.
LEMMA TheWriter ==
  ASSUME Shape, Turns, NEW v \in Writers, NEW w \in Writers,
         io[v].step # "idle", io[w].step # "idle"
  PROVE  v = w
BY DEF Turns, Drains, Writers

\* What the steps have in common that leave the files alone.
LEMMA DiskKept ==
  ASSUME Shape, OnDisk, disk' = disk, open' => open,
         mem' \in Nat, mem <= mem', issued' \in Nat, issued <= issued',
         \A w \in Writers :
           \/ io'[w] = io[w] \/ io'[w] = NoIO
           \/ w # "open" /\ open /\ io'[w] = Begin(mem)
           \/ io[w].step \in PersistSteps /\ io'[w] = [io[w] EXCEPT !.step = PersistFails(@)]
  PROVE  OnDisk'
<1>1. MaxPuts \in Nat
  BY SaverAssumption
<1>2. \A n \in Candidates : disk.file[n].val \in Nat
  BY <1>1, Contents DEF OnDisk, Sound, Candidates
<1>3. mem \in Nat /\ issued \in Nat
  BY <1>1 DEF Shape
<1>4. Below(disk, issued') /\ (open => Below(disk, mem) /\ Below(disk, mem'))
  BY <1>2, <1>3 DEF OnDisk, Below
<1>5. ASSUME NEW w \in Writers, io'[w].step # "idle"
      PROVE  /\ Below(disk, io'[w].val)
             /\ w # "open" => io'[w].val <= mem'
             /\ w = "open" => io'[w].val = Recoverable(disk)
             /\ io'[w].step = "written" => disk.file[Tmp(w)] = Whole(io'[w].val) /\ OnTop(disk, Tmp(w))
             /\ io'[w].step \in {"renamed", "bakTmp", "bakWritten", "done"} =>
                  disk.file["live"] = Whole(io'[w].val)
             /\ io'[w].step = "bakWritten" =>
                  disk.file["bakTmp"] = Whole(io'[w].val) /\ OnTop(disk, "bakTmp")
  <2>1. io[w].val \in Nat /\ io[w].step \in Steps
    BY <1>1 DEF Shape
  <2>2. CASE io'[w] = io[w]
    BY <1>3, <1>5, <2>1, <2>2 DEF OnDisk
  <2>3. CASE io'[w] = NoIO
    BY <1>5, <2>3 DEF NoIO
  <2>4. CASE w # "open" /\ open /\ io'[w] = Begin(mem)
    BY <1>3, <1>4, <2>4 DEF Begin
  <2>5. CASE io[w].step \in PersistSteps /\ io'[w] = [io[w] EXCEPT !.step = PersistFails(@)]
    <3>1. io[w] \in [step : Steps, val : 0 .. MaxPuts]
      BY DEF Shape
    <3>2. io'[w].val = io[w].val /\ io'[w].step = PersistFails(io[w].step) /\ io[w].step # "idle"
      BY <2>5, <3>1 DEF PersistSteps
    <3>3. io'[w].step # "failed" =>
            io[w].step \in {"renamed", "bakTmp", "bakWritten"} /\ io'[w].step = "done"
      BY <2>5, <3>2 DEF PersistFails, PersistSteps
    <3> QED BY <1>3, <2>1, <3>2, <3>3 DEF OnDisk
  <2> QED BY <2>2, <2>3, <2>4, <2>5
<1> QED BY <1>4, <1>5 DEF OnDisk, Tmp

\* A step that leaves the files alone and settles no drain keeps what was vouched for and the deletion.
LEMMA RestKept ==
  ASSUME Shape, Vouched, Deletion, disk' = disk, acked' = acked, issued' \in Nat, issued <= issued',
         deleting' = deleting, gone' = gone, open' => open,
         deleting > 0 => retired', gone => opening' = "no"
  PROVE  Vouched' /\ Deletion'
<1>1. issued \in Nat
  BY SaverAssumption DEF Shape
<1> QED BY <1>1 DEF Vouched, Deletion

-----------------------------------------------------------------------------
\* What a step of a write does.
LEMMA WriteEffect ==
  ASSUME SaverIInv, NEW w \in Writers, Write(w)
  PROVE  /\ io[w].step \in PersistSteps /\ io[w].val \in 0 .. MaxPuts /\ io[w].step # "idle"
         /\ io'[w].step = PersistNext[io[w].step] /\ io'[w].val = io[w].val
         /\ \A x \in Writers \ {w} : io'[x] = io[x]
         /\ PersistNext[io[w].step] \in {"tmp", "written", "renamed", "bakTmp", "bakWritten", "done"}
         /\ io' \in [Writers -> [step : Steps, val : 0 .. MaxPuts]]
         /\ Sound(disk', MaxPuts) /\ Below(disk', io[w].val)
         /\ disk'.file["live"] = IF io[w].step = "written" THEN Whole(io[w].val) ELSE disk.file["live"]
         /\ disk'.file["bak"] = IF io[w].step = "bakWritten" THEN Whole(io[w].val) ELSE disk.file["bak"]
         /\ io[w].step = "tmp" => disk'.file[Tmp(w)] = Whole(io[w].val) /\ OnTop(disk', Tmp(w))
         /\ io[w].step = "bakTmp" => disk'.file["bakTmp"] = Whole(io[w].val) /\ OnTop(disk', "bakTmp")
         /\ Tmp(w) = "recTmp" /\ io[w].val = Recoverable(disk) => Recoverable(disk') = io[w].val
<1> USE DEF SaverIInv
<1> DEFINE v == io[w].val
           s == io[w].step
<1>1. /\ s \in PersistSteps /\ v \in 0 .. MaxPuts /\ s # "idle"
      /\ io'[w].step = PersistNext[s] /\ io'[w].val = v
      /\ \A x \in Writers \ {w} : io'[x] = io[x]
      /\ PersistNext[s] \in {"tmp", "written", "renamed", "bakTmp", "bakWritten", "done"}
      /\ io' \in [Writers -> [step : Steps, val : 0 .. MaxPuts]]
  <2>1. s \in PersistSteps /\ io' = [io EXCEPT ![w].step = PersistNext[@]]
    BY DEF Write
  <2>2. PersistNext[s] \in {"tmp", "written", "renamed", "bakTmp", "bakWritten", "done"} /\ s # "idle"
    BY <2>1 DEF PersistNext, PersistSteps
  <2>3. PersistNext[s] \in Steps
    BY <2>2 DEF Steps, PersistSteps
  <2> QED BY <2>1, <2>2, <2>3 DEF Shape
<1>3. /\ Sound(disk', MaxPuts) /\ Below(disk', v)
      /\ disk'.file["live"] = IF s = "written" THEN Whole(v) ELSE disk.file["live"]
      /\ disk'.file["bak"] = IF s = "bakWritten" THEN Whole(v) ELSE disk.file["bak"]
      /\ s = "tmp" => disk'.file[Tmp(w)] = Whole(v) /\ OnTop(disk', Tmp(w))
      /\ s = "bakTmp" => disk'.file["bakTmp"] = Whole(v) /\ OnTop(disk', "bakTmp")
      /\ Tmp(w) = "recTmp" /\ v = Recoverable(disk) => Recoverable(disk') = v
  <2>1. Tmp(w) \in {"tmp", "recTmp"} /\ MaxPuts \in Nat
    BY SaverAssumption DEF Tmp
  <2>2. /\ Sound(disk, MaxPuts) /\ Below(disk, v)
        /\ s = "written" => disk.file[Tmp(w)] = Whole(v) /\ OnTop(disk, Tmp(w))
        /\ s \in {"renamed", "bakTmp", "bakWritten"} => disk.file["live"] = Whole(v)
        /\ s = "bakWritten" => disk.file["bakTmp"] = Whole(v) /\ OnTop(disk, "bakTmp")
    BY <1>1 DEF OnDisk
  <2>3. disk' = PersistEffect(disk, s, Tmp(w), v)
    BY DEF Write
  <2> HIDE DEF s, v
  <2> QED BY <1>1, <2>1, <2>2, <2>3, StepSound
<1> QED BY <1>1, <1>3

\* Every step of persistSqliteSnapshot keeps the invariant.
LEMMA WriteKeeps ==
  ASSUME SaverIInv, NEW w \in Writers, Write(w)
  PROVE  SaverIInv'
<1> USE DEF SaverIInv
<1> DEFINE v == io[w].val
           s == io[w].step
<1>1. /\ s \in PersistSteps /\ v \in 0 .. MaxPuts /\ s # "idle"
      /\ io'[w].step = PersistNext[s] /\ io'[w].val = v
      /\ \A x \in Writers \ {w} : io'[x] = io[x]
      /\ PersistNext[s] \in {"tmp", "written", "renamed", "bakTmp", "bakWritten", "done"}
      /\ io' \in [Writers -> [step : Steps, val : 0 .. MaxPuts]]
  BY WriteEffect
<1>2. \A x \in Writers : io[x].step # "idle" => x = w
  BY <1>1, TheWriter
<1>3. /\ Sound(disk', MaxPuts) /\ Below(disk', v)
      /\ disk'.file["live"] = IF s = "written" THEN Whole(v) ELSE disk.file["live"]
      /\ disk'.file["bak"] = IF s = "bakWritten" THEN Whole(v) ELSE disk.file["bak"]
      /\ s = "tmp" => disk'.file[Tmp(w)] = Whole(v) /\ OnTop(disk', Tmp(w))
      /\ s = "bakTmp" => disk'.file["bakTmp"] = Whole(v) /\ OnTop(disk', "bakTmp")
      /\ Tmp(w) = "recTmp" /\ v = Recoverable(disk) => Recoverable(disk') = v
  BY WriteEffect
<1>4. /\ UNCHANGED <<open, mem, issued, dirty, timer, block, setup, saving, drain, strict, need>>
      /\ UNCHANGED <<retired, opening, deleting, gone, acked, fails>>
  BY DEF Write, memory, flags, waits, life, budget
<1>5. Shape' /\ Flags'
  <2>1. Shape'
    BY <1>1, <1>4 DEF Shape
  <2>2. Flags'
    BY <1>4 DEF Flags
  <2> QED BY <2>1, <2>2
<1>6. Turns'
  <2>1. \A x \in Writers : io'[x].step = "idle" <=> io[x].step = "idle"
    BY <1>1
  <2>2. \A x \in Writers : io'[x].step = "failed" => io[x].step = "failed"
    BY <1>1
  <2>3. Drains \subseteq Writers /\ "save" \in Writers /\ "open" \in Writers
    BY DEF Drains, Writers
  <2> QED BY <1>4, <2>1, <2>2, <2>3 DEF Turns
<1>7. /\ v <= issued /\ (w # "open" => v <= mem)
      /\ v \in Nat /\ mem \in Nat /\ issued \in Nat /\ MaxPuts \in Nat
      /\ Recoverable(disk) \in 0 .. MaxPuts /\ Recoverable(disk') \in 0 .. MaxPuts
      /\ Below(disk', Recoverable(disk'))
  <2>1. mem \in Nat /\ issued \in Nat /\ MaxPuts \in Nat /\ mem <= issued /\ v \in Nat
    BY <1>1, SaverAssumption DEF Shape
  <2>2. Recoverable(disk) \in 0 .. MaxPuts
    BY <2>1, LargestIsFound DEF OnDisk
  <2>3. Recoverable(disk') \in 0 .. MaxPuts /\ Below(disk', Recoverable(disk'))
    BY <1>3, <2>1, LargestIsFound
  <2>4. w # "open" => v <= mem
    BY <1>1 DEF OnDisk
  <2>5. w = "open" => v <= issued
    <3>1. Recoverable(disk) <= issued
      BY <2>1, FoundBelow DEF OnDisk
    <3> QED BY <1>1, <3>1 DEF OnDisk
  <2> QED BY <2>1, <2>2, <2>3, <2>4, <2>5
<1>8. /\ disk.file["live"].val \in Nat /\ disk.file["live"].val <= v
      /\ disk'.file["live"].val \in Nat
      /\ disk'.file["live"].val = IF s = "written" THEN v ELSE disk.file["live"].val
      /\ disk'.file["live"].val <= Recoverable(disk')
  <2>1. "live" \in Names /\ "live" \in Candidates
    BY DEF Names, Candidates
  <2>2. disk.file["live"].val \in 0 .. MaxPuts /\ disk'.file["live"].val \in 0 .. MaxPuts
    BY <1>3, <1>7, <2>1, Contents DEF OnDisk, Sound
  <2>3. disk.file["live"].val <= v
    BY <1>1, <2>1 DEF OnDisk, Below
  <2>4. disk'.file["live"].val <= Recoverable(disk')
    BY <1>7, <2>1 DEF Below
  <2> QED BY <1>3, <2>2, <2>3, <2>4 DEF Whole
<1>9. OnDisk'
  <2>1. \A n \in Candidates : disk'.file[n].val \in Nat /\ disk'.file[n].val <= v
    <3>1. \A n \in Candidates : disk'.file[n].val \in 0 .. MaxPuts
      BY <1>3, <1>7, Contents DEF Sound, Candidates
    <3> QED BY <1>3, <3>1 DEF Below
  <2>2. w = "open" => ~open
    BY <1>1 DEF Turns
  <2>3. Below(disk', issued) /\ (open => Below(disk', mem))
    BY <1>7, <2>1, <2>2 DEF Below
  <2>4. ASSUME NEW x \in Writers, io'[x].step # "idle"
        PROVE  /\ x = w
               /\ Below(disk', io'[x].val)
               /\ x # "open" => io'[x].val <= mem
               /\ x = "open" => io'[x].val = Recoverable(disk')
               /\ io'[x].step = "written" => disk'.file[Tmp(x)] = Whole(io'[x].val) /\ OnTop(disk', Tmp(x))
               /\ io'[x].step \in {"renamed", "bakTmp", "bakWritten", "done"} =>
                    disk'.file["live"] = Whole(io'[x].val)
               /\ io'[x].step = "bakWritten" =>
                    disk'.file["bakTmp"] = Whole(io'[x].val) /\ OnTop(disk', "bakTmp")
    <3>1. x = w
      BY <1>1, <1>2, <2>4
    <3>2. io'[x].val = v /\ io'[x].step = PersistNext[s]
      BY <1>1, <3>1
    <3>3. x = "open" => io'[x].val = Recoverable(disk')
      BY <1>1, <1>3, <3>1, <3>2 DEF OnDisk, Tmp
    <3>4. /\ PersistNext[s] = "written" => s = "tmp"
          /\ PersistNext[s] = "bakWritten" => s = "bakTmp"
          /\ PersistNext[s] \in {"renamed", "bakTmp", "bakWritten", "done"} =>
               s \in {"written", "renamed", "bakTmp", "bakWritten"}
      BY <1>1 DEF PersistNext, PersistSteps
    <3>5. s \in {"renamed", "bakTmp", "bakWritten"} => disk.file["live"] = Whole(v)
      BY <1>1 DEF OnDisk
    <3> HIDE DEF s, v
    <3> QED BY <1>3, <1>7, <3>1, <3>2, <3>3, <3>4, <3>5
  <2> QED BY <1>3, <1>4, <2>3, <2>4 DEF OnDisk, Tmp
<1>10. ~open => w = "open" /\ opening = "recovering"
  BY <1>1 DEF Turns, Writers, Drains
<1>11. ~gone /\ deleting = 0
  BY <1>10 DEF Turns, Deletion
<1>12. Vouched'
  <2>1. acked \in 0 .. issued /\ acked <= Recoverable(disk) /\ (open => acked <= disk.file["live"].val)
    BY DEF Vouched
  <2>2. acked \in Nat
    BY <1>7, <2>1
  <2>3. open => acked <= disk'.file["live"].val
    BY <1>7, <1>8, <2>1, <2>2
  <2>4. acked <= Recoverable(disk')
    <3>1. CASE open
      BY <1>7, <1>8, <2>2, <2>3, <3>1
    <3>2. CASE w = "open"
      <4>1. Recoverable(disk') = Recoverable(disk)
        BY <1>1, <1>3, <3>2 DEF OnDisk, Tmp
      <4> QED BY <2>1, <4>1
    <3> QED BY <1>10, <3>1, <3>2
  <2> QED BY <1>4, <2>1, <2>3, <2>4 DEF Vouched
<1>13. Deletion'
  BY <1>4, <1>11 DEF Deletion
<1>14. open /\ disk.file["live"].val = mem => disk'.file["live"].val = mem
  <2>1. open => w # "open"
    BY <1>1 DEF Turns
  <2>2. open => v <= mem
    BY <1>7, <2>1
  <2> QED BY <1>7, <1>8, <2>2
<1>15. Marked'
  <2>1. SUFFICES ASSUME open, ~retired, ~dirty, disk'.file["live"].val # mem
                 PROVE  \E x \in Writers : io'[x].val = mem /\ io'[x].step \in {"begin", "tmp", "written", "failed"}
    BY <1>4 DEF Marked
  <2>2. PICK x \in Writers : io[x].val = mem /\ io[x].step \in {"begin", "tmp", "written", "failed"}
    BY <1>14, <2>1 DEF Marked
  <2>3. x = w
    BY <1>2, <2>2
  <2>4. v = mem /\ s \in {"begin", "tmp", "written"}
    BY <1>1, <2>2, <2>3 DEF PersistSteps
  <2>5. s # "written"
    BY <1>8, <2>1, <2>4
  <2>6. io'[w].step \in {"tmp", "written"}
    BY <1>1, <2>4, <2>5 DEF PersistNext
  <2> QED BY <1>1, <2>4, <2>6
<1>16. Attended'
  BY <1>4, <1>14 DEF Attended
<1> QED BY <1>5, <1>6, <1>9, <1>12, <1>13, <1>15, <1>16

\* A step fails: the write ends there, with or without having replaced the file.
LEMMA WriteFailsKeeps ==
  ASSUME SaverIInv, NEW w \in Writers, WriteFails(w)
  PROVE  SaverIInv'
<1> USE DEF SaverIInv
<1> DEFINE v == io[w].val
           s == io[w].step
<1>1. /\ s \in PersistSteps /\ s # "idle"
      /\ io'[w] = [io[w] EXCEPT !.step = PersistFails(@)]
      /\ io'[w].step = PersistFails(s) /\ io'[w].val = v
      /\ \A x \in Writers \ {w} : io'[x] = io[x]
      /\ PersistFails(s) = IF s \in {"begin", "tmp", "written"} THEN "failed" ELSE "done"
      /\ io' \in [Writers -> [step : Steps, val : 0 .. MaxPuts]]
      /\ fails' = fails + 1 /\ fails \in Nat /\ fails' > 0
  <2>1. s \in PersistSteps /\ io' = [io EXCEPT ![w].step = PersistFails(@)] /\ fails' = fails + 1
    BY DEF WriteFails
  <2>2. s # "idle" /\ PersistFails(s) \in Steps
    BY <2>1 DEF PersistFails, PersistSteps, Steps
  <2>3. fails \in Nat
    BY DEF Shape
  <2> QED BY <2>1, <2>2, <2>3 DEF Shape, PersistFails
<1>2. \A x \in Writers : io[x].step # "idle" => x = w
  BY <1>1, TheWriter
<1>3. /\ UNCHANGED <<disk, open, mem, issued, dirty, timer, block, setup, saving, drain, strict, need>>
      /\ UNCHANGED <<retired, opening, deleting, gone, acked>>
  BY DEF WriteFails, memory, flags, waits, life
<1>4. /\ mem \in Nat /\ issued \in Nat /\ mem <= issued
  BY SaverAssumption DEF Shape
<1>5. Shape' /\ Flags'
  <2>1. Shape'
    BY <1>1, <1>3 DEF Shape
  <2>2. Flags'
    BY <1>3 DEF Flags
  <2> QED BY <2>1, <2>2
<1>6. Turns'
  <2>1. \A x \in Writers : io'[x].step = "idle" <=> io[x].step = "idle"
    BY <1>1
  <2>2. Drains \subseteq Writers /\ "save" \in Writers /\ "open" \in Writers
    BY DEF Drains, Writers
  <2> QED BY <1>1, <1>3, <2>1, <2>2 DEF Turns
<1>7. OnDisk'
  BY <1>1, <1>3, <1>4, DiskKept
<1>8. Vouched' /\ Deletion'
  BY <1>3, <1>4, RestKept DEF Deletion
<1>9. Marked'
  <2>1. SUFFICES ASSUME open, ~retired, ~dirty, disk.file["live"].val # mem
                 PROVE  \E x \in Writers : io'[x].val = mem /\ io'[x].step \in {"begin", "tmp", "written", "failed"}
    BY <1>3 DEF Marked
  <2>2. PICK x \in Writers : io[x].val = mem /\ io[x].step \in {"begin", "tmp", "written", "failed"}
    BY <2>1 DEF Marked
  <2>3. x = w
    BY <1>2, <2>2
  <2>4. s \in {"begin", "tmp", "written"}
    BY <1>1, <2>2, <2>3 DEF PersistSteps
  <2> QED BY <1>1, <2>2, <2>3, <2>4
<1>10. Attended'
  BY <1>1, <1>3 DEF Attended
<1> QED BY <1>5, <1>6, <1>7, <1>8, <1>9, <1>10

\* A put keeps the invariant: it marks the database and arms the timer.
LEMMA PutRowKeeps ==
  ASSUME SaverIInv, PutRow
  PROVE  SaverIInv'
<1> USE DEF SaverIInv
<1>1. /\ open /\ issued' = issued + 1 /\ mem' = issued + 1 /\ issued + 1 <= MaxPuts
      /\ ~retired => dirty' /\ timer'
      /\ dirty' \in {TRUE, dirty} /\ timer' \in {TRUE, timer}
      /\ UNCHANGED <<disk, io, open, block, setup, saving, drain, strict, need>>
      /\ UNCHANGED <<retired, opening, deleting, gone, acked, fails>>
      /\ mem \in Nat /\ issued \in Nat /\ mem <= issued
  <2>1. mem \in Nat /\ issued \in Nat /\ mem <= issued /\ MaxPuts \in Nat
    BY SaverAssumption DEF Shape
  <2>2. /\ open /\ issued' = issued + 1 /\ mem' = issued' /\ issued < MaxPuts
        /\ UNCHANGED <<disk, io, open, block, setup, saving, drain, strict, need>>
        /\ UNCHANGED <<retired, opening, deleting, gone, acked, fails>>
    BY DEF PutRow, file, waits, life, budget
  <2>3. /\ ~retired => dirty' /\ timer'
        /\ dirty' \in {TRUE, dirty} /\ timer' \in {TRUE, timer}
    BY DEF PutRow, SaveToDisk
  <2>4. mem' = issued + 1 /\ issued + 1 <= MaxPuts
    BY <2>1, <2>2
  <2> QED BY <2>1, <2>2, <2>3, <2>4
<1>2. Shape'
  <2>1. \A d \in Drains : need[d] \in Nat /\ need[d] <= mem
    BY SaverAssumption DEF Shape
  <2>2. \A d \in Drains : need[d] <= issued + 1
    BY <1>1, <2>1
  <2> QED BY <1>1, <2>2, SaverAssumption DEF Shape
<1>3. Flags'
  BY <1>1 DEF Flags
<1>4. Turns'
  BY <1>1 DEF Turns
<1>5. OnDisk'
  BY <1>1, DiskKept
<1>6. Vouched' /\ Deletion'
  BY <1>1, RestKept DEF Deletion
<1>7. Marked' /\ Attended'
  BY <1>1 DEF Marked, Attended
<1> QED BY <1>2, <1>3, <1>4, <1>5, <1>6, <1>7

\* The head of the background loop, from the timer or after a snapshot.
LEMMA LoopHeadKeeps ==
  ASSUME SaverIInv, NEW d \in BOOLEAN, LoopHead(d),
         io["save"].step \in {"idle", "done"}, drain["flush"].pc # "ending",
         dirty => d, timer' \in BOOLEAN,
         UNCHANGED <<disk, memory, block, setup, waits, life, acked, budget>>
  PROVE  SaverIInv'
<1> USE DEF SaverIInv
<1>1. /\ UNCHANGED <<disk, open, mem, issued, block, setup, drain, strict, need>>
      /\ UNCHANGED <<retired, opening, deleting, gone, acked, fails>>
  BY DEF memory, waits, life, budget
<1>2. /\ "save" \in Writers /\ "open" \in Writers /\ Drains \subseteq Writers /\ "save" # "open"
      /\ "save" \notin Drains
  BY DEF Drains, Writers
<1>3. mem \in Nat /\ issued \in Nat /\ mem <= issued /\ mem \in 0 .. MaxPuts
  BY SaverAssumption DEF Shape
<1>4. /\ \A x \in Writers \ {"save"} : io'[x] = io[x]
      /\ io' \in [Writers -> [step : Steps, val : 0 .. MaxPuts]]
      /\ \A x \in Writers : io'[x].step = "idle" => io'[x] = NoIO
      /\ \/ /\ open /\ d /\ ~block /\ ~retired /\ ~dirty' /\ saving'
            /\ io'["save"] = Begin(mem) /\ io'["save"].step = "begin" /\ io'["save"].val = mem
         \/ /\ ~(open /\ d /\ ~block /\ ~retired) /\ dirty' = d /\ ~saving'
            /\ io'["save"] = NoIO /\ io'["save"].step = "idle"
  <2>1. /\ NoIO \in [step : Steps, val : 0 .. MaxPuts] /\ NoIO.step = "idle"
        /\ Begin(mem) \in [step : Steps, val : 0 .. MaxPuts] /\ Begin(mem).step = "begin" /\ Begin(mem).val = mem
    BY <1>3, SaverAssumption DEF NoIO, Begin, Steps, PersistSteps
  <2>2. /\ io \in [Writers -> [step : Steps, val : 0 .. MaxPuts]]
        /\ \A x \in Writers : io[x].step = "idle" => io[x] = NoIO
    BY DEF Shape
  <2>3. CASE open /\ d /\ ~block /\ ~retired
    <3>1. dirty' = FALSE /\ saving' = TRUE /\ io' = [io EXCEPT !["save"] = Begin(mem)]
      BY <2>3 DEF LoopHead
    <3>2. /\ io'["save"] = Begin(mem) /\ \A x \in Writers \ {"save"} : io'[x] = io[x]
          /\ io' \in [Writers -> [step : Steps, val : 0 .. MaxPuts]]
      BY <1>2, <2>1, <2>2, <3>1
    <3>3. \A x \in Writers : io'[x].step = "idle" => io'[x] = NoIO
      BY <2>1, <2>2, <3>2
    <3> QED BY <2>1, <2>3, <3>1, <3>2, <3>3
  <2>4. CASE ~(open /\ d /\ ~block /\ ~retired)
    <3>1. dirty' = d /\ saving' = FALSE /\ io' = [io EXCEPT !["save"] = NoIO]
      BY <2>4 DEF LoopHead
    <3>2. /\ io'["save"] = NoIO /\ \A x \in Writers \ {"save"} : io'[x] = io[x]
          /\ io' \in [Writers -> [step : Steps, val : 0 .. MaxPuts]]
      BY <1>2, <2>1, <2>2, <3>1
    <3>3. \A x \in Writers : io'[x].step = "idle" => io'[x] = NoIO
      BY <2>1, <2>2, <3>2
    <3> QED BY <2>1, <2>4, <3>1, <3>2, <3>3
  <2> QED BY <2>3, <2>4
<1>5. Shape'
  BY <1>1, <1>4 DEF Shape
<1>6. Flags'
  <2>1. dirty' \in BOOLEAN /\ saving' \in BOOLEAN
    BY DEF LoopHead
  <2> QED BY <1>1, <2>1 DEF Flags
<1>7. Turns'
  <2>1. saving' <=> io'["save"].step # "idle"
    BY <1>4
  <2>2. \A x \in Drains \cup {"open"} : io'[x] = io[x]
    BY <1>2, <1>4
  <2>3. \A x \in Drains : drain[x].pc \in {"writing", "ending"} => ~saving'
    BY <1>4 DEF Turns, Drains
  <2>4. ~open => ~saving'
    BY <1>4
  <2>5. \A w \in Writers : io'[w].step = "failed" => fails > 0
    BY <1>4 DEF Turns
  <2> QED BY <1>1, <1>2, <2>1, <2>2, <2>3, <2>4, <2>5 DEF Turns
<1>8. OnDisk'
  BY <1>1, <1>2, <1>3, <1>4, DiskKept
<1>9. Vouched' /\ Deletion'
  BY <1>1, <1>3, RestKept DEF Deletion
<1>10. Marked'
  BY <1>1, <1>2, <1>4 DEF Marked
<1>11. Attended'
  BY <1>1, <1>4 DEF Attended, Turns
<1> QED BY <1>5, <1>6, <1>7, <1>8, <1>9, <1>10, <1>11

\* The debounce timer keeps the invariant: it starts the save loop or finds it running.
LEMMA TimerFiresKeeps ==
  ASSUME SaverIInv, TimerFires
  PROVE  SaverIInv'
<1> USE DEF SaverIInv
<1>1. /\ timer' = FALSE /\ UNCHANGED <<disk, memory, block, setup, waits, life, acked, budget>>
      /\ drain["flush"].pc # "ending"
  BY DEF TimerFires, Microtasks
<1>2. CASE saving
  <2>1. UNCHANGED <<disk, io, open, mem, issued, dirty, block, setup, saving, drain, strict, need>>
        /\ UNCHANGED <<retired, opening, deleting, gone, acked, fails>>
    BY <1>1, <1>2 DEF TimerFires, memory, waits, life, budget
  <2>2. mem \in Nat /\ issued \in Nat
    BY SaverAssumption DEF Shape
  <2>3. Shape' /\ Flags' /\ Turns'
    <3>1. Shape'
      BY <2>1 DEF Shape
    <3>2. Flags'
      BY <1>1, <2>1 DEF Flags
    <3>3. Turns'
      BY <2>1 DEF Turns
    <3> QED BY <3>1, <3>2, <3>3
  <2>4. OnDisk'
    BY <2>1 DEF OnDisk, Tmp
  <2>5. Vouched' /\ Deletion'
    BY <2>1 DEF Vouched, Deletion
  <2>6. Marked' /\ Attended'
    BY <1>1, <1>2, <2>1 DEF Marked, Attended
  <2> QED BY <2>3, <2>4, <2>5, <2>6
<1>3. CASE ~saving
  <2>1. LoopHead(dirty) /\ dirty \in BOOLEAN /\ io["save"].step = "idle"
    BY <1>3 DEF TimerFires, Flags, Turns
  <2> QED BY <1>1, <2>1, LoopHeadKeeps
<1> QED BY <1>2, <1>3

\* A snapshot of runSaveLoop that is written keeps the invariant.
LEMMA SaveSettlesKeeps ==
  ASSUME SaverIInv, SaveSettles
  PROVE  SaverIInv'
<1>1. /\ LoopHead(dirty \/ block) /\ io["save"].step = "done" /\ timer' = timer
      /\ UNCHANGED <<disk, memory, block, setup, waits, life, acked, budget>>
  BY DEF SaveSettles
<1>2. (dirty \/ block) \in BOOLEAN /\ timer \in BOOLEAN
  BY DEF SaverIInv, Flags
<1>3. drain["flush"].pc # "ending"
  BY <1>1 DEF SaverIInv, Turns, Drains
<1> QED BY <1>1, <1>2, <1>3, LoopHeadKeeps

\* A snapshot of runSaveLoop that fails keeps the invariant: the database is marked again.
LEMMA SaveFailsKeeps ==
  ASSUME SaverIInv, SaveFails
  PROVE  SaverIInv'
<1> USE DEF SaverIInv
<1>1. /\ io["save"].step = "failed" /\ io' = [io EXCEPT !["save"] = NoIO]
      /\ saving' = FALSE /\ dirty' = TRUE
      /\ UNCHANGED <<disk, open, mem, issued, timer, block, setup, drain, strict, need>>
      /\ UNCHANGED <<retired, opening, deleting, gone, acked, fails>>
  BY DEF SaveFails, memory, waits, life, budget
<1>2. "save" \in Writers /\ "open" \in Writers /\ Drains \subseteq Writers /\ "save" # "open" /\ "save" \notin Drains
  BY DEF Drains, Writers
<1>3. mem \in Nat /\ issued \in Nat /\ mem <= issued
  BY SaverAssumption DEF Shape
<1>4. /\ \A x \in Writers \ {"save"} : io'[x] = io[x]
      /\ io'["save"] = NoIO /\ NoIO.step = "idle"
      /\ io' \in [Writers -> [step : Steps, val : 0 .. MaxPuts]]
  <2>1. NoIO \in [step : Steps, val : 0 .. MaxPuts] /\ NoIO.step = "idle"
    BY SaverAssumption DEF NoIO, Steps
  <2> QED BY <1>1, <1>2, <2>1 DEF Shape
<1>5. Shape'
  BY <1>1, <1>4 DEF Shape
<1>6. Flags'
  BY <1>1 DEF Flags
<1>7. Turns'
  <2>1. fails > 0
    BY <1>1, <1>2 DEF Turns
  <2> QED BY <1>1, <1>2, <1>4, <2>1 DEF Turns
<1>8. OnDisk'
  BY <1>1, <1>3, <1>4, DiskKept
<1>9. Vouched' /\ Deletion'
  BY <1>1, <1>3, RestKept DEF Deletion
<1>10. Marked' /\ Attended'
  BY <1>1, <1>2 DEF Marked, Attended, Turns, Drains
<1> QED BY <1>5, <1>6, <1>7, <1>8, <1>9, <1>10

-----------------------------------------------------------------------------
\* What holds whenever a drain starts or goes round: it is this drain's turn,
\* and the callers that wait for it have seen no more than what is in memory.
ItsTurn(d) ==
  /\ open
  /\ d = "flush" => drain["close"].pc \in {"none", "flush"}
  /\ d = "close" => drain["flush"].pc = "none" /\ strict = 0
  /\ need' \in [Drains -> 0 .. MaxPuts] /\ \A e \in Drains : need'[e] <= mem
  /\ \A e \in Drains \ {d} : need'[e] = need[e]
  /\ strict' \in 0 .. strict
  /\ UNCHANGED <<disk, memory, setup, saving, life, budget>>

\* While it is the turn of a drain nobody else writes.
LEMMA OthersIdle ==
  ASSUME SaverIInv, NEW d \in Drains, ItsTurn(d), ~saving
  PROVE  \A w \in Writers \ {d} : io[w].step = "idle"
BY DEF SaverIInv, Turns, ItsTurn, Drains, Writers

\* A drain that ends with nothing marked has everything in the file.
LEMMA AllInFile ==
  ASSUME SaverIInv, NEW d \in Drains, ItsTurn(d), ~saving,
         io[d].step \in {"idle", "done"}, ~dirty, ~retired
  PROVE  disk.file["live"].val = mem
BY OthersIdle DEF SaverIInv, Marked, ItsTurn

\* A drain that ends keeps the invariant: either all is saved or the database is marked.
LEMMA DrainEndsKeeps ==
  ASSUME SaverIInv, NEW d \in Drains, ItsTurn(d), ~saving,
         NEW failed \in BOOLEAN, NEW t \in BOOLEAN, NEW dty \in BOOLEAN,
         DrainEnds(d, failed, t, dty),
         failed => dty,
         ~failed => dty = dirty /\ (dirty => retired) /\ io[d].step \in {"idle", "done"}
  PROVE  SaverIInv'
<1> USE DEF SaverIInv
<1>1. /\ UNCHANGED <<disk, open, mem, issued, setup, saving, retired, opening, deleting, gone, fails>>
      /\ need' \in [Drains -> 0 .. MaxPuts] /\ \A e \in Drains : need'[e] <= mem
      /\ \A e \in Drains \ {d} : need'[e] = need[e]
      /\ strict' \in 0 .. strict /\ open
  BY DEF ItsTurn, memory, life, budget
<1>2. Drains = {"flush", "close"} /\ Drains \subseteq Writers /\ d # "save" /\ d # "open" /\ d \in Writers
      /\ "save" \in Writers /\ "open" \in Writers
  BY DEF Drains, Writers
<1>3. mem \in Nat /\ issued \in Nat /\ mem <= issued /\ MaxPuts \in Nat
  BY SaverAssumption DEF Shape
<1>4. /\ \A x \in Writers : io'[x].step = "idle" /\ io'[x] = NoIO
      /\ io' \in [Writers -> [step : Steps, val : 0 .. MaxPuts]]
  <2>1. NoIO \in [step : Steps, val : 0 .. MaxPuts] /\ NoIO.step = "idle"
    BY SaverAssumption DEF NoIO, Steps
  <2>2. io' = [io EXCEPT ![d] = NoIO]
    BY DEF DrainEnds
  <2>3. \A x \in Writers \ {d} : io[x].step = "idle" /\ io[x] = NoIO
    BY OthersIdle DEF Shape
  <2> QED BY <1>2, <2>1, <2>2, <2>3 DEF Shape
<1>5. /\ \A e \in Drains \ {d} : drain'[e] = drain[e]
      /\ drain'[d].pc = "ending"
      /\ drain' \in [Drains -> [pc : DrainPcs, failed : BOOLEAN]]
  <2>1. drain' = [drain EXCEPT ![d] = [pc |-> "ending", failed |-> failed]]
    BY DEF DrainEnds
  <2> QED BY <2>1 DEF Shape, DrainPcs
<1>6. dirty' = dty /\ block' = (d = "close") /\ timer' \in BOOLEAN
      /\ (d = "flush" /\ dty /\ ~retired => timer')
  BY <1>1, <1>2 DEF DrainEnds
<1>7. Shape'
  <2>1. strict' \in 0 .. MaxStrict
    BY <1>1, SaverAssumption DEF Shape
  <2>2. \A e \in Drains : drain'[e].pc = "none" => drain'[e] = NoDrain /\ need'[e] = 0
    BY <1>1, <1>5 DEF Shape
  <2> QED BY <1>1, <1>4, <1>5, <2>1, <2>2 DEF Shape
<1>8. Flags'
  BY <1>1, <1>6 DEF Flags
<1>9. Turns'
  <2>1. strict' > 0 => strict > 0
    BY <1>1, SaverAssumption DEF Shape
  <2>3. \A e \in Drains : drain'[e].pc # "writing"
    BY <1>2, <1>5 DEF ItsTurn
  <2>4. CASE d = "flush"
    <3>1. drain'["flush"].pc = "ending" /\ drain'["close"].pc \in {"none", "flush"}
          /\ drain'["close"] = drain["close"]
      BY <1>2, <1>5, <2>4 DEF ItsTurn
    <3>2. ~block'
      BY <1>6, <2>4
    <3> QED BY <1>1, <1>2, <1>4, <2>1, <2>3, <2>4, <3>1, <3>2 DEF Turns
  <2>5. CASE d = "close"
    <3>1. drain'["close"].pc = "ending" /\ drain'["flush"].pc = "none"
      BY <1>2, <1>5, <2>5 DEF ItsTurn
    <3>2. block' = TRUE
      BY <1>6, <2>5
    <3>3. strict = 0
      BY <2>5 DEF ItsTurn
    <3>4. ~(strict' > 0)
      BY <1>1, <3>3
    <3> QED BY <1>1, <1>2, <1>4, <2>3, <3>1, <3>2, <3>4 DEF Turns
  <2> QED BY <1>2, <2>4, <2>5
<1>10. OnDisk'
  BY <1>1, <1>3, <1>4, DiskKept
<1>11. ~failed /\ ~dty /\ ~retired => disk.file["live"].val = mem
  BY AllInFile
<1>12. Vouched'
  <2>1. disk.file["live"].val <= Recoverable(disk) /\ Recoverable(disk) \in Nat
    <3>1. Sound(disk, MaxPuts) /\ "live" \in Candidates
      BY DEF OnDisk, Candidates, Names
    <3>2. Below(disk, Recoverable(disk)) /\ Recoverable(disk) \in 0 .. MaxPuts
      BY <1>3, <3>1, LargestIsFound
    <3> QED BY <3>1, <3>2 DEF Below
  <2>2. acked \in 0 .. issued /\ acked <= Recoverable(disk) /\ acked <= disk.file["live"].val
    BY <1>1 DEF Vouched
  <2>3. CASE acked' = acked
    BY <1>1, <2>2, <2>3 DEF Vouched
  <2>4. CASE acked' # acked
    <3>1. ~failed /\ ~retired /\ acked' = need'[d]
      BY <2>4 DEF DrainEnds
    <3>2. disk.file["live"].val = mem
      BY <1>11, <3>1 DEF ItsTurn
    <3>3. acked' \in Nat /\ acked' <= mem
      BY <1>1, <1>3, <3>1
    <3> QED BY <1>1, <1>3, <2>1, <3>2, <3>3 DEF Vouched
  <2> QED BY <2>3, <2>4
<1>13. Deletion'
  BY <1>1 DEF Deletion
<1>14. Marked'
  BY <1>1, <1>6, <1>11 DEF Marked
<1>15. Attended'
  <2>1. drain'["flush"].pc = "ending" => d = "flush"
    BY <1>2, <1>5 DEF ItsTurn
  <2> QED BY <1>1, <1>5, <1>6, <2>1 DEF Attended
<1> QED BY <1>7, <1>8, <1>9, <1>10, <1>12, <1>13, <1>14, <1>15

\* One round of the loop of drainPendingSaves keeps the invariant.
LEMMA DrainLoopKeeps ==
  ASSUME SaverIInv, NEW d \in Drains, ItsTurn(d), ~saving, NEW t \in BOOLEAN,
         io[d].step \in {"idle", "done"}, DrainLoop(d, t)
  PROVE  SaverIInv'
<1> USE DEF SaverIInv
<1>1. CASE ~(open /\ dirty /\ ~retired)
  <2>1. DrainEnds(d, FALSE, t, dirty) /\ dirty \in BOOLEAN /\ (dirty => retired)
    BY <1>1 DEF DrainLoop, ItsTurn, Flags
  <2> QED BY <2>1, DrainEndsKeeps
<1>2. CASE open /\ dirty /\ ~retired
  <2>1. /\ UNCHANGED <<disk, open, mem, issued, setup, saving, retired, opening, deleting, gone, fails>>
        /\ need' \in [Drains -> 0 .. MaxPuts] /\ \A e \in Drains : need'[e] <= mem
        /\ \A e \in Drains \ {d} : need'[e] = need[e]
        /\ strict' \in 0 .. strict /\ open
    BY DEF ItsTurn, memory, life, budget
  <2>2. Drains = {"flush", "close"} /\ Drains \subseteq Writers /\ d # "save" /\ d # "open" /\ d \in Writers
        /\ "save" \in Writers /\ "open" \in Writers
    BY DEF Drains, Writers
  <2>3. mem \in Nat /\ issued \in Nat /\ mem <= issued /\ MaxPuts \in Nat /\ mem \in 0 .. MaxPuts
    BY SaverAssumption DEF Shape
  <2>4. /\ drain' = [drain EXCEPT ![d].pc = "writing"] /\ io' = [io EXCEPT ![d] = Begin(mem)]
        /\ dirty' = FALSE /\ block' = TRUE /\ timer' = t /\ acked' = acked
    BY <1>2 DEF DrainLoop
  <2>5. /\ \A x \in Writers \ {d} : io'[x] = io[x] /\ io'[x].step = "idle" /\ io'[x] = NoIO
        /\ io'[d] = Begin(mem) /\ io'[d].step = "begin" /\ io'[d].val = mem
        /\ io' \in [Writers -> [step : Steps, val : 0 .. MaxPuts]]
    <3>1. Begin(mem) \in [step : Steps, val : 0 .. MaxPuts] /\ Begin(mem).step = "begin" /\ Begin(mem).val = mem
      BY <2>3 DEF Begin, Steps, PersistSteps
    <3>2. \A x \in Writers \ {d} : io[x].step = "idle" /\ io[x] = NoIO
      BY OthersIdle DEF Shape
    <3> QED BY <2>2, <2>4, <3>1, <3>2 DEF Shape
  <2>6. /\ \A e \in Drains \ {d} : drain'[e] = drain[e]
        /\ drain'[d].pc = "writing"
        /\ drain' \in [Drains -> [pc : DrainPcs, failed : BOOLEAN]]
    BY <2>4 DEF Shape, DrainPcs
  <2>7. Shape'
    <3>1. strict' \in 0 .. MaxStrict
      BY <2>1, SaverAssumption DEF Shape
    <3>2. \A e \in Drains : drain'[e].pc = "none" => drain'[e] = NoDrain /\ need'[e] = 0
      BY <2>1, <2>6 DEF Shape
    <3>3. \A x \in Writers : io'[x].step = "idle" => io'[x] = NoIO
      BY <2>5
    <3> QED BY <2>1, <2>5, <2>6, <3>1, <3>2, <3>3 DEF Shape
  <2>8. Flags'
    BY <2>1, <2>4 DEF Flags
  <2>9. Turns'
    <3>1. strict' > 0 => strict > 0
      BY <2>1, SaverAssumption DEF Shape
    <3>2. \A e \in Drains \ {d} : drain'[e].pc # "writing"
      BY <2>2, <2>6 DEF ItsTurn
    <3>3. CASE d = "flush"
      <4>1. drain'["flush"].pc = "writing" /\ drain'["close"].pc \in {"none", "flush"}
            /\ drain'["close"] = drain["close"]
        BY <2>2, <2>6, <3>3 DEF ItsTurn
      <4> QED BY <2>1, <2>2, <2>4, <2>5, <3>1, <3>2, <3>3, <4>1 DEF Turns
    <3>4. CASE d = "close"
      <4>1. drain'["close"].pc = "writing" /\ drain'["flush"].pc = "none"
        BY <2>2, <2>6, <3>4 DEF ItsTurn
      <4>2. strict = 0
        BY <3>4 DEF ItsTurn
      <4>3. ~(strict' > 0)
        BY <2>1, <4>2
      <4> QED BY <2>1, <2>2, <2>4, <2>5, <3>2, <3>4, <4>1, <4>3 DEF Turns
    <3> QED BY <2>2, <3>3, <3>4
  <2>10. OnDisk'
    BY <2>1, <2>2, <2>3, <2>5, DiskKept
  <2>11. Vouched' /\ Deletion'
    BY <2>1, <2>3, <2>4, RestKept DEF Deletion
  <2>12. Marked'
    BY <2>2, <2>5, <2>1 DEF Marked
  <2>13. Attended'
    BY <2>4 DEF Attended
  <2> QED BY <2>7, <2>8, <2>9, <2>10, <2>11, <2>12, <2>13
<1> QED BY <1>1, <1>2

\* A drain that starts, and waits for the save under way, keeps the invariant.
LEMMA DrainStartsKeeps ==
  ASSUME SaverIInv, NEW d \in Drains, ItsTurn(d), drain[d].pc \notin {"writing", "saving", "ending"},
         DrainStarts(d)
  PROVE  SaverIInv'
<1> USE DEF SaverIInv
<1>1. io[d].step = "idle"
  BY DEF Turns
<1>2. CASE ~saving
  BY <1>1, <1>2, DrainLoopKeeps DEF DrainStarts
<1>3. CASE saving
  <2>1. /\ UNCHANGED <<disk, open, mem, issued, setup, saving, retired, opening, deleting, gone, fails>>
        /\ need' \in [Drains -> 0 .. MaxPuts] /\ \A e \in Drains : need'[e] <= mem
        /\ \A e \in Drains \ {d} : need'[e] = need[e]
        /\ strict' \in 0 .. strict /\ open
    BY DEF ItsTurn, memory, life, budget
  <2>2. Drains = {"flush", "close"}
    BY DEF Drains
  <2>3. mem \in Nat /\ issued \in Nat /\ mem <= issued
    BY SaverAssumption DEF Shape
  <2>4. /\ drain' = [drain EXCEPT ![d] = [pc |-> "saving", failed |-> FALSE]]
        /\ timer' = FALSE /\ block' = TRUE /\ UNCHANGED <<io, dirty, acked>>
    BY <1>3 DEF DrainStarts
  <2>5. /\ \A e \in Drains \ {d} : drain'[e] = drain[e]
        /\ drain'[d].pc = "saving"
        /\ drain' \in [Drains -> [pc : DrainPcs, failed : BOOLEAN]]
    BY <2>4 DEF Shape, DrainPcs
  <2>6. Shape'
    <3>1. strict' \in 0 .. MaxStrict
      BY <2>1, SaverAssumption DEF Shape
    <3>2. \A e \in Drains : drain'[e].pc = "none" => drain'[e] = NoDrain /\ need'[e] = 0
      BY <2>1, <2>5 DEF Shape
    <3> QED BY <2>1, <2>4, <2>5, <3>1, <3>2 DEF Shape
  <2>7. Flags'
    BY <2>1, <2>4 DEF Flags
  <2>8. Turns'
    <3>1. strict' > 0 => strict > 0
      BY <2>1, SaverAssumption DEF Shape
    <3>2. CASE d = "flush"
      <4>1. drain'["flush"].pc = "saving" /\ drain'["close"].pc \in {"none", "flush"}
            /\ drain'["close"] = drain["close"]
        BY <2>2, <2>5, <3>2 DEF ItsTurn
      <4> QED BY <1>1, <2>1, <2>2, <2>4, <3>1, <3>2, <4>1 DEF Turns
    <3>3. CASE d = "close"
      <4>1. drain'["close"].pc = "saving" /\ drain'["flush"].pc = "none" /\ drain["flush"].pc = "none"
        BY <2>2, <2>5, <3>3 DEF ItsTurn
      <4>2. strict = 0
        BY <3>3 DEF ItsTurn
      <4>3. ~(strict' > 0)
        BY <2>1, <4>2
      <4> QED BY <1>1, <2>1, <2>2, <2>4, <3>3, <4>1, <4>3 DEF Turns
    <3> QED BY <2>2, <3>2, <3>3
  <2>9. OnDisk'
    BY <2>1, <2>3, <2>4, DiskKept
  <2>10. Vouched' /\ Deletion'
    BY <2>1, <2>3, <2>4, RestKept DEF Deletion
  <2>11. Marked'
    BY <2>1, <2>4 DEF Marked
  <2>12. Attended'
    <3>1. drain'["flush"].pc # "ending"
      BY <2>2, <2>5 DEF ItsTurn
    <3> QED BY <2>5, <3>1 DEF Attended
  <2> QED BY <2>6, <2>7, <2>8, <2>9, <2>10, <2>11, <2>12
<1> QED BY <1>2, <1>3

\* A drain that comes back from its await is the one whose turn it is.
LEMMA GoingRound ==
  ASSUME SaverIInv, NEW d \in Drains, drain[d].pc \in {"saving", "writing"},
         UNCHANGED need, UNCHANGED strict, UNCHANGED <<disk, memory, setup, saving, life, budget>>
  PROVE  ItsTurn(d)
<1> USE DEF SaverIInv
<1>1. Drains = {"flush", "close"}
  BY DEF Drains
<1>2. open
  BY DEF Turns
<1>3. d = "flush" => drain["close"].pc \in {"none", "flush"}
  <2>1. drain["close"].pc \in DrainPcs
    BY <1>1 DEF Shape
  <2> QED BY <2>1 DEF Turns, DrainPcs
<1>4. d = "close" => drain["flush"].pc = "none" /\ strict = 0
  <2>1. strict \in Nat
    BY SaverAssumption DEF Shape
  <2>2. d = "close" => drain["flush"].pc = "none" /\ ~(strict > 0)
    BY DEF Turns
  <2> QED BY <2>1, <2>2
<1>5. strict' \in 0 .. strict
  BY SaverAssumption DEF Shape
<1>6. need' \in [Drains -> 0 .. MaxPuts] /\ \A e \in Drains : need'[e] <= mem
  BY DEF Shape
<1> QED BY <1>2, <1>3, <1>4, <1>5, <1>6 DEF ItsTurn

\* A drain that comes back from the save it waited for keeps the invariant.
LEMMA DrainResumesKeeps ==
  ASSUME SaverIInv, NEW d \in Drains, DrainResumes(d)
  PROVE  SaverIInv'
<1>1. /\ drain[d].pc = "saving" /\ ~saving /\ DrainLoop(d, timer)
      /\ UNCHANGED need /\ UNCHANGED strict /\ UNCHANGED <<disk, memory, setup, saving, life, budget>>
  BY DEF DrainResumes
<1>2. ItsTurn(d)
  BY <1>1, GoingRound
<1>3. io[d].step = "idle" /\ timer \in BOOLEAN
  BY <1>1 DEF SaverIInv, Turns, Flags
<1> QED BY <1>1, <1>2, <1>3, DrainLoopKeeps

\* A drain that comes back from its own write keeps the invariant.
LEMMA DrainWroteKeeps ==
  ASSUME SaverIInv, NEW d \in Drains, DrainWrote(d)
  PROVE  SaverIInv'
<1>1. /\ drain[d].pc = "writing" /\ io[d].step = "done" /\ DrainLoop(d, timer)
      /\ UNCHANGED need /\ UNCHANGED strict /\ UNCHANGED <<disk, memory, setup, saving, life, budget>>
  BY DEF DrainWrote
<1>2. ItsTurn(d)
  BY <1>1, GoingRound
<1>3. ~saving /\ timer \in BOOLEAN
  BY <1>1 DEF SaverIInv, Turns, Flags
<1> QED BY <1>1, <1>2, <1>3, DrainLoopKeeps

\* A drain whose write fails keeps the invariant.
LEMMA DrainFailsKeeps ==
  ASSUME SaverIInv, NEW d \in Drains, DrainFails(d)
  PROVE  SaverIInv'
<1>1. /\ drain[d].pc = "writing" /\ DrainEnds(d, TRUE, timer, TRUE)
      /\ UNCHANGED need /\ UNCHANGED strict /\ UNCHANGED <<disk, memory, setup, saving, life, budget>>
  BY DEF DrainFails
<1>2. ItsTurn(d)
  BY <1>1, GoingRound
<1>3. ~saving /\ timer \in BOOLEAN
  BY <1>1 DEF SaverIInv, Turns, Flags
<1> QED BY <1>1, <1>2, <1>3, DrainEndsKeeps

\* A caller sees what is in memory and starts a drain.
LEMMA StartingNow ==
  ASSUME SaverIInv, NEW d \in Drains, open, need' = [need EXCEPT ![d] = mem],
         d = "flush" => drain["close"].pc \in {"none", "flush"},
         d = "close" => drain["flush"].pc = "none" /\ strict = 0,
         strict' \in 0 .. strict,
         UNCHANGED <<disk, memory, setup, saving, life, budget>>
  PROVE  ItsTurn(d)
<1> USE DEF SaverIInv
<1>1. mem \in 0 .. MaxPuts /\ mem \in Nat
  BY SaverAssumption DEF Shape
<1>2. need' \in [Drains -> 0 .. MaxPuts]
  BY <1>1 DEF Shape
<1>3. \A e \in Drains : need'[e] <= mem
  BY <1>1 DEF Shape
<1>4. \A e \in Drains \ {d} : need'[e] = need[e]
  BY DEF Shape
<1> QED BY <1>2, <1>3, <1>4 DEF ItsTurn

\* A caller joins a drain, queues behind it, or waits for it to end.
LEMMA WaitingKeeps ==
  ASSUME SaverIInv, UNCHANGED <<disk, io, memory, dirty, timer, block, setup, saving>>,
         UNCHANGED <<life, acked, fails>>, open,
         strict' \in 0 .. MaxStrict, strict' > 0 => drain'["close"].pc = "none",
         need' \in [Drains -> 0 .. MaxPuts],
         \A d \in Drains : need'[d] <= mem /\ (drain'[d].pc = "none" => need'[d] = 0),
         drain'["flush"] = drain["flush"],
         drain' \in [Drains -> [pc : DrainPcs, failed : BOOLEAN]],
         \/ drain'["close"] = drain["close"]
         \/ drain["close"].pc = "none" /\ drain'["close"].pc = "flush"
  PROVE  SaverIInv'
<1> USE DEF SaverIInv
<1>1. /\ UNCHANGED <<disk, io, open, mem, issued, dirty, timer, block, setup, saving>>
      /\ UNCHANGED <<retired, opening, deleting, gone, acked, fails>>
  BY DEF memory, life
<1>2. Drains = {"flush", "close"}
  BY DEF Drains
<1>3. mem \in Nat /\ issued \in Nat
  BY SaverAssumption DEF Shape
<1>4. Shape'
  BY <1>1, <1>2 DEF Shape
<1>5. Flags'
  BY <1>1 DEF Flags
<1>6. Turns'
  <2>1. \A d \in Drains : drain'[d].pc = "writing" <=> drain[d].pc = "writing"
    BY <1>2
  <2>2. \A d \in Drains : drain'[d].pc = "ending" <=> drain[d].pc = "ending"
    BY <1>2
  <2>3. \A d \in Drains : drain'[d].pc = "saving" <=> drain[d].pc = "saving"
    BY <1>2
  <2>4. \A d \in Drains : drain[d].pc # "none" => drain'[d].pc # "none"
    BY <1>2
  <2> QED BY <1>1, <1>2, <2>1, <2>2, <2>3, <2>4 DEF Turns
<1>7. OnDisk' /\ Marked'
  <2>1. OnDisk'
    BY <1>1 DEF OnDisk, Tmp
  <2>2. Marked'
    BY <1>1 DEF Marked
  <2> QED BY <2>1, <2>2
<1>8. Vouched' /\ Deletion'
  BY <1>1 DEF Vouched, Deletion
<1>9. Attended'
  BY <1>1, <1>2 DEF Attended
<1> QED BY <1>4, <1>5, <1>6, <1>7, <1>8, <1>9

\* flush keeps the invariant: it joins a drain or starts one.
LEMMA FlushKeeps ==
  ASSUME SaverIInv, Flush
  PROVE  SaverIInv'
<1> DEFINE on == IF drain["close"].pc # "none" THEN "close" ELSE "flush"
<1>1. open /\ on \in Drains /\ UNCHANGED <<disk, memory, setup, saving, strict, life, budget>>
  BY DEF Flush, Drains
<1>2. mem \in 0 .. MaxPuts /\ mem \in Nat /\ strict \in 0 .. MaxStrict /\ strict \in Nat
  BY SaverAssumption DEF SaverIInv, Shape
<1>3. CASE drain[on].pc # "none"
  <2>1. need' = [need EXCEPT ![on] = mem] /\ UNCHANGED <<drain, io, dirty, timer, block, acked>>
    BY <1>3 DEF Flush
  <2>2. need' \in [Drains -> 0 .. MaxPuts]
    BY <1>2, <2>1 DEF SaverIInv, Shape
  <2>3. \A d \in Drains : need'[d] <= mem /\ (drain'[d].pc = "none" => need'[d] = 0)
    <3> HIDE DEF on
    <3> QED BY <1>2, <1>3, <2>1 DEF SaverIInv, Shape
  <2>4. strict' > 0 => drain'["close"].pc = "none"
    BY <1>1, <2>1 DEF SaverIInv, Turns
  <2>5. drain' \in [Drains -> [pc : DrainPcs, failed : BOOLEAN]]
    BY <2>1 DEF SaverIInv, Shape
  <2> QED BY <1>1, <1>2, <2>1, <2>2, <2>3, <2>4, <2>5, WaitingKeeps DEF budget
<1>4. CASE drain[on].pc = "none"
  <2>1. on = "flush" /\ drain["flush"].pc = "none" /\ drain["close"].pc = "none"
    BY <1>4
  <2>2. need' = [need EXCEPT !["flush"] = mem] /\ DrainStarts("flush")
    BY <2>1 DEF Flush
  <2>3. "flush" \in Drains /\ strict' \in 0 .. strict
    BY <1>1, <1>2 DEF Drains
  <2>4. ItsTurn("flush")
    BY <1>1, <2>1, <2>2, <2>3, StartingNow
  <2> QED BY <2>1, <2>2, <2>3, <2>4, DrainStartsKeeps
<1> QED BY <1>3, <1>4

\* flushStrict keeps the invariant: it waits for the flush of another caller or starts its own.
LEMMA FlushStrictKeeps ==
  ASSUME SaverIInv, FlushStrict
  PROVE  SaverIInv'
<1>1. open /\ drain["close"].pc = "none" /\ UNCHANGED <<disk, memory, setup, saving, life, budget>>
      /\ "flush" \in Drains
  BY DEF FlushStrict, Drains
<1>2. strict \in 0 .. MaxStrict /\ strict \in Nat /\ MaxStrict \in Nat
  BY SaverAssumption DEF SaverIInv, Shape
<1>3. CASE drain["flush"].pc # "none"
  <2>1. strict < MaxStrict /\ strict' = strict + 1
        /\ UNCHANGED <<drain, need, io, dirty, timer, block, acked>>
    BY <1>3 DEF FlushStrict
  <2>2. strict' \in 0 .. MaxStrict
    BY <1>2, <2>1
  <2>3. /\ need' \in [Drains -> 0 .. MaxPuts]
        /\ \A d \in Drains : need'[d] <= mem /\ (drain'[d].pc = "none" => need'[d] = 0)
        /\ drain' \in [Drains -> [pc : DrainPcs, failed : BOOLEAN]]
    BY <2>1 DEF SaverIInv, Shape
  <2> QED BY <1>1, <2>1, <2>2, <2>3, WaitingKeeps DEF budget
<1>4. CASE drain["flush"].pc = "none"
  <2>1. need' = [need EXCEPT !["flush"] = mem] /\ DrainStarts("flush") /\ strict' = strict
    BY <1>4 DEF FlushStrict
  <2>2. strict' \in 0 .. strict
    BY <1>2, <2>1
  <2>3. ItsTurn("flush")
    BY <1>1, <2>1, <2>2, StartingNow
  <2> QED BY <1>1, <1>4, <2>1, <2>3, DrainStartsKeeps
<1> QED BY <1>3, <1>4

\* flushStrict keeps the invariant when the flush it waited for is over.
LEMMA StrictGoesOnKeeps ==
  ASSUME SaverIInv, StrictGoesOn
  PROVE  SaverIInv'
<1>1. /\ strict > 0 /\ drain["flush"].pc = "none" /\ strict' = strict - 1
      /\ need' = [need EXCEPT !["flush"] = mem] /\ DrainStarts("flush")
      /\ UNCHANGED <<disk, memory, setup, saving, life, budget>> /\ "flush" \in Drains
  BY DEF StrictGoesOn, Drains
<1>2. open /\ drain["close"].pc = "none"
  BY <1>1 DEF SaverIInv, Turns
<1>3. strict' \in 0 .. strict
  BY <1>1, SaverAssumption DEF SaverIInv, Shape
<1>4. ItsTurn("flush")
  BY <1>1, <1>2, <1>3, StartingNow
<1> QED BY <1>1, <1>4, DrainStartsKeeps

\* close keeps the invariant: it joins the flush under way or drains itself.
LEMMA CloseKeeps ==
  ASSUME SaverIInv, Close
  PROVE  SaverIInv'
<1>1. /\ open /\ drain["close"].pc = "none" /\ strict = 0 /\ need' = [need EXCEPT !["close"] = mem]
      /\ UNCHANGED <<disk, memory, setup, saving, strict, life, budget>> /\ "close" \in Drains
  BY DEF Close, CloseStarts, Drains
<1>2. mem \in 0 .. MaxPuts /\ mem \in Nat /\ strict' \in 0 .. strict /\ strict' \in 0 .. MaxStrict
  BY <1>1, SaverAssumption DEF SaverIInv, Shape
<1>3. CASE drain["flush"].pc # "none"
  <2>1. drain' = [drain EXCEPT !["close"].pc = "flush"] /\ UNCHANGED <<io, dirty, timer, block, acked>>
    BY <1>3 DEF Close, CloseStarts
  <2>2. /\ drain' \in [Drains -> [pc : DrainPcs, failed : BOOLEAN]]
        /\ drain'["close"].pc = "flush" /\ drain'["flush"] = drain["flush"]
    BY <1>1, <2>1 DEF SaverIInv, Shape, DrainPcs, Drains
  <2>3. need' \in [Drains -> 0 .. MaxPuts]
    BY <1>1, <1>2 DEF SaverIInv, Shape
  <2>4. \A d \in Drains : need'[d] <= mem /\ (drain'[d].pc = "none" => need'[d] = 0)
    BY <1>1, <1>2, <2>2 DEF SaverIInv, Shape, Drains
  <2>5. ~(strict' > 0)
    BY <1>1
  <2> QED BY <1>1, <1>2, <2>1, <2>2, <2>3, <2>4, <2>5, WaitingKeeps DEF budget
<1>4. CASE drain["flush"].pc = "none"
  <2>1. DrainStarts("close")
    BY <1>4 DEF Close, CloseStarts
  <2>2. ItsTurn("close")
    BY <1>1, <1>2, <1>4, StartingNow
  <2> QED BY <1>1, <2>1, <2>2, DrainStartsKeeps
<1> QED BY <1>3, <1>4

\* close keeps the invariant when the flush it waited for is over.
LEMMA CloseGoesOnKeeps ==
  ASSUME SaverIInv, CloseGoesOn
  PROVE  SaverIInv'
<1>1. /\ drain["close"].pc = "flush" /\ drain["flush"].pc = "none" /\ DrainStarts("close")
      /\ UNCHANGED need /\ UNCHANGED strict
      /\ UNCHANGED <<disk, memory, setup, saving, life, budget>> /\ "close" \in Drains
  BY DEF CloseGoesOn, Drains
<1>2. strict \in Nat /\ ~(strict > 0) /\ open
  BY <1>1, SaverAssumption DEF SaverIInv, Turns, Shape
<1>3. ItsTurn("close")
  <2>1. strict = 0 /\ strict' \in 0 .. strict
    BY <1>1, <1>2
  <2>2. need' \in [Drains -> 0 .. MaxPuts] /\ \A e \in Drains : need'[e] <= mem
    BY <1>1 DEF SaverIInv, Shape
  <2> QED BY <1>1, <1>2, <2>1, <2>2 DEF ItsTurn
<1> QED BY <1>1, <1>3, DrainStartsKeeps

-----------------------------------------------------------------------------
\* The reset of flushPromise keeps the invariant.
LEMMA FlushReturnsKeeps ==
  ASSUME SaverIInv, FlushReturns
  PROVE  SaverIInv'
<1> USE DEF SaverIInv
<1>1. /\ drain["flush"].pc = "ending" /\ drain' = [drain EXCEPT !["flush"] = NoDrain]
      /\ need' = [need EXCEPT !["flush"] = 0]
      /\ UNCHANGED <<disk, io, open, mem, issued, dirty, timer, block, setup, saving, strict>>
      /\ UNCHANGED <<retired, opening, deleting, gone, acked, fails>>
  BY DEF FlushReturns, file, memory, flags, life, budget
<1>2. Drains = {"flush", "close"}
  BY DEF Drains
<1>3. mem \in Nat /\ issued \in Nat /\ MaxPuts \in Nat
  BY SaverAssumption DEF Shape
<1>4. /\ drain'["flush"] = NoDrain /\ drain'["close"] = drain["close"] /\ NoDrain.pc = "none"
      /\ drain' \in [Drains -> [pc : DrainPcs, failed : BOOLEAN]]
      /\ need'["flush"] = 0 /\ need'["close"] = need["close"]
      /\ need' \in [Drains -> 0 .. MaxPuts]
  BY <1>1, <1>2, <1>3 DEF Shape, NoDrain, DrainPcs
<1>5. Shape'
  BY <1>1, <1>2, <1>3, <1>4 DEF Shape
<1>6. Flags'
  BY <1>1 DEF Flags
<1>7. Turns'
  BY <1>1, <1>2, <1>4 DEF Turns
<1>8. OnDisk' /\ Marked'
  <2>1. OnDisk'
    BY <1>1 DEF OnDisk, Tmp
  <2>2. Marked'
    BY <1>1 DEF Marked
  <2> QED BY <2>1, <2>2
<1>9. Vouched' /\ Deletion'
  BY <1>1 DEF Vouched, Deletion
<1>10. Attended'
  BY <1>1, <1>2, <1>4 DEF Attended
<1> QED BY <1>5, <1>6, <1>7, <1>8, <1>9, <1>10

\* The end of close keeps the invariant: the database goes only when it is saved or given up.
LEMMA CloseReturnsKeeps ==
  ASSUME SaverIInv, CloseReturns
  PROVE  SaverIInv'
<1> USE DEF SaverIInv
<1>1. /\ drain["close"].pc = "ending" /\ drain' = [drain EXCEPT !["close"] = NoDrain]
      /\ need' = [need EXCEPT !["close"] = 0] /\ open' = FALSE
      /\ UNCHANGED <<disk, io, mem, issued, dirty, timer, block, setup, saving, strict>>
      /\ UNCHANGED <<retired, opening, deleting, gone, acked, fails>>
  BY DEF CloseReturns, file, flags, life, budget
<1>2. Drains = {"flush", "close"}
  BY DEF Drains
<1>3. mem \in Nat /\ issued \in Nat /\ MaxPuts \in Nat /\ strict \in Nat
  BY SaverAssumption DEF Shape
<1>4. /\ drain'["close"] = NoDrain /\ drain'["flush"] = drain["flush"] /\ NoDrain.pc = "none"
      /\ drain' \in [Drains -> [pc : DrainPcs, failed : BOOLEAN]]
      /\ need'["close"] = 0 /\ need'["flush"] = need["flush"]
      /\ need' \in [Drains -> 0 .. MaxPuts]
  BY <1>1, <1>2, <1>3 DEF Shape, NoDrain, DrainPcs
<1>5. Shape'
  BY <1>1, <1>2, <1>3, <1>4 DEF Shape
<1>6. Flags'
  BY <1>1 DEF Flags
<1>7. Turns'
  <2>1. drain["flush"].pc = "none" /\ ~saving /\ ~(strict > 0)
    BY <1>1, <1>2 DEF Turns
  <2>2. strict = 0
    BY <1>3, <2>1
  <2>3. \A d \in Drains : drain'[d].pc = "none"
    BY <1>2, <1>4, <2>1
  <2>4. \A d \in Drains : io[d].step = "idle"
    BY <1>1, <1>2, <2>1 DEF Turns
  <2> QED BY <1>1, <1>2, <2>1, <2>2, <2>3, <2>4 DEF Turns
<1>8. OnDisk'
  BY <1>1, <1>3, DiskKept
<1>9. Vouched' /\ Deletion'
  BY <1>1, <1>3, RestKept DEF Deletion
<1>10. Marked' /\ Attended'
  BY <1>1 DEF Marked, Attended
<1> QED BY <1>5, <1>6, <1>7, <1>8, <1>9, <1>10

\* retire keeps the invariant: what it drops belongs to a thread that is being deleted.
LEMMA RetireKeeps ==
  ASSUME SaverIInv, Retire
  PROVE  SaverIInv'
<1> USE DEF SaverIInv
<1>1. /\ ~retired /\ opening = "no" /\ strict = 0 /\ retired' = TRUE
      /\ UNCHANGED <<disk, io, open, mem, issued, dirty, setup, saving, strict, need>>
      /\ UNCHANGED <<opening, deleting, gone, acked, fails>>
  BY DEF Retire, file, memory, budget
<1>2. Drains = {"flush", "close"}
  BY DEF Drains
<1>3. mem \in Nat /\ issued \in Nat
  BY SaverAssumption DEF Shape
<1>4. OnDisk' /\ Vouched' /\ Deletion'
  BY <1>1, <1>3, DiskKept, RestKept
<1>5. Marked' /\ Attended'
  BY <1>1 DEF Marked, Attended
<1>6. CASE ~(open /\ drain["close"].pc = "none")
  <2>1. UNCHANGED <<drain, timer, block>>
    BY <1>6 DEF Retire
  <2>2. Shape'
    BY <1>1, <2>1 DEF Shape
  <2>3. Flags'
    BY <1>1, <2>1 DEF Flags
  <2>4. Turns'
    BY <1>1, <2>1 DEF Turns
  <2> QED BY <1>4, <1>5, <2>2, <2>3, <2>4
<1>7. CASE open /\ drain["close"].pc = "none"
  <2> DEFINE next == IF drain["flush"].pc # "none" THEN "flush"
                     ELSE IF saving THEN "saving" ELSE "ending"
  <2>1. drain' = [drain EXCEPT !["close"].pc = next]
    BY <1>7 DEF Retire
  <2>2. IF next = "flush" THEN UNCHANGED <<timer, block>> ELSE timer' = FALSE /\ block' = TRUE
    BY <1>7 DEF Retire
  <2>3. next \in {"flush", "saving", "ending"} /\ (next # "flush" => drain["flush"].pc = "none")
        /\ (next = "ending" => ~saving)
    OBVIOUS
  <2> HIDE DEF next
  <2>4. /\ drain'["close"].pc = next /\ drain'["flush"] = drain["flush"]
        /\ drain' \in [Drains -> [pc : DrainPcs, failed : BOOLEAN]]
    BY <1>2, <2>1, <2>3 DEF Shape, DrainPcs
  <2>5. Shape'
    BY <1>1, <1>2, <2>3, <2>4 DEF Shape
  <2>6. Flags'
    BY <1>1, <2>2 DEF Flags
  <2>7. Turns'
    <3>1. ~(strict' > 0)
      BY <1>1
    <3>2. CASE next = "flush"
      <4>1. UNCHANGED block
        BY <2>2, <3>2
      <4> QED BY <1>1, <1>2, <1>7, <2>4, <3>1, <3>2, <4>1 DEF Turns
    <3>3. CASE next # "flush"
      <4>1. block' = TRUE /\ drain["flush"].pc = "none"
        BY <2>2, <2>3, <3>3
      <4> QED BY <1>1, <1>2, <1>7, <2>3, <2>4, <3>1, <3>3, <4>1 DEF Turns
    <3> QED BY <3>2, <3>3
  <2> QED BY <1>4, <1>5, <2>5, <2>6, <2>7
<1> QED BY <1>6, <1>7

-----------------------------------------------------------------------------
\* A closed saver has nothing under way.
LEMMA NothingUnderWay ==
  ASSUME SaverIInv, ~open
  PROVE  /\ \A w \in Writers \ {"open"} : io[w].step = "idle" /\ io[w] = NoIO
         /\ opening = "no" => io["open"].step = "idle" /\ io["open"] = NoIO
         /\ \A d \in Drains : drain[d].pc = "none" /\ need[d] = 0
         /\ ~saving /\ strict = 0
<1> USE DEF SaverIInv
<1>1. ~saving /\ strict = 0 /\ \A d \in Drains : drain[d].pc = "none" /\ need[d] = 0
  BY DEF Turns, Shape
<1>2. \A w \in Writers \ {"open"} : io[w].step = "idle"
  BY <1>1 DEF Turns, Drains, Writers
<1>3. opening = "no" => io["open"].step = "idle"
  BY DEF Turns
<1>4. "open" \in Writers
  BY DEF Writers
<1> QED BY <1>1, <1>2, <1>3, <1>4 DEF Shape

\* What a start finds.
LEMMA Finds ==
  ASSUME SaverIInv
  PROVE  /\ Recoverable(disk) \in Nat /\ Recoverable(disk) \in 0 .. MaxPuts
         /\ Recoverable(disk) \in 0 .. issued
         /\ Below(disk, Recoverable(disk))
<1>1. MaxPuts \in Nat /\ issued \in Nat /\ Sound(disk, MaxPuts) /\ Below(disk, issued)
  BY SaverAssumption DEF SaverIInv, Shape, OnDisk
<1>2. Recoverable(disk) \in 0 .. MaxPuts /\ Below(disk, Recoverable(disk))
  BY <1>1, LargestIsFound
<1>3. Recoverable(disk) <= issued
  BY <1>1, FoundBelow
<1> QED BY <1>1, <1>2, <1>3

\* initialize keeps the invariant: it opens what recovery chooses, or begins to repair the file.
LEMMA InitializeKeeps ==
  ASSUME SaverIInv, Initialize
  PROVE  SaverIInv'
<1> USE DEF SaverIInv
<1> DEFINE r == Recoverable(disk)
<1>1. /\ ~open /\ ~retired /\ ~gone /\ opening = "no" /\ block' = FALSE
      /\ UNCHANGED <<issued, saving, drain, strict, need, retired, deleting, gone, acked, fails>>
  BY DEF Initialize, waits
<1>2. /\ \A w \in Writers : io[w].step = "idle" /\ io[w] = NoIO
      /\ \A d \in Drains : drain[d].pc = "none" /\ need[d] = 0
      /\ ~saving /\ strict = 0
  BY <1>1, NothingUnderWay
<1>3. /\ r \in Nat /\ r \in 0 .. MaxPuts /\ r \in 0 .. issued /\ Below(disk, r)
      /\ MaxPuts \in Nat /\ issued \in Nat /\ mem \in Nat
  BY Finds, SaverAssumption DEF Shape
<1>4. /\ disk' = disk \/ disk' = Archived(disk)
      /\ Sound(disk', MaxPuts)
      /\ \A n \in Names : disk'.file[n].val = disk.file[n].val
      /\ Recoverable(disk') = r
  <2>1. disk' = disk \/ disk' = Archived(disk)
    BY DEF Initialize
  <2>2. Sound(disk, MaxPuts)
    BY DEF OnDisk
  <2>3. CASE disk' = disk
    BY <2>2, <2>3
  <2>4. CASE disk' = Archived(disk)
    BY <1>3, <2>2, <2>4, ArchivedSound
  <2> QED BY <2>1, <2>3, <2>4
<1>5. Below(disk', issued) /\ Below(disk', r)
  BY <1>3, <1>4 DEF Below, OnDisk, Candidates
<1>6. deleting = 0 /\ Deletion'
  BY <1>1 DEF Deletion
<1>7. acked \in 0 .. issued /\ acked <= r
  BY DEF Vouched
<1>8. CASE Choice(disk) \in {"", "live"}
  <2>1. /\ open' = TRUE /\ mem' = r /\ setup' = TRUE /\ UNCHANGED <<io, opening>>
        /\ dirty' \in {TRUE, dirty} /\ timer' \in {TRUE, timer}
    BY <1>8 DEF Initialize, OpenWith
  <2>2. disk'.file["live"].val = r
    <3>1. "live" \in Names /\ "live" \in Candidates
      BY DEF Names, Candidates
    <3>2. CASE Choice(disk) = "live"
      <4>1. r = disk.file["live"].val
        BY <3>2 DEF Recoverable
      <4> QED BY <1>4, <3>1, <4>1
    <3>3. CASE Choice(disk) = ""
      <4>1. r = 0 /\ Valid(disk) = {}
        BY <1>3, <3>3, LargestIsFound DEF OnDisk
      <4>2. disk.file["live"].is # "whole"
        BY <3>1, <4>1 DEF Valid
      <4>3. disk.file["live"].val = 0
        BY <1>3, <3>1, <4>2, Contents DEF OnDisk, Sound
      <4> QED BY <1>4, <3>1, <4>1, <4>3
    <3> QED BY <1>8, <3>2, <3>3
  <2>3. Shape'
    BY <1>1, <1>2, <1>3, <2>1 DEF Shape
  <2>4. Flags'
    BY <1>1, <2>1 DEF Flags
  <2>5. Turns'
    <3>1. ~(strict' > 0) /\ {"save", "open", "flush", "close"} \subseteq Writers /\ Drains = {"flush", "close"}
      BY <1>1, <1>2 DEF Writers, Drains
    <3> QED BY <1>1, <1>2, <2>1, <3>1 DEF Turns
  <2>6. OnDisk'
    BY <1>2, <1>4, <1>5, <1>1, <2>1 DEF OnDisk
  <2>7. Vouched'
    BY <1>1, <1>4, <1>7, <2>2 DEF Vouched
  <2>8. Marked' /\ Attended'
    BY <2>1, <2>2 DEF Marked, Attended
  <2> QED BY <1>6, <2>3, <2>4, <2>5, <2>6, <2>7, <2>8
<1>9. CASE Choice(disk) \notin {"", "live"}
  <2>1. /\ io' = [io EXCEPT !["open"] = Begin(r)] /\ opening' = "recovering"
        /\ UNCHANGED <<open, mem, setup, dirty, timer>>
    BY <1>9 DEF Initialize
  <2>2. "open" \in Writers /\ "save" \in Writers /\ Drains \subseteq Writers /\ "open" # "save" /\ "open" \notin Drains
    BY DEF Writers, Drains
  <2>3. /\ \A x \in Writers \ {"open"} : io'[x] = NoIO /\ io'[x].step = "idle"
        /\ io'["open"] = Begin(r) /\ io'["open"].step = "begin" /\ io'["open"].val = r
        /\ io' \in [Writers -> [step : Steps, val : 0 .. MaxPuts]]
    <3>1. Begin(r) \in [step : Steps, val : 0 .. MaxPuts] /\ Begin(r).step = "begin" /\ Begin(r).val = r
      BY <1>3 DEF Begin, Steps, PersistSteps
    <3> HIDE DEF r
    <3> QED BY <1>2, <2>1, <2>2, <3>1 DEF Shape
  <2>4. Shape'
    <3>1. \A x \in Writers : io'[x].step = "idle" => io'[x] = NoIO
      BY <2>3
    <3> QED BY <1>1, <2>1, <2>3, <3>1 DEF Shape
  <2>5. Flags'
    BY <1>1, <2>1 DEF Flags
  <2>6. Turns'
    <3>1. ~(strict' > 0) /\ Drains = {"flush", "close"}
      BY <1>1, <1>2 DEF Drains
    <3> HIDE DEF r
    <3> QED BY <1>1, <1>2, <2>1, <2>2, <2>3, <3>1 DEF Turns
  <2>7. OnDisk'
    <3>1. \A w \in Writers : io'[w].step # "idle" => w = "open" /\ io'[w].val = r /\ io'[w].step = "begin"
      BY <2>3
    <3> HIDE DEF r
    <3> QED BY <1>1, <1>4, <1>5, <2>1, <3>1 DEF OnDisk
  <2>8. Vouched'
    BY <1>1, <1>4, <1>7, <2>1 DEF Vouched
  <2>9. Marked' /\ Attended'
    BY <1>1, <2>1 DEF Marked, Attended
  <2>10. Deletion'
    BY <1>1, <1>6 DEF Deletion
  <2> QED BY <2>4, <2>5, <2>6, <2>7, <2>8, <2>9, <2>10
<1> QED BY <1>8, <1>9

\* initialize keeps the invariant when the repaired file is written.
LEMMA RecoveredKeeps ==
  ASSUME SaverIInv, Recovered
  PROVE  SaverIInv'
<1> USE DEF SaverIInv
<1> DEFINE v == io["open"].val
<1>1. /\ io["open"].step = "done" /\ open' = TRUE /\ mem' = v /\ setup' = TRUE
      /\ dirty' \in {TRUE, dirty} /\ timer' \in {TRUE, timer}
      /\ io' = [io EXCEPT !["open"] = NoIO] /\ opening' = "no"
      /\ UNCHANGED <<disk, issued, block, saving, drain, strict, need, retired, deleting, gone, acked, fails>>
  BY DEF Recovered, OpenWith, waits, budget
<1>2. "open" \in Writers /\ Drains \subseteq Writers /\ "save" \in Writers
  BY DEF Writers, Drains
<1>3. opening = "recovering" /\ ~open /\ ~retired /\ ~block
  BY <1>1 DEF Turns
<1>4. /\ \A w \in Writers \ {"open"} : io[w].step = "idle" /\ io[w] = NoIO
      /\ \A d \in Drains : drain[d].pc = "none" /\ need[d] = 0
      /\ ~saving /\ strict = 0
  BY <1>3, NothingUnderWay
<1>5. disk.file["live"] = Whole(v) /\ v = Recoverable(disk) /\ Below(disk, v)
  BY <1>1, <1>2 DEF OnDisk
<1>6. v \in Nat /\ v \in 0 .. issued /\ disk.file["live"].val = v /\ issued \in Nat /\ MaxPuts \in Nat
  BY <1>5, Finds, SaverAssumption DEF Shape, Whole
<1>7. /\ \A x \in Writers : io'[x] = NoIO /\ io'[x].step = "idle"
      /\ io' \in [Writers -> [step : Steps, val : 0 .. MaxPuts]]
  <2>1. NoIO \in [step : Steps, val : 0 .. MaxPuts] /\ NoIO.step = "idle"
    BY <1>6 DEF NoIO, Steps
  <2> QED BY <1>1, <1>4, <2>1 DEF Shape
<1>8. Shape'
  BY <1>1, <1>4, <1>6, <1>7 DEF Shape
<1>9. Flags'
  BY <1>1 DEF Flags
<1>10. Turns'
  BY <1>1, <1>2, <1>3, <1>4, <1>7 DEF Turns
<1>11. OnDisk'
  BY <1>1, <1>5, <1>7 DEF OnDisk
<1>12. Vouched'
  BY <1>1, <1>5, <1>6 DEF Vouched
<1>13. Deletion'
  BY <1>1, <1>3 DEF Deletion
<1>14. Marked' /\ Attended'
  BY <1>1, <1>6 DEF Marked, Attended
<1> QED BY <1>8, <1>9, <1>10, <1>11, <1>12, <1>13, <1>14

\* initialize keeps the invariant when the repair fails: nothing is open.
LEMMA RecoveryFailsKeeps ==
  ASSUME SaverIInv, RecoveryFails
  PROVE  SaverIInv'
<1> USE DEF SaverIInv
<1>1. /\ io["open"].step = "failed" /\ io' = [io EXCEPT !["open"] = NoIO] /\ opening' = "no"
      /\ UNCHANGED <<disk, open, mem, issued, dirty, timer, block, setup, saving, drain, strict, need>>
      /\ UNCHANGED <<retired, deleting, gone, acked, fails>>
  BY DEF RecoveryFails, memory, flags, waits, budget
<1>2. "open" \in Writers /\ Drains \subseteq Writers /\ "save" \in Writers /\ "open" # "save" /\ "open" \notin Drains
  BY DEF Writers, Drains
<1>3. mem \in Nat /\ issued \in Nat /\ MaxPuts \in Nat
  BY SaverAssumption DEF Shape
<1>4. /\ \A x \in Writers \ {"open"} : io'[x] = io[x]
      /\ io'["open"] = NoIO /\ io'["open"].step = "idle"
      /\ io' \in [Writers -> [step : Steps, val : 0 .. MaxPuts]]
  <2>1. NoIO \in [step : Steps, val : 0 .. MaxPuts] /\ NoIO.step = "idle"
    BY <1>3 DEF NoIO, Steps
  <2> QED BY <1>1, <1>2, <2>1 DEF Shape
<1>5. opening = "recovering" /\ ~open
  BY <1>1 DEF Turns
<1>6. Shape'
  BY <1>1, <1>4 DEF Shape
<1>7. Flags'
  BY <1>1 DEF Flags
<1>8. Turns'
  BY <1>1, <1>2, <1>4 DEF Turns
<1>9. OnDisk'
  BY <1>1, <1>3, <1>4, DiskKept
<1>10. Vouched' /\ Deletion'
  BY <1>1, <1>3, RestKept DEF Deletion
<1>11. Marked' /\ Attended'
  BY <1>1, <1>5 DEF Marked, Attended
<1> QED BY <1>6, <1>7, <1>8, <1>9, <1>10, <1>11

\* A new saver for the same file keeps the invariant.
LEMMA NewInstanceKeeps ==
  ASSUME SaverIInv, NewInstance
  PROVE  SaverIInv'
<1> USE DEF SaverIInv
<1>1. /\ ~open /\ dirty' = FALSE /\ timer' = FALSE /\ block' = FALSE /\ setup' = FALSE
      /\ UNCHANGED <<disk, io, open, mem, issued, saving, drain, strict, need>>
      /\ UNCHANGED <<retired, opening, deleting, gone, acked, fails>>
  BY DEF NewInstance, file, memory, waits, life, budget
<1>2. Shape' /\ Vouched' /\ Deletion'
  BY <1>1 DEF Shape, Vouched, Deletion
<1>3. Flags'
  BY <1>1 DEF Flags
<1>4. Turns'
  <2>1. \A d \in Drains : drain[d].pc = "none"
    BY <1>1 DEF Turns
  <2>2. "flush" \in Drains /\ "close" \in Drains
    BY DEF Drains
  <2> QED BY <1>1, <2>1, <2>2 DEF Turns
<1>5. OnDisk'
  BY <1>1 DEF OnDisk, Tmp
<1>6. Marked' /\ Attended'
  BY <1>1 DEF Marked, Attended
<1> QED BY <1>2, <1>3, <1>4, <1>5, <1>6

\* Every unlink of the deletion keeps the invariant: the order in which the variants go leaves none ahead of a readable live file.
LEMMA UnlinkKeeps ==
  ASSUME SaverIInv, Unlink
  PROVE  SaverIInv'
<1> USE DEF SaverIInv
<1> DEFINE n == DeleteOrder[deleting + 1]
<1>1. /\ retired /\ ~open /\ disk' = Unlinked(disk, n) /\ gone' = (gone \/ n = "live")
      /\ deleting' = deleting + 1 /\ acked' = 0
      /\ UNCHANGED <<io, open, mem, issued, dirty, timer, block, setup, saving, drain, strict, need>>
      /\ UNCHANGED <<retired, opening, fails>>
  BY DEF Unlink, memory, flags, waits, budget
<1>2. deleting \in 0 .. 4 /\ n \in Names /\ (n = "live" => deleting = 4)
  <2>1. deleting < Len(DeleteOrder) /\ Len(DeleteOrder) = 5
    BY DEF Unlink, DeleteOrder
  <2>2. deleting \in 0 .. 4
    BY <2>1 DEF Deletion
  <2> QED BY <2>2 DEF DeleteOrder, Names
<1>3. opening = "no"
  BY <1>1 DEF Turns, Flags
<1>4. \A w \in Writers : io[w].step = "idle"
  BY <1>1, <1>3, NothingUnderWay
<1>5. MaxPuts \in Nat /\ issued \in Nat /\ Sound(disk, MaxPuts)
  BY SaverAssumption DEF Shape, OnDisk
<1>6. /\ Sound(disk', MaxPuts) /\ disk'.file[n] = Absent
      /\ \A m \in Names \ {n} : disk'.file[m] = disk.file[m]
  <2> HIDE DEF n
  <2> QED BY <1>1, <1>2, <1>5, UnlinkedSound
<1>7. Below(disk', issued)
  <2>1. disk'.file[n].val = 0
    BY <1>6 DEF Absent
  <2>2. \A m \in Candidates : m # n => disk'.file[m].val <= issued
    BY <1>6 DEF OnDisk, Below, Candidates
  <2> HIDE DEF n
  <2> QED BY <1>5, <2>1, <2>2 DEF Below
<1>8. Shape' /\ Marked' /\ Attended'
  BY <1>1 DEF Shape, Marked, Attended
<1>9. Flags'
  BY <1>1 DEF Flags
<1>10. Turns'
  BY <1>1 DEF Turns
<1>11. OnDisk'
  BY <1>1, <1>4, <1>6, <1>7 DEF OnDisk
<1>12. Vouched'
  <2>1. Recoverable(disk') \in 0 .. MaxPuts
    BY <1>5, <1>6, LargestIsFound
  <2> QED BY <1>1, <1>5, <2>1 DEF Vouched
<1>13. Deletion'
  <2>1. \A i \in 1 .. deleting : disk'.file[DeleteOrder[i]] = Absent
    <3>1. \A i \in 1 .. deleting : disk.file[DeleteOrder[i]] = Absent /\ DeleteOrder[i] \in Names
      BY <1>2 DEF Deletion, DeleteOrder, Names
    <3> HIDE DEF n
    <3> QED BY <1>6, <3>1
  <2>2. \A i \in 1 .. deleting' : disk'.file[DeleteOrder[i]] = Absent
    <3> SUFFICES ASSUME NEW i \in 1 .. deleting + 1 PROVE disk'.file[DeleteOrder[i]] = Absent
      BY <1>1
    <3>1. CASE i = deleting + 1
      BY <1>6, <3>1
    <3>2. CASE i # deleting + 1
      <4>1. i \in 1 .. deleting
        BY <1>2, <3>2
      <4> QED BY <2>1, <4>1
    <3> QED BY <3>1, <3>2
  <2>3. gone => \A m \in Names : disk'.file[m] = Absent
    <3> HIDE DEF n
    <3> QED BY <1>6 DEF Deletion
  <2>4. ASSUME n = "live" PROVE \A m \in Names : disk'.file[m] = Absent
    <3>1. deleting = 4
      BY <1>2, <2>4
    <3>2. \A i \in 1 .. 5 : disk'.file[DeleteOrder[i]] = Absent
      BY <1>1, <2>2, <3>1
    <3>3. \A m \in Names : \E i \in 1 .. 5 : m = DeleteOrder[i]
      <4>1. /\ DeleteOrder[1] = "tmp" /\ DeleteOrder[2] = "bak" /\ DeleteOrder[3] = "bakTmp"
            /\ DeleteOrder[4] = "recTmp" /\ DeleteOrder[5] = "live"
        BY DEF DeleteOrder
      <4>2. 1 \in 1 .. 5 /\ 2 \in 1 .. 5 /\ 3 \in 1 .. 5 /\ 4 \in 1 .. 5 /\ 5 \in 1 .. 5
        OBVIOUS
      <4> QED BY <4>1, <4>2 DEF Names
    <3> QED BY <3>2, <3>3
  <2>5. gone' => ~open' /\ opening' = "no" /\ \A m \in Names : disk'.file[m] = Absent
    <3> HIDE DEF n
    <3> QED BY <1>1, <1>3, <2>3, <2>4
  <2>6. deleting' \in 0 .. 5
    BY <1>1, <1>2
  <2>7. retired' /\ ~open'
    BY <1>1
  <2> QED BY <2>2, <2>5, <2>6, <2>7 DEF Deletion
<1> QED BY <1>8, <1>9, <1>10, <1>11, <1>12, <1>13

\* A crash keeps the invariant: what the directory holds is all that is left, and it is enough.
LEMMA CrashKeeps ==
  ASSUME SaverIInv, Crash
  PROVE  SaverIInv'
<1> USE DEF SaverIInv
<1>1. /\ io' = [w \in Writers |-> NoIO] /\ drain' = [d \in Drains |-> NoDrain]
      /\ strict' = 0 /\ need' = [d \in Drains |-> 0]
      /\ open' = FALSE /\ dirty' = FALSE /\ timer' = FALSE /\ block' = FALSE
      /\ setup' = FALSE /\ saving' = FALSE /\ retired' = FALSE /\ opening' = "no" /\ deleting' = 0
      /\ UNCHANGED <<disk, mem, issued, gone, acked, fails>>
  BY DEF Crash, Drains
<1>2. mem \in Nat /\ issued \in Nat /\ MaxPuts \in Nat /\ MaxStrict \in Nat
  BY SaverAssumption DEF Shape
<1>3. /\ \A w \in Writers : io'[w] = NoIO /\ io'[w].step = "idle"
      /\ \A d \in Drains : drain'[d] = NoDrain /\ drain'[d].pc = "none" /\ need'[d] = 0
      /\ io' \in [Writers -> [step : Steps, val : 0 .. MaxPuts]]
      /\ drain' \in [Drains -> [pc : DrainPcs, failed : BOOLEAN]]
      /\ need' \in [Drains -> 0 .. MaxPuts]
  <2>1. NoIO \in [step : Steps, val : 0 .. MaxPuts] /\ NoIO.step = "idle"
    BY <1>2 DEF NoIO, Steps
  <2>2. NoDrain \in [pc : DrainPcs, failed : BOOLEAN] /\ NoDrain.pc = "none"
    BY DEF NoDrain, DrainPcs
  <2> QED BY <1>1, <1>2, <2>1, <2>2
<1>4. "save" \in Writers /\ "open" \in Writers /\ Drains = {"flush", "close"} /\ Drains \subseteq Writers
  BY DEF Writers, Drains
<1>5. Shape'
  BY <1>1, <1>2, <1>3 DEF Shape
<1>6. Flags'
  BY <1>1 DEF Flags
<1>7. Turns'
  <2>1. ~(strict' > 0)
    BY <1>1
  <2> QED BY <1>1, <1>3, <1>4, <2>1 DEF Turns
<1>8. OnDisk'
  BY <1>1, <1>2, <1>3, DiskKept
<1>9. Vouched'
  BY <1>1 DEF Vouched
<1>10. Deletion'
  BY <1>1 DEF Deletion
<1>11. Marked' /\ Attended'
  BY <1>1 DEF Marked, Attended
<1> QED BY <1>5, <1>6, <1>7, <1>8, <1>9, <1>10, <1>11

\* The loss of the live file outside the program keeps the invariant.
LEMMA DamageKeeps ==
  ASSUME SaverIInv, Damage
  PROVE  SaverIInv'
<1> USE DEF SaverIInv
<1>1. /\ ~open /\ ~retired /\ opening = "no" /\ disk.file["live"].is = "whole"
      /\ disk' = [disk EXCEPT !.file["live"] = Torn]
      /\ acked' = IF acked <= Recoverable(disk') THEN acked ELSE Recoverable(disk')
      /\ UNCHANGED <<io, open, mem, issued, dirty, timer, block, setup, saving, drain, strict, need>>
      /\ UNCHANGED <<retired, opening, deleting, gone, fails>>
  BY DEF Damage, memory, flags, waits, life
<1>2. \A w \in Writers : io[w].step = "idle"
  BY <1>1, NothingUnderWay
<1>3. MaxPuts \in Nat /\ issued \in Nat /\ Sound(disk, MaxPuts) /\ IsWhole(disk, "live")
  BY <1>1, SaverAssumption DEF Shape, OnDisk, IsWhole
<1>4. /\ Sound(disk', MaxPuts) /\ disk'.file["live"] = Torn
      /\ \A m \in Names \ {"live"} : disk'.file[m] = disk.file[m]
      /\ Recoverable(disk') <= Recoverable(disk)
  BY <1>1, <1>3, DamagedSound
<1>5. Below(disk', issued)
  <2>1. disk'.file["live"].val = 0
    BY <1>4 DEF Torn
  <2>2. \A m \in Candidates : m # "live" => disk'.file[m].val <= issued
    BY <1>4 DEF OnDisk, Below, Candidates
  <2> QED BY <1>3, <2>1, <2>2 DEF Below
<1>6. Shape' /\ Marked' /\ Attended'
  BY <1>1 DEF Shape, Marked, Attended
<1>7. Flags'
  BY <1>1 DEF Flags
<1>8. Turns'
  BY <1>1 DEF Turns
<1>9. OnDisk'
  BY <1>1, <1>2, <1>4, <1>5 DEF OnDisk
<1>10. Vouched'
  <2>1. Recoverable(disk') \in 0 .. MaxPuts
    BY <1>3, <1>4, LargestIsFound
  <2>2. Recoverable(disk') <= issued
    BY <1>3, <1>4, <1>5, FoundBelow
  <2>3. acked \in 0 .. issued
    BY DEF Vouched
  <2> QED BY <1>1, <1>3, <2>1, <2>2, <2>3 DEF Vouched
<1>11. Deletion'
  <2>1. deleting = 0 /\ ~gone
    <3>1. disk.file["live"] # Absent /\ "live" \in Names
      BY <1>1 DEF Absent, Names
    <3> QED BY <1>1, <3>1 DEF Deletion
  <2> QED BY <1>1, <2>1 DEF Deletion
<1> QED BY <1>6, <1>7, <1>8, <1>9, <1>10, <1>11

\* A step of nobody keeps the invariant.
LEMMA StutterKeeps ==
  ASSUME SaverIInv, UNCHANGED vars
  PROVE  SaverIInv'
<1> USE DEF SaverIInv
<1>1. /\ UNCHANGED <<disk, io, open, mem, issued, dirty, timer, block, setup, saving>>
      /\ UNCHANGED <<drain, strict, need, retired, opening, deleting, gone, acked, fails>>
  BY DEF vars, file, memory, flags, waits, life, budget
<1>2. Shape' /\ Vouched' /\ Deletion' /\ Marked' /\ Attended'
  BY <1>1 DEF Shape, Vouched, Deletion, Marked, Attended
<1>3. Flags'
  BY <1>1 DEF Flags
<1>4. Turns'
  BY <1>1 DEF Turns
<1>5. OnDisk'
  BY <1>1 DEF OnDisk, Tmp
<1> QED BY <1>2, <1>3, <1>4, <1>5

\* Every step keeps the invariant.
LEMMA NextKeeps ==
  ASSUME SaverIInv, [Next]_vars
  PROVE  SaverIInv'
<1>1. ASSUME Progress PROVE SaverIInv'
  BY <1>1, WriteKeeps, TimerFiresKeeps, SaveSettlesKeeps, SaveFailsKeeps, DrainResumesKeeps,
     DrainWroteKeeps, DrainFailsKeeps, FlushReturnsKeeps, StrictGoesOnKeeps, CloseGoesOnKeeps,
     CloseReturnsKeeps, RecoveredKeeps, RecoveryFailsKeeps DEF Progress, Drains
<1> QED BY <1>1, WriteFailsKeeps, PutRowKeeps, FlushKeeps, FlushStrictKeeps, CloseKeeps, RetireKeeps,
     InitializeKeeps, NewInstanceKeeps, UnlinkKeeps, CrashKeeps, DamageKeeps, StutterKeeps DEF Next

\* The invariant holds of every state of the saver.
LEMMA Inductive == Spec => []SaverIInv
<1>1. Init => SaverIInv
  BY InitSaver
<1>2. SaverIInv /\ [Next]_vars => SaverIInv'
  BY NextKeeps
<1> QED BY <1>1, <1>2, PTL DEF Spec

-----------------------------------------------------------------------------
\* The invariant implies what the runs check.
LEMMA InvariantImplies ==
  ASSUME SaverIInv
  PROVE  SaverInv /\ NothingForgotten
<1> USE DEF SaverIInv
<1>1. \A w \in Writers : io[w] # NoIO <=> io[w].step # "idle"
  BY DEF Shape, NoIO
<1>2. Drains = {"flush", "close"} /\ Drains \subseteq Writers /\ "save" \in Writers /\ "open" \in Writers
  BY DEF Drains, Writers
<1>3. MaxPuts \in Nat /\ issued \in Nat /\ Sound(disk, MaxPuts)
  BY SaverAssumption DEF Shape, OnDisk
<1>4. TypeOK
  <2>1. IsDir(disk, MaxPuts)
    BY DEF OnDisk, Sound
  <2>2. io \in [Writers -> [step : PersistSteps \cup {"idle", "done", "failed"}, val : 0 .. MaxPuts]]
    BY DEF Shape, Steps
  <2>3. mem \in 0 .. issued /\ issued \in 0 .. MaxPuts /\ strict \in 0 .. MaxStrict
    BY DEF Shape
  <2>4. /\ drain \in [{"flush", "close"} -> [pc : DrainPcs, failed : BOOLEAN]]
        /\ need \in [{"flush", "close"} -> 0 .. MaxPuts]
    BY DEF Shape, Drains
  <2>5. acked \in 0 .. issued /\ deleting \in 0 .. 5
    BY DEF Vouched, Deletion
  <2>6. {open, dirty, timer, block, setup, saving, retired, gone} \subseteq BOOLEAN
    BY DEF Flags
  <2>7. opening \in {"no", "recovering"} /\ (opening = "recovering" <=> io["open"] # NoIO)
    BY <1>1, <1>2 DEF Flags, Turns
  <2>8. saving <=> io["save"] # NoIO
    BY <1>1, <1>2 DEF Turns
  <2>9. \A d \in {"flush", "close"} : drain[d].pc = "writing" <=> io[d] # NoIO
    BY <1>1, <1>2 DEF Turns
  <2>10. ~open => ~saving /\ \A d \in {"flush", "close"} : drain[d] = NoDrain
    BY <1>2 DEF Turns, Shape
  <2> QED BY <2>1, <2>2, <2>3, <2>4, <2>5, <2>6, <2>7, <2>8, <2>9, <2>10 DEF TypeOK
<1>5. OneWriter
  BY <1>1, TheWriter DEF OneWriter
<1>6. BackupHolds
  <2> DEFINE e == Unlinked(disk, "live")
  <2>1. "live" \in Names /\ "bak" \in Names /\ "bak" \in Candidates /\ "bak" # "live"
    BY DEF Names, Candidates
  <2>2. Sound(e, MaxPuts) /\ e.file["bak"] = disk.file["bak"]
    BY <1>3, <2>1, UnlinkedSound
  <2> HIDE DEF e
  <2>3. Below(e, Recoverable(e)) /\ Recoverable(e) \in 0 .. MaxPuts
    BY <1>3, <2>2, LargestIsFound
  <2>4. disk.file["bak"].val \in 0 .. MaxPuts
    BY <1>3, <2>1, Contents DEF Sound
  <2>5. disk.file["bak"].val <= Recoverable(e)
    BY <2>1, <2>2, <2>3 DEF Below
  <2>6. Recoverable(e) >= disk.file["bak"].val
    <3> DEFINE x == Recoverable(e)
               y == disk.file["bak"].val
    <3>1. x \in 0 .. MaxPuts /\ y \in 0 .. MaxPuts /\ y <= x
      BY <2>3, <2>4, <2>5
    <3> HIDE DEF x, y
    <3>2. x >= y
      BY <1>3, <3>1
    <3> QED BY <3>2 DEF x, y
  <2> QED BY <2>6 DEF BackupHolds, e
<1>7. GoneIsGone
  <2> SUFFICES ASSUME gone PROVE Recoverable(disk) = 0
    BY DEF GoneIsGone
  <2>1. \A n \in Candidates : disk.file[n] = Absent
    BY DEF Deletion, Candidates
  <2>2. Valid(disk) = {}
    BY <2>1 DEF Valid, Absent
  <2> QED BY <2>2 DEF Recoverable, Choice
<1>8. NothingForgotten
  <2> SUFFICES ASSUME open, ~retired, mem > 0, disk.file["live"] # Whole(mem)
               PROVE  \/ dirty /\ (timer \/ saving \/ (\E d \in {"flush", "close"} : drain[d] # NoDrain) \/ fails > 0)
                      \/ \E w \in Writers : io[w].val = mem /\ io[w].step \in {"begin", "tmp", "written", "failed"}
    BY DEF NothingForgotten
  <2>1. disk.file["live"].val # mem
    <3>1. "live" \in Names
      BY DEF Names
    <3>2. disk.file["live"].val # 0 => disk.file["live"] = Whole(disk.file["live"].val)
      BY <1>3, <3>1, Contents DEF Sound
    <3>3. mem # 0
      BY <1>3 DEF Shape
    <3> QED BY <3>2, <3>3
  <2>2. CASE dirty
    <3>1. \A d \in Drains : drain[d].pc # "none" => drain[d] # NoDrain
      BY DEF NoDrain
    <3> QED BY <1>2, <2>1, <2>2, <3>1 DEF Attended
  <2>3. CASE ~dirty
    BY <2>1, <2>3 DEF Marked
  <2> QED BY <2>2, <2>3
<1> QED BY <1>4, <1>5, <1>6, <1>7, <1>8 DEF SaverInv

\* At every moment, a crash between any two steps of a write or of a deletion
\* included, one writer is at work, an open without the live file would find the
\* backup, and a finished deletion left nothing to be found.
THEOREM SaverCorrect == Spec => []SaverInv
<1>1. SaverIInv => SaverInv
  BY InvariantImplies
<1> QED BY <1>1, Inductive, PTL

\* A put that is not in the file is marked with somebody to save it, or on its way.
THEOREM NeverForgotten == Spec => []NothingForgotten
<1>1. SaverIInv => NothingForgotten
  BY InvariantImplies
<1> QED BY <1>1, Inductive, PTL

-----------------------------------------------------------------------------
\* The saver implements a durable register: a step of the saver is a step of
\* the register, or leaves what the register shows alone.
Backed == IF deleting > 0 THEN 0 ELSE disk.file["bak"].val

RegisterStep == Register!Next \/ UNCHANGED Register!vars

\* A step that moves nothing the register is made of is a stutter of it.
LEMMA RegisterSame ==
  ASSUME UNCHANGED <<disk, open, mem, issued, acked, deleting, gone>>
  PROVE  UNCHANGED Register!vars
BY DEF Register!vars

\* What a backup vouches for is no more than what recovery finds.
LEMMA BackedBelow ==
  ASSUME SaverIInv
  PROVE  /\ Backed \in Nat /\ Backed <= Recoverable(disk)
         /\ disk.file["bak"].val \in Nat /\ disk.file["bak"].val <= Recoverable(disk)
<1>1. MaxPuts \in Nat /\ Sound(disk, MaxPuts) /\ "bak" \in Names /\ "bak" \in Candidates
  BY SaverAssumption DEF SaverIInv, OnDisk, Names, Candidates
<1>2. disk.file["bak"].val \in 0 .. MaxPuts
  BY <1>1, Contents DEF Sound
<1>3. disk.file["bak"].val <= Recoverable(disk) /\ Recoverable(disk) \in Nat
  BY <1>1, Finds DEF Below
<1> QED BY <1>1, <1>2, <1>3 DEF Backed

\* A step of a write makes a newer put durable, or is a stutter of the register.
LEMMA WriteIsPersist ==
  ASSUME SaverIInv, SaverIInv', NEW w \in Writers, Write(w)
  PROVE  RegisterStep
<1> DEFINE v == io[w].val
           s == io[w].step
<1>1. UNCHANGED <<open, mem, issued, acked, deleting, gone>>
  BY DEF Write, memory, life
<1>2. ~gone /\ deleting = 0
  <2>1. io[w].step # "idle"
    BY WriteEffect
  <2>2. ~open => w = "open" /\ opening = "recovering"
    BY <2>1 DEF SaverIInv, Turns, Writers, Drains
  <2> QED BY <2>2 DEF SaverIInv, Turns, Deletion
<1>3. /\ MaxPuts \in Nat /\ issued \in Nat /\ Sound(disk', MaxPuts) /\ Below(disk', issued)
      /\ "bak" \in Names /\ "bak" \in Candidates /\ Below(disk, v) /\ v \in 0 .. MaxPuts
      /\ disk'.file["bak"] = IF s = "bakWritten" THEN Whole(v) ELSE disk.file["bak"]
  BY <1>1, WriteEffect, SaverAssumption DEF SaverIInv, Shape, OnDisk, Names, Candidates
<1> DEFINE r == Recoverable(disk')
           b == disk.file["bak"].val
           c == disk'.file["bak"].val
<1>4. r \in 0 .. MaxPuts /\ Below(disk', r)
  BY <1>3, LargestIsFound
<1>5. r <= issued
  BY <1>3, FoundBelow
<1>6. acked \in 0 .. issued /\ acked <= r
  BY <1>1 DEF SaverIInv, Vouched
<1>7. b \in 0 .. MaxPuts /\ c \in 0 .. MaxPuts
  BY <1>3, Contents DEF Sound, SaverIInv, OnDisk
<1>8. b <= v /\ c <= r
  BY <1>3, <1>4 DEF Below
<1>9. c \in {v, b}
  BY <1>3 DEF Whole
<1>10. Backed = b /\ Backed' = c
  BY <1>1, <1>2 DEF Backed
<1>11. r \in acked .. issued /\ c \in b .. r
  <2> HIDE DEF r, b, c, v
  <2> QED BY <1>3, <1>4, <1>5, <1>6, <1>7, <1>8, <1>9
<1> HIDE DEF b, c, r
<1>12. Register!Persist
  <2>1. Recoverable(disk') \in acked .. issued /\ c \in b .. Recoverable(disk')
    BY <1>11 DEF r
  <2> QED BY <1>1, <1>2, <1>10, <2>1 DEF Register!Persist, Backed
<1> QED BY <1>12 DEF RegisterStep, Register!Next

\* What a drain vouches for is in the file.
LEMMA VouchingIsAck ==
  ASSUME SaverIInv, SaverIInv', open, UNCHANGED <<disk, open, mem, issued, deleting, gone>>,
         acked <= acked'
  PROVE  RegisterStep
<1>1. /\ acked \in Nat /\ acked' \in Nat /\ acked' <= Recoverable(disk)
      /\ Recoverable(disk) \in Nat
  BY Finds, SaverAssumption DEF SaverIInv, Vouched, Shape
<1>2. acked' \in acked .. Recoverable(disk)
  BY <1>1
<1>3. Register!Ack
  BY <1>2 DEF Register!Ack
<1> QED BY <1>3 DEF RegisterStep, Register!Next

\* What a drain vouches for only grows.
LEMMA DrainVouches ==
  ASSUME SaverIInv, NEW d \in Drains, need' \in [Drains -> 0 .. MaxPuts],
         \/ DrainStarts(d)
         \/ \E t \in BOOLEAN : DrainLoop(d, t)
         \/ \E failed, t, dty \in BOOLEAN : DrainEnds(d, failed, t, dty)
  PROVE  acked <= acked'
<1>1. acked \in Nat /\ need'[d] \in Nat
  BY SaverAssumption DEF SaverIInv, Vouched, Shape
<1>2. acked' = acked \/ (acked' = need'[d] /\ ~(need'[d] <= acked))
  BY DEF DrainStarts, DrainLoop, DrainEnds
<1> QED BY <1>1, <1>2

\* A step of a drain acknowledges what is durable, or is a stutter of the register.
LEMMA DrainIsAck ==
  ASSUME SaverIInv, SaverIInv', NEW d \in Drains, open,
         \/ DrainStarts(d)
         \/ \E t \in BOOLEAN : DrainLoop(d, t)
         \/ \E failed, t, dty \in BOOLEAN : DrainEnds(d, failed, t, dty),
         UNCHANGED <<disk, memory, life>>
  PROVE  RegisterStep
<1>1. need' \in [Drains -> 0 .. MaxPuts]
  BY DEF SaverIInv, Shape
<1>2. acked <= acked'
  BY <1>1, DrainVouches
<1> QED BY <1>2, VouchingIsAck DEF memory, life

\* Opening the file starts the register from what is durable, or is a stutter of it.
LEMMA InitializeIsStart ==
  ASSUME SaverIInv, Initialize
  PROVE  RegisterStep
<1>1. /\ ~open /\ ~gone /\ UNCHANGED <<issued, acked, deleting, gone>>
      /\ disk' = disk \/ disk' = Archived(disk)
      /\ \/ open' = TRUE /\ mem' = Recoverable(disk)
         \/ UNCHANGED <<open, mem>>
  BY DEF Initialize, OpenWith
<1>2. MaxPuts \in Nat /\ Sound(disk, MaxPuts) /\ "bak" \in Names
  BY SaverAssumption DEF SaverIInv, OnDisk, Names
<1>3. Recoverable(disk') = Recoverable(disk) /\ disk'.file["bak"].val = disk.file["bak"].val
  <2>1. CASE disk' = disk
    BY <2>1
  <2>2. CASE disk' = Archived(disk)
    BY <1>2, <2>2, ArchivedSound
  <2> QED BY <1>1, <2>1, <2>2
<1>4. CASE open' = TRUE /\ mem' = Recoverable(disk)
  BY <1>1, <1>3, <1>4 DEF RegisterStep, Register!Next, Register!Start
<1>5. CASE UNCHANGED <<open, mem>>
  BY <1>1, <1>3, <1>5 DEF RegisterStep, Register!vars
<1> QED BY <1>1, <1>4, <1>5

\* Opening after a repair starts the register from what is durable.
LEMMA RecoveredIsStart ==
  ASSUME SaverIInv, Recovered
  PROVE  RegisterStep
<1>1. /\ io["open"].step = "done" /\ open' = TRUE /\ mem' = io["open"].val
      /\ UNCHANGED <<disk, issued, deleting, gone, acked>> /\ "open" \in Writers
  BY DEF Recovered, OpenWith, Writers
<1>2. ~open /\ opening = "recovering"
  BY <1>1 DEF SaverIInv, Turns
<1>3. ~gone /\ mem' = Recoverable(disk)
  BY <1>1, <1>2 DEF SaverIInv, Deletion, OnDisk
<1> QED BY <1>1, <1>2, <1>3 DEF RegisterStep, Register!Next, Register!Start

\* An unlink of the deletion gives up or deletes what is durable, or is a stutter of the register.
LEMMA UnlinkIsAbandonOrDelete ==
  ASSUME SaverIInv, SaverIInv', Unlink
  PROVE  RegisterStep
<1> DEFINE n == DeleteOrder[deleting + 1]
<1>1. /\ ~open /\ disk' = Unlinked(disk, n) /\ gone' = (gone \/ n = "live")
      /\ deleting' = deleting + 1 /\ acked' = 0 /\ UNCHANGED <<open, mem, issued>>
      /\ deleting < Len(DeleteOrder)
  BY DEF Unlink, memory
<1>2. deleting' > 0 /\ n \in Names
  <2>1. Len(DeleteOrder) = 5
    BY DEF DeleteOrder
  <2>2. deleting \in 0 .. 4
    BY <1>1, <2>1 DEF SaverIInv, Deletion
  <2> QED BY <1>1, <2>2 DEF DeleteOrder, Names
<1>3. Backed' = 0
  BY <1>2 DEF Backed
<1>4. MaxPuts \in Nat /\ Sound(disk, MaxPuts) /\ Sound(disk', MaxPuts)
  BY SaverAssumption DEF SaverIInv, OnDisk
<1>5. Under(disk', disk)
  <2>1. disk'.file[n] = Absent /\ \A m \in Names \ {n} : disk'.file[m] = disk.file[m]
    <3> HIDE DEF n
    <3> QED BY <1>1, <1>2, <1>4, UnlinkedSound
  <2> SUFFICES ASSUME NEW m \in Candidates PROVE disk'.file[m].val <= disk.file[m].val
    BY DEF Under
  <2>2. m \in Names /\ disk.file[m].val \in 0 .. MaxPuts
    BY <1>4, Contents DEF Sound, Candidates
  <2>3. CASE m = n
    <3>1. disk'.file[m].val = 0
      BY <2>1, <2>3 DEF Absent
    <3> QED BY <1>4, <2>2, <3>1
  <2>4. CASE m # n
    <3>1. disk'.file[m] = disk.file[m]
      BY <2>1, <2>2, <2>4
    <3> QED BY <1>4, <2>2, <3>1
  <2> QED BY <2>3, <2>4
<1> DEFINE r == Recoverable(disk)
           q == Recoverable(disk')
<1>6. q <= r /\ r \in 0 .. MaxPuts /\ q \in 0 .. MaxPuts
  BY <1>4, <1>5, FoundMonotone, LargestIsFound
<1>7. q \in 0 .. r
  <2> HIDE DEF q, r
  <2> QED BY <1>4, <1>6
<1>8. CASE gone' = gone
  BY <1>1, <1>3, <1>7, <1>8 DEF RegisterStep, Register!Next, Register!Abandon, Backed
<1>9. CASE gone' # gone
  <2>1. gone' = TRUE
    BY <1>1, <1>9 DEF SaverIInv, Flags
  <2>2. q = 0
    <3>1. \A m \in Candidates : disk'.file[m] = Absent
      BY <2>1 DEF SaverIInv, Deletion, Candidates
    <3>2. Valid(disk') = {}
      BY <3>1 DEF Valid, Absent
    <3> QED BY <3>2 DEF Recoverable, Choice
  <2> QED BY <1>1, <1>3, <2>1, <2>2 DEF RegisterStep, Register!Next, Register!Delete, Backed
<1> QED BY <1>8, <1>9

\* A crash stops the register and changes nothing that is durable.
LEMMA CrashIsStop ==
  ASSUME SaverIInv, Crash
  PROVE  RegisterStep
<1>1. open' = FALSE /\ deleting' = 0 /\ UNCHANGED <<disk, mem, issued, gone, acked>>
  BY DEF Crash
<1>2. CASE open
  <2>1. deleting = 0
    BY <1>2 DEF SaverIInv, Deletion
  <2>2. Backed' = Backed
    BY <1>1, <2>1 DEF Backed
  <2> QED BY <1>1, <1>2, <2>2 DEF RegisterStep, Register!Next, Register!Stop, Backed
<1>3. CASE ~open /\ deleting = 0
  BY <1>1, <1>3 DEF RegisterStep, Register!vars, SaverIInv, Flags
<1>4. CASE ~open /\ deleting > 0 /\ ~gone
  <2>1. Backed = 0 /\ Backed' = disk.file["bak"].val
    BY <1>1, <1>4 DEF Backed
  <2>2. disk.file["bak"].val \in 0 .. Recoverable(disk)
    BY BackedBelow, Finds
  <2>3. Recoverable(disk) \in acked .. issued
    BY Finds, SaverAssumption DEF SaverIInv, Vouched, Shape
  <2>4. UNCHANGED open
    BY <1>1, <1>4 DEF SaverIInv, Flags
  <2> QED BY <1>1, <1>4, <2>1, <2>2, <2>3, <2>4 DEF RegisterStep, Register!Next, Register!Persist, Backed
<1>5. CASE ~open /\ deleting > 0 /\ gone
  <2>1. disk.file["bak"].val = 0
    BY <1>5 DEF SaverIInv, Deletion, Names, Absent
  <2>2. Backed = 0 /\ Backed' = 0
    BY <1>1, <1>5, <2>1 DEF Backed
  <2>3. UNCHANGED open
    BY <1>1, <1>5 DEF SaverIInv, Flags
  <2> QED BY <1>1, <2>2, <2>3 DEF RegisterStep, Register!vars, Backed
<1>6. deleting = 0 \/ deleting > 0
  BY DEF SaverIInv, Deletion
<1> QED BY <1>2, <1>3, <1>4, <1>5, <1>6

\* Damage to the live file loses no more than the register allows: the backup is there.
LEMMA DamageIsLoss ==
  ASSUME SaverIInv, SaverIInv', Damage
  PROVE  RegisterStep
<1>1. /\ ~open /\ ~retired /\ disk.file["live"].is = "whole"
      /\ disk' = [disk EXCEPT !.file["live"] = Torn]
      /\ acked' = IF acked <= Recoverable(disk') THEN acked ELSE Recoverable(disk')
      /\ UNCHANGED <<open, mem, issued, deleting, gone>>
  BY DEF Damage, memory, life
<1>2. deleting = 0 /\ ~gone
  <2>1. disk.file["live"] # Absent /\ "live" \in Names
    BY <1>1 DEF Absent, Names
  <2> QED BY <1>1, <2>1 DEF SaverIInv, Deletion
<1>3. MaxPuts \in Nat /\ issued \in Nat /\ Sound(disk, MaxPuts) /\ IsWhole(disk, "live")
      /\ Sound(disk', MaxPuts) /\ Below(disk', issued) /\ "bak" \in Names /\ "bak" \in Candidates
  BY <1>1, SaverAssumption DEF SaverIInv, Shape, OnDisk, IsWhole, Names, Candidates
<1>4. disk'.file["bak"] = disk.file["bak"]
  BY <1>1, <1>3, DamagedSound
<1> DEFINE q == Recoverable(disk')
           b == disk'.file["bak"].val
<1>5. q \in 0 .. MaxPuts /\ Below(disk', q)
  BY <1>3, LargestIsFound
<1>6. q <= issued
  BY <1>3, FoundBelow
<1>7. b \in 0 .. MaxPuts /\ b <= q
  BY <1>3, <1>5, Contents DEF Sound, Below
<1>8. acked' \in Nat /\ acked' <= q
  BY <1>3 DEF SaverIInv, Vouched
<1>9. q \in b .. issued /\ acked' \in 0 .. q
  <2> HIDE DEF q, b
  <2> QED BY <1>3, <1>5, <1>6, <1>7, <1>8
<1> QED BY <1>1, <1>2, <1>4, <1>9 DEF RegisterStep, Register!Next, Register!Lose

\* Timers, settled and failed writes and new instances are stutters of the register.
LEMMA QuietSteps ==
  ASSUME SaverIInv,
         \/ TimerFires \/ SaveSettles \/ SaveFails \/ FlushReturns \/ RecoveryFails
         \/ NewInstance \/ Retire \/ (\E w \in Writers : WriteFails(w)) \/ UNCHANGED vars
  PROVE  RegisterStep
<1>1. UNCHANGED <<disk, open, mem, issued, acked, deleting, gone>>
  BY DEF TimerFires, SaveSettles, SaveFails, FlushReturns, RecoveryFails, NewInstance, Retire,
         WriteFails, vars, file, memory, life
<1> QED BY <1>1, RegisterSame DEF RegisterStep

\* Every step of flush, flushStrict and close is an acknowledgement or a stutter of the register.
LEMMA DrainSteps ==
  ASSUME SaverIInv, SaverIInv',
         \/ \E d \in Drains : DrainResumes(d) \/ DrainWrote(d) \/ DrainFails(d)
         \/ Flush \/ FlushStrict \/ StrictGoesOn \/ Close \/ CloseGoesOn
  PROVE  RegisterStep
<1>1. timer \in BOOLEAN /\ "flush" \in Drains /\ "close" \in Drains
  BY DEF SaverIInv, Flags, Drains
<1>2. ASSUME NEW d \in Drains, DrainResumes(d) \/ DrainWrote(d) \/ DrainFails(d)
      PROVE  RegisterStep
  <2>1. open
    BY <1>2 DEF DrainResumes, DrainWrote, DrainFails, SaverIInv, Turns
  <2>2. \/ \E t \in BOOLEAN : DrainLoop(d, t)
        \/ \E failed, t, dty \in BOOLEAN : DrainEnds(d, failed, t, dty)
    <3>1. DrainLoop(d, timer) \/ DrainEnds(d, TRUE, timer, TRUE)
      BY <1>2 DEF DrainResumes, DrainWrote, DrainFails
    <3> QED BY <1>1, <3>1
  <2>3. UNCHANGED <<disk, memory, life>>
    BY <1>2 DEF DrainResumes, DrainWrote, DrainFails
  <2> QED BY <2>1, <2>2, <2>3, DrainIsAck
<1>3. ASSUME NEW d \in Drains, DrainStarts(d), open, UNCHANGED <<disk, memory, life>>
      PROVE  RegisterStep
  BY <1>3, DrainIsAck
<1>4. ASSUME UNCHANGED <<disk, memory, life, acked>>
      PROVE  RegisterStep
  BY <1>4, RegisterSame DEF RegisterStep, memory, life
<1>5. ASSUME Flush PROVE RegisterStep
  BY <1>1, <1>3, <1>4, <1>5 DEF Flush
<1>6. ASSUME FlushStrict PROVE RegisterStep
  BY <1>1, <1>3, <1>4, <1>6 DEF FlushStrict
<1>7. ASSUME StrictGoesOn PROVE RegisterStep
  <2>1. open
    BY <1>7 DEF StrictGoesOn, SaverIInv, Turns
  <2> QED BY <1>1, <1>3, <1>7, <2>1 DEF StrictGoesOn
<1>8. ASSUME Close PROVE RegisterStep
  BY <1>1, <1>3, <1>4, <1>8 DEF Close, CloseStarts
<1>9. ASSUME CloseGoesOn PROVE RegisterStep
  <2>1. open
    BY <1>9 DEF CloseGoesOn, SaverIInv, Turns, Drains
  <2> QED BY <1>1, <1>3, <1>9, <2>1 DEF CloseGoesOn
<1> QED BY <1>2, <1>5, <1>6, <1>7, <1>8, <1>9

\* A put is accepted by the register.
LEMMA PutIsAccept ==
  ASSUME PutRow
  PROVE  RegisterStep
<1>1. open /\ issued' = issued + 1 /\ mem' = issued' /\ UNCHANGED <<disk, open, acked, deleting, gone>>
  BY DEF PutRow, file, life
<1> QED BY <1>1 DEF RegisterStep, Register!Next, Register!Accept

\* The end of close stops the register.
LEMMA CloseIsStop ==
  ASSUME CloseReturns, SaverIInv
  PROVE  RegisterStep
<1>1. open /\ open' = FALSE /\ UNCHANGED <<disk, mem, issued, acked, deleting, gone>>
  BY DEF CloseReturns, file, life, SaverIInv, Turns, Drains
<1> QED BY <1>1 DEF RegisterStep, Register!Next, Register!Stop

\* Every step of the saver is a step or a stutter of the register.
LEMMA StepIsRegisterStep ==
  ASSUME SaverIInv, SaverIInv', [Next]_vars
  PROVE  RegisterStep
<1>1. ASSUME Progress PROVE RegisterStep
  BY <1>1, WriteIsPersist, QuietSteps, DrainSteps, CloseIsStop, RecoveredIsStart DEF Progress, Drains
<1> QED BY <1>1, QuietSteps, DrainSteps, PutIsAccept, InitializeIsStart, UnlinkIsAbandonOrDelete,
           CrashIsStop, DamageIsLoss DEF Next

\* Background saves, drains, crashes, recovery and deletion together keep the
\* promise of a durable register: what flush or close vouched for survives.
THEOREM ImplementsRegister == Spec => IsRegister
<1>1. Init => Register!Init
  <2> SUFFICES ASSUME Init PROVE Register!Init
    OBVIOUS
  <2>1. \A n \in Names : disk.file[n] = Absent
    BY DEF Init, EmptyDir
  <2>2. Valid(disk) = {}
    BY <2>1 DEF Valid, Candidates, Absent
  <2>3. Recoverable(disk) = 0
    BY <2>2 DEF Recoverable, Choice
  <2>4. Backed = 0
    BY <2>1 DEF Backed, Names, Absent
  <2> QED BY <2>3, <2>4 DEF Register!Init, Init, Fresh, Backed
<1>2. SaverIInv /\ SaverIInv' /\ [Next]_vars => [Register!Next]_(Register!vars)
  BY StepIsRegisterStep DEF RegisterStep
<1> QED BY <1>1, <1>2, Inductive, PTL DEF Spec, IsRegister, Register!Spec
=============================================================================

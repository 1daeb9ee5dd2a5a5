-------------------------- MODULE TimeZones_proofs --------------------------
(***************************************************************************)
(* Proofs about the time zones: of fixed offsets, of yearly rules whose    *)
(* changes are days apart and go forward into daylight saving time, of the *)
(* machine, and of compiled files around transitions that are sound.       *)
(***************************************************************************)
EXTENDS Dateutil_proofs

\* What the clock of a zone must do for times in UTC, those of U, and times on
\* the wall clock, those of W, to stand for each other.
Faithful(z, U, W) ==
  /\ \A u \in U :
       LET local == FromUtc(z, u)
       IN  /\ local.wall \in Int /\ \E o \in Offsets(z) : local.wall = u + o
           /\ local.wall \in W =>
                /\ local.fold \in {0, 1}
                /\ local.wall - UtcOffset(z, local.wall, local.fold) = u
  /\ \A wall \in W :
       /\ \A fold \in {0, 1} : /\ UtcOffset(z, wall, fold) \in Int
                               /\ UtcOffset(z, wall, fold) \in Offsets(z)
       /\ IF Ambiguous(z, wall)
          THEN /\ UtcOffset(z, wall, 0) # UtcOffset(z, wall, 1)
               /\ \A fold \in {0, 1} :
                    FromUtc(z, wall - UtcOffset(z, wall, fold)).wall = wall
          ELSE UtcOffset(z, wall, 0) = UtcOffset(z, wall, 1)

\* The times in UTC that a time on the wall clock may stand for are among U.
Reaches(z, wall, U) == \A o \in Offsets(z) : wall - o \in U

\* The clock goes from one offset to a later one at u, and over the time wall.
Gap(z, wall, u, old, new) ==
  /\ FromUtc(z, u - 1).wall = u - 1 + old /\ FromUtc(z, u).wall = u + new
  /\ u + old <= wall /\ wall < u + new
  /\ UtcOffset(z, wall - 1440, 0) = old /\ UtcOffset(z, wall + 1440, 0) = new
  /\ Exists(z, wall + new - old)

-----------------------------------------------------------------------------
(* What follows from it, for zones of every kind.                           *)

LEMMA ShownIs ==
  ASSUME NEW z, NEW U, NEW W, Faithful(z, U, W), NEW wall \in W, wall \in Int,
         Offsets(z) \subseteq Int, Reaches(z, wall, U)
  PROVE  Shown(z, wall, Offsets(z))
           = {u \in {wall - UtcOffset(z, wall, 0), wall - UtcOffset(z, wall, 1)} :
                FromUtc(z, u).wall = wall}
<1> DEFINE O == Offsets(z)
           P == {wall - UtcOffset(z, wall, 0), wall - UtcOffset(z, wall, 1)}
<1>1. P \subseteq {wall - o : o \in O} /\ P \subseteq Int
  BY DEF Faithful
<1>2. ASSUME NEW u \in {wall - o : o \in O}, FromUtc(z, u).wall = wall
      PROVE  u \in P
  <2>1. u \in U
    BY <1>2 DEF Reaches
  <2>2. /\ FromUtc(z, u).fold \in {0, 1}
        /\ FromUtc(z, u).wall - UtcOffset(z, FromUtc(z, u).wall, FromUtc(z, u).fold) = u
    BY <1>2, <2>1 DEF Faithful
  <2> QED
    BY <1>2, <2>2
<1> QED
  BY <1>1, <1>2 DEF Shown

LEMMA ExistsIs ==
  ASSUME NEW z, NEW U, NEW W, Faithful(z, U, W), NEW wall \in W, wall \in Int,
         Offsets(z) \subseteq Int, Reaches(z, wall, U)
  PROVE  /\ Ambiguous(z, wall) <=> Cardinality(Shown(z, wall, Offsets(z))) = 2
         /\ Exists(z, wall) <=> Shown(z, wall, Offsets(z)) # {}
<1> DEFINE a == wall - UtcOffset(z, wall, 0)
           b == wall - UtcOffset(z, wall, 1)
           S == Shown(z, wall, Offsets(z))
<1>1. S = {u \in {a, b} : FromUtc(z, u).wall = wall}
  BY ShownIs
<1>2. UtcOffset(z, wall, 0) \in Int /\ UtcOffset(z, wall, 1) \in Int
  BY DEF Faithful
<1>3. Exists(z, wall) <=> FromUtc(z, a).wall = wall
  BY DEF Exists
<1>4. CASE Ambiguous(z, wall)
  <2>1. UtcOffset(z, wall, 0) # UtcOffset(z, wall, 1)
        /\ FromUtc(z, a).wall = wall /\ FromUtc(z, b).wall = wall
    BY <1>4 DEF Faithful
  <2>2. a # b
    BY <1>2, <2>1
  <2>3. S = {a, b}
    BY <1>1, <2>1
  <2> HIDE DEF a, b, S
  <2>4. Cardinality(S) = 2
    <3>1. IsFiniteSet({a}) /\ Cardinality({a}) = 1
      BY FS_Singleton
    <3>2. S = {a} \cup {b} /\ b \notin {a}
      BY <2>2, <2>3
    <3>3. Cardinality({a} \cup {b}) = Cardinality({a}) + 1
      BY <3>1, <3>2, FS_AddElement
    <3> QED
      BY <3>1, <3>2, <3>3
  <2> QED
    BY <1>3, <1>4, <2>1, <2>3, <2>4 DEF S
<1>5. CASE ~Ambiguous(z, wall)
  <2>1. a = b
    BY <1>5 DEF Faithful
  <2> HIDE DEF a, b, S
  <2>2. S = {} \/ S = {a}
    BY <1>1, <2>1
  <2>3. Cardinality(S) # 2
    <3>1. Cardinality({}) = 0 /\ Cardinality({a}) = 1
      BY FS_EmptySet, FS_Singleton
    <3> QED
      BY <2>2, <3>1
  <2> QED
    BY <1>1, <1>3, <1>5, <2>1, <2>3 DEF S
<1> QED
  BY <1>4, <1>5

-----------------------------------------------------------------------------
(* Fixed offsets.                                                           *)

LEMMA FixedFaithful ==
  ASSUME NEW z, z.kind = "fixed", z.offset \in Int
  PROVE  /\ Faithful(z, Int, Int) /\ Offsets(z) \subseteq Int
         /\ \A wall \in Int : Exists(z, wall)
<1>1. /\ \A u : FromUtc(z, u) = [wall |-> u + z.offset, fold |-> 0]
      /\ \A wall, fold : UtcOffset(z, wall, fold) = z.offset
      /\ \A wall : ~Ambiguous(z, wall)
      /\ Offsets(z) = {z.offset}
  BY DEF FromUtc, UtcOffset, Ambiguous, Offsets
<1> QED
  BY <1>1 DEF Faithful, Exists

-----------------------------------------------------------------------------
(* Standard time, and daylight saving time at the times of D in UTC.        *)

\* The clock of such a zone: D tells everything about it.
Seasonal(z, D) ==
  LET s == z.dst - z.std
      Saves(wall, fold) ==
        IF wall - z.std \notin D /\ wall - z.dst \in D THEN fold = 0
        ELSE wall - z.std \in D
  IN  /\ Offsets(z) = {z.std, z.dst}
      /\ \A u \in Int :
           /\ FromUtc(z, u).wall = (IF u \in D THEN u + z.dst ELSE u + z.std)
           /\ FromUtc(z, u).fold = (IF u \notin D /\ u - s \in D THEN 1 ELSE 0)
      /\ \A wall \in Int :
           Ambiguous(z, wall) <=> wall - z.std \notin D /\ wall - z.dst \in D
      /\ \A wall \in Int, fold \in {0, 1} :
           UtcOffset(z, wall, fold) = (IF Saves(wall, fold) THEN z.dst ELSE z.std)

LEMMA SeasonalFaithful ==
  ASSUME NEW z, z.std \in Int, z.dst \in Int, NEW D, Seasonal(z, D)
  PROVE  Faithful(z, Int, Int) /\ Offsets(z) \subseteq Int
<1> DEFINE s == z.dst - z.std
           Saves(wall, fold) ==
             IF wall - z.std \notin D /\ wall - z.dst \in D THEN fold = 0
             ELSE wall - z.std \in D
<1>1. /\ Offsets(z) = {z.std, z.dst}
      /\ \A u \in Int :
           /\ FromUtc(z, u).wall = (IF u \in D THEN u + z.dst ELSE u + z.std)
           /\ FromUtc(z, u).fold = (IF u \notin D /\ u - s \in D THEN 1 ELSE 0)
      /\ \A wall \in Int :
           Ambiguous(z, wall) <=> wall - z.std \notin D /\ wall - z.dst \in D
      /\ \A wall \in Int, fold \in {0, 1} :
           UtcOffset(z, wall, fold) = (IF Saves(wall, fold) THEN z.dst ELSE z.std)
  BY DEF Seasonal
<1>2. ASSUME NEW u \in Int
      PROVE  LET local == FromUtc(z, u)
             IN  /\ local.wall \in Int /\ \E o \in Offsets(z) : local.wall = u + o
                 /\ local.fold \in {0, 1}
                 /\ local.wall - UtcOffset(z, local.wall, local.fold) = u
  <2> DEFINE wall == FromUtc(z, u).wall
             fold == FromUtc(z, u).fold
  <2>1. /\ wall = (IF u \in D THEN u + z.dst ELSE u + z.std)
        /\ fold = (IF u \notin D /\ u - s \in D THEN 1 ELSE 0)
    BY <1>1
  <2>2. wall \in Int /\ fold \in {0, 1}
    BY <2>1
  <2> HIDE DEF wall, fold
  <2>3. Ambiguous(z, wall) <=> wall - z.std \notin D /\ wall - z.dst \in D
    BY <1>1, <2>2
  <2>4. UtcOffset(z, wall, fold) = (IF Saves(wall, fold) THEN z.dst ELSE z.std)
    BY <1>1, <2>2
  <2>5. CASE u \in D
    <3>1. wall = u + z.dst /\ wall - z.dst = u /\ fold = 0
      BY <2>1, <2>5
    <3>2. wall - UtcOffset(z, wall, fold) = u
      BY <2>4, <2>5, <3>1
    <3>3. \E o \in Offsets(z) : wall = u + o
      BY <1>1, <3>1
    <3> QED
      BY <2>2, <3>2, <3>3 DEF wall, fold
  <2>6. CASE u \notin D
    <3>1. wall = u + z.std /\ wall - z.std = u /\ wall - z.dst = u - s
      BY <2>1, <2>6
    <3>2. fold = 1 <=> u - s \in D
      BY <2>1, <2>6
    <3>3. \E o \in Offsets(z) : wall = u + o
      BY <1>1, <3>1
    <3> HIDE DEF s
    <3>4. wall - UtcOffset(z, wall, fold) = u
      BY <2>2, <2>3, <2>4, <2>6, <3>1, <3>2
    <3> QED
      BY <2>2, <3>3, <3>4 DEF wall, fold
  <2> QED
    BY <2>5, <2>6
<1>3. ASSUME NEW wall \in Int
      PROVE  /\ \A fold \in {0, 1} : /\ UtcOffset(z, wall, fold) \in Int
                                     /\ UtcOffset(z, wall, fold) \in Offsets(z)
             /\ IF Ambiguous(z, wall)
                THEN /\ UtcOffset(z, wall, 0) # UtcOffset(z, wall, 1)
                     /\ \A fold \in {0, 1} :
                          FromUtc(z, wall - UtcOffset(z, wall, fold)).wall = wall
                ELSE UtcOffset(z, wall, 0) = UtcOffset(z, wall, 1)
  <2>1. \A fold \in {0, 1} : /\ UtcOffset(z, wall, fold) \in Int
                             /\ UtcOffset(z, wall, fold) \in Offsets(z)
    BY <1>1
  <2>2. CASE Ambiguous(z, wall)
    <3>1. wall - z.std \notin D /\ wall - z.dst \in D
      BY <1>1, <2>2
    <3>2. UtcOffset(z, wall, 0) = z.dst /\ UtcOffset(z, wall, 1) = z.std
      BY <1>1, <3>1
    <3>3. /\ wall - z.dst \in Int /\ wall - z.dst + z.dst = wall
          /\ wall - z.std \in Int /\ wall - z.std + z.std = wall
      OBVIOUS
    <3>4. FromUtc(z, wall - z.dst).wall = wall /\ FromUtc(z, wall - z.std).wall = wall
      BY <1>1, <3>1, <3>3
    <3>5. z.dst # z.std
      BY <3>1
    <3> QED
      BY <2>1, <2>2, <3>2, <3>4, <3>5
  <2>3. CASE ~Ambiguous(z, wall)
    <3>1. ~(wall - z.std \notin D /\ wall - z.dst \in D)
      BY <1>1, <2>3
    <3>2. UtcOffset(z, wall, 0) = UtcOffset(z, wall, 1)
      BY <1>1, <3>1
    <3> QED
      BY <2>1, <2>3, <3>2
  <2> QED
    BY <2>2, <2>3
<1>4. Offsets(z) \subseteq Int
  BY <1>1
<1> QED
  BY <1>2, <1>3, <1>4 DEF Faithful

\* A time is left out when it is in daylight saving time by the standard time
\* but not by its own.
LEMMA SeasonalExists ==
  ASSUME NEW z, z.std \in Int, z.dst \in Int, NEW D, Seasonal(z, D),
         NEW wall \in Int, ~Exists(z, wall)
  PROVE  wall - z.std \in D /\ wall - z.dst \notin D
<1>1. UtcOffset(z, wall, 0)
        = (IF wall - z.std \in D \/ wall - z.dst \in D THEN z.dst ELSE z.std)
  BY DEF Seasonal
<1>2. \A u \in Int : FromUtc(z, u).wall = (IF u \in D THEN u + z.dst ELSE u + z.std)
  BY DEF Seasonal
<1>3. FromUtc(z, wall - UtcOffset(z, wall, 0)).wall # wall
  BY DEF Exists
<1>4. /\ wall - z.dst \in Int /\ wall - z.dst + z.dst = wall
      /\ wall - z.std \in Int /\ wall - z.std + z.std = wall
  OBVIOUS
<1>5. CASE wall - z.dst \in D
  BY <1>1, <1>2, <1>3, <1>4, <1>5
<1>6. CASE wall - z.dst \notin D /\ wall - z.std \notin D
  BY <1>1, <1>2, <1>3, <1>4, <1>6
<1> QED
  BY <1>5, <1>6

\* It is then in the gap at a time u, before which there is one season for a
\* day, and after which there is the other one.
LEMMA SeasonalGap ==
  ASSUME NEW z, z.std \in Int, z.dst \in Int, NEW D, Seasonal(z, D), NEW u \in Int,
         NEW wall \in Int, wall - z.std \in D, wall - z.dst \notin D,
         NEW s \in Int, s = (IF z.std < z.dst THEN z.dst - z.std ELSE z.std - z.dst),
         s <= 1440,
         IF z.std < z.dst
         THEN /\ u + z.std <= wall /\ wall < u + z.dst
              /\ \A t \in Int : u - 2880 <= t /\ t < u + 2880 => (t \in D <=> u <= t)
         ELSE /\ z.dst < z.std /\ u + z.dst <= wall /\ wall < u + z.std
              /\ \A t \in Int : u - 2880 <= t /\ t < u + 2880 => (t \in D <=> t < u)
  PROVE  \E old, new \in Int : Gap(z, wall, u, old, new)
<1>1. \A w \in Int : UtcOffset(z, w, 0)
        = (IF w - z.std \in D \/ w - z.dst \in D THEN z.dst ELSE z.std)
  BY DEF Seasonal
<1>2. \A t \in Int : FromUtc(z, t).wall = (IF t \in D THEN t + z.dst ELSE t + z.std)
  BY DEF Seasonal
<1>3. ASSUME NEW w \in Int, w - z.std \notin D \/ w - z.dst \in D
      PROVE  Exists(z, w)
  BY <1>3, SeasonalExists
<1>4. CASE z.std < z.dst
  <2>1. /\ u + z.std <= wall /\ wall < u + z.dst
        /\ \A t \in Int : u - 2880 <= t /\ t < u + 2880 => (t \in D <=> u <= t)
    BY <1>4
  <2>2. u - 1 \notin D /\ u \in D
    BY <2>1
  <2>3. FromUtc(z, u - 1).wall = u - 1 + z.std /\ FromUtc(z, u).wall = u + z.dst
    BY <1>2, <2>2
  <2>4. /\ wall - 1440 - z.std \notin D /\ wall - 1440 - z.dst \notin D
        /\ wall + 1440 - z.dst \in D
    BY <1>4, <2>1
  <2>5. UtcOffset(z, wall - 1440, 0) = z.std /\ UtcOffset(z, wall + 1440, 0) = z.dst
    BY <1>1, <2>4
  <2>6. Exists(z, wall + z.dst - z.std)
    <3> DEFINE w == wall + z.dst - z.std
    <3>1. w \in Int /\ w - z.dst = wall - z.std
      OBVIOUS
    <3> HIDE DEF w
    <3>2. Exists(z, w)
      BY <1>3, <3>1
    <3> QED
      BY <3>2 DEF w
  <2>7. Gap(z, wall, u, z.std, z.dst)
    BY <2>1, <2>3, <2>5, <2>6 DEF Gap
  <2> QED
    BY <2>7
<1>5. CASE ~(z.std < z.dst)
  <2>1. /\ z.dst < z.std /\ u + z.dst <= wall /\ wall < u + z.std
        /\ \A t \in Int : u - 2880 <= t /\ t < u + 2880 => (t \in D <=> t < u)
    BY <1>5
  <2>2. u - 1 \in D /\ u \notin D
    BY <2>1
  <2>3. FromUtc(z, u - 1).wall = u - 1 + z.dst /\ FromUtc(z, u).wall = u + z.std
    BY <1>2, <2>2
  <2>4. /\ wall + 1440 - z.std \notin D /\ wall + 1440 - z.dst \notin D
        /\ wall - 1440 - z.dst \in D
    BY <1>5, <2>1
  <2>5. UtcOffset(z, wall - 1440, 0) = z.dst /\ UtcOffset(z, wall + 1440, 0) = z.std
    BY <1>1, <2>4
  <2>6. Exists(z, wall + z.std - z.dst)
    <3> DEFINE w == wall + z.std - z.dst
    <3>1. w \in Int /\ w - z.std = wall - z.dst
      OBVIOUS
    <3> HIDE DEF w
    <3>2. Exists(z, w)
      BY <1>3, <3>1
    <3> QED
      BY <3>2 DEF w
  <2>7. Gap(z, wall, u, z.dst, z.std)
    BY <2>1, <2>3, <2>5, <2>6 DEF Gap
  <2> QED
    BY <2>7
<1> QED
  BY <1>4, <1>5

-----------------------------------------------------------------------------
(* The zone of the machine: D is from one moment up to another.             *)

LEMMA LocalIs ==
  ASSUME NEW z, z.kind = "local", z.std \in Int, z.dst \in Int, z.on \in Int, z.off \in Int
  PROVE  Seasonal(z, z.on .. (z.off - 1))
<1> DEFINE D == z.on .. (z.off - 1)
           s == z.dst - z.std
           Saves(wall, fold) ==
             IF wall - z.std \notin D /\ wall - z.dst \in D THEN fold = 0
             ELSE wall - z.std \in D
<1>1. Offsets(z) = {z.std, z.dst}
  BY DEF Offsets
<1>2. \A wall \in Int : LocalNaive(z, wall) <=> wall - z.std \in D
  BY DEF LocalNaive
<1>3. \A wall \in Int :
        LocalAmbiguous(z, wall) <=> wall - z.std \notin D /\ wall - z.dst \in D
  BY DEF LocalAmbiguous, LocalNaive
<1> HIDE DEF D
<1>4. ASSUME NEW wall \in Int
      PROVE  Ambiguous(z, wall) <=> wall - z.std \notin D /\ wall - z.dst \in D
  BY <1>3 DEF Ambiguous
<1>5. ASSUME NEW wall \in Int, NEW fold \in {0, 1}
      PROVE  LocalOffset(z, wall, fold) = (IF Saves(wall, fold) THEN z.dst ELSE z.std)
  BY <1>2, <1>3 DEF LocalOffset, LocalIsDst
<1>6. ASSUME NEW wall \in Int, NEW fold \in {0, 1}
      PROVE  UtcOffset(z, wall, fold) = LocalOffset(z, wall, fold)
  BY DEF UtcOffset
<1>7. ASSUME NEW u \in Int
      PROVE  /\ FromUtc(z, u).wall = (IF u \in D THEN u + z.dst ELSE u + z.std)
             /\ FromUtc(z, u).fold = (IF u \notin D /\ u - s \in D THEN 1 ELSE 0)
  <2> DEFINE std == LocalOffset(z, u, 0) - LocalSaved(z, u, 0)
             wall == u + std + LocalSaved(z, u + std, 1)
  <2>1. std = z.std
    <3>1. LocalOffset(z, u, 0) \in Int
      BY <1>5
    <3> QED
      BY <3>1 DEF LocalSaved
  <2>2. LocalOffset(z, u + z.std, 1) = (IF u \in D THEN z.dst ELSE z.std)
    <3>1. u + z.std \in Int /\ u + z.std - z.std = u
      OBVIOUS
    <3> QED
      BY <1>5, <3>1
  <2>3. wall = (IF u \in D THEN u + z.dst ELSE u + z.std)
    BY <2>1, <2>2 DEF LocalSaved
  <2>4. FromUtc(z, u) = [wall |-> wall,
                         fold |-> IF LocalAmbiguous(z, wall) /\ wall - u = std THEN 1 ELSE 0]
    BY DEF FromUtc, LocalFromUtc
  <2> HIDE DEF std, wall
  <2>5. FromUtc(z, u).wall = wall
        /\ FromUtc(z, u).fold = (IF LocalAmbiguous(z, wall) /\ wall - u = z.std THEN 1 ELSE 0)
    BY <2>1, <2>4
  <2>6. LocalAmbiguous(z, wall) /\ wall - u = z.std <=> u \notin D /\ u - s \in D
    <3>1. wall \in Int
      BY <2>3
    <3>2. LocalAmbiguous(z, wall) <=> wall - z.std \notin D /\ wall - z.dst \in D
      BY <1>3, <3>1
    <3>3. CASE u \in D
      <4>1. wall - z.dst = u /\ (wall - u = z.std => wall - z.std = u)
        BY <2>3, <3>1, <3>3
      <4> QED
        BY <3>2, <3>3, <4>1
    <3>4. CASE u \notin D
      <4>1. wall - u = z.std /\ wall - z.std = u /\ wall - z.dst = u - s
        BY <2>3, <3>1, <3>4
      <4> QED
        BY <3>2, <3>4, <4>1
    <3> QED
      BY <3>3, <3>4
  <2> QED
    BY <2>3, <2>5, <2>6
<1>8. Seasonal(z, D)
  BY <1>1, <1>4, <1>5, <1>6, <1>7 DEF Seasonal
<1> QED
  BY <1>8 DEF D

\* The clock goes forward at the first moment, or at the second one.
LEMMA LocalGap ==
  ASSUME NEW z, z.kind = "local", RegularLocal(z), NEW wall \in Int, ~Exists(z, wall)
  PROVE  \E u \in {z.on, z.off}, old, new \in Int : Gap(z, wall, u, old, new)
<1> DEFINE D == z.on .. (z.off - 1)
           s == IF z.std < z.dst THEN z.dst - z.std ELSE z.std - z.dst
           u == IF z.std < z.dst THEN z.on ELSE z.off
<1>1. /\ z.std \in Int /\ z.dst \in Int /\ z.on \in Int /\ z.off \in Int
      /\ z.on + 2880 <= z.off /\ s \in Int /\ s <= 1440
  BY DEF RegularLocal, Abs
<1>2. Seasonal(z, D)
  BY <1>1, LocalIs
<1>3. wall - z.std \in D /\ wall - z.dst \notin D
  <2> HIDE DEF D
  <2> QED
    BY <1>1, <1>2, SeasonalExists
<1>4. u \in Int /\ u \in {z.on, z.off}
  BY <1>1
<1>5. IF z.std < z.dst
      THEN /\ u + z.std <= wall /\ wall < u + z.dst
           /\ \A t \in Int : u - 2880 <= t /\ t < u + 2880 => (t \in D <=> u <= t)
      ELSE /\ z.dst < z.std /\ u + z.dst <= wall /\ wall < u + z.std
           /\ \A t \in Int : u - 2880 <= t /\ t < u + 2880 => (t \in D <=> t < u)
  BY <1>1, <1>3, SMT
<1> HIDE DEF D, u
<1>6. \E old, new \in Int : Gap(z, wall, u, old, new)
  BY <1>1, <1>2, <1>3, <1>4, <1>5, SeasonalGap
<1> QED
  BY <1>4, <1>6

-----------------------------------------------------------------------------
(* Compiled files.                                                          *)

\* The transitions that are not after a time are the first ones.
Counts(n, list, t, k) == k \in 0..n /\ \A i \in 1..n : list[i] <= t <=> i <= k

LEMMA PassedIs ==
  ASSUME NEW n \in Nat, NEW list, DOMAIN list = 1..n, NEW t, NEW k, Counts(n, list, t, k)
  PROVE  Passed(list, t) = k
<1> k \in 0..n
  BY DEF Counts
<1>1. {i \in 1..n : list[i] <= t} = 1..k
  BY DEF Counts
<1>2. Cardinality(1..k) = k
  <2>1. k = 0 \/ 1 <= k
    OBVIOUS
  <2>2. k = 0 => 1..k = {}
    OBVIOUS
  <2> QED
    BY <2>1, <2>2, FS_Interval, FS_EmptySet
<1> QED
  BY <1>1, <1>2 DEF Passed

LEMMA FileParts ==
  ASSUME NEW z, RegularFile(z)
  PROVE  LET n == Len(z.transitions)
             tr == z.transitions
         IN  /\ n \in Nat /\ DOMAIN tr = 1..n /\ DOMAIN z.wall = 1..n
             /\ z.before \in Offset /\ z.std \in Offset
             /\ \A i \in 1..n : /\ tr[i].utc \in Int /\ tr[i].isdst \in BOOLEAN
                                /\ tr[i].offset \in Offset /\ Standard(tr, i) \in Offset
                                /\ z.wall[i] = tr[i].utc + Adjustment(tr, i)
                                /\ \A j \in 1..(i - 1) : tr[j].utc < tr[i].utc
<1> DEFINE T == [utc : Int, isdst : BOOLEAN, offset : Offset]
           tr == z.transitions
           n == Len(tr)
<1>1. /\ tr \in Seq(T) /\ z.before \in Offset /\ z.std \in Offset
      /\ z.wall = WallTransitions(tr)
      /\ \A i \in DOMAIN tr : /\ Standard(tr, i) \in Offset
                              /\ \A j \in 1..(i - 1) : tr[j].utc < tr[i].utc
  BY Zenon DEF RegularFile
<1> HIDE DEF T, tr
<1>2. n \in Nat /\ DOMAIN tr = 1..n /\ \A i \in 1..n : tr[i] \in T
  BY <1>1
<1>3. \A i \in 1..n : tr[i].utc \in Int /\ tr[i].isdst \in BOOLEAN /\ tr[i].offset \in Offset
  BY <1>2 DEF T
<1>4. DOMAIN z.wall = 1..n /\ \A i \in 1..n : z.wall[i] = tr[i].utc + Adjustment(tr, i)
  BY <1>1, <1>2 DEF WallTransitions
<1> QED
  BY <1>1, <1>2, <1>3, <1>4 DEF tr

\* The offset after so many transitions is one of the file's.
LEMMA FileOffsetIs ==
  ASSUME NEW z, z.kind = "file", RegularFile(z)
  PROVE  /\ Offsets(z) \subseteq Offset
         /\ \A p \in 0..Len(z.transitions) : FileOffset(z, p) \in Offsets(z)
<1> DEFINE n == Len(z.transitions)
           tr == z.transitions
<1>1. /\ n \in Nat /\ DOMAIN tr = 1..n /\ \A i \in 1..n : tr[i].offset \in Offset
      /\ z.before \in Offset /\ z.std \in Offset
  BY FileParts
<1>2. Offsets(z) = {z.before, z.std} \cup {tr[i].offset : i \in 1..n}
  BY <1>1 DEF Offsets
<1>3. ASSUME NEW p \in 0..n
      PROVE  FileOffset(z, p) \in Offsets(z)
  <2>1. CASE p >= n
    BY <1>1, <1>2, <2>1 DEF FileOffset
  <2>2. CASE ~(p >= n) /\ p = 0
    BY <1>1, <1>2, <2>2 DEF FileOffset
  <2>3. CASE ~(p >= n) /\ p # 0
    <3>1. FileOffset(z, p) = tr[p].offset /\ p \in 1..n
      BY <1>1, <2>3 DEF FileOffset
    <3> QED
      BY <1>2, <3>1
  <2> QED
    BY <2>1, <2>2, <2>3
<1>4. Offsets(z) \subseteq Offset
  <2> HIDE DEF n, tr
  <2> QED
    BY <1>1, <1>2
<1> QED
  BY <1>3, <1>4

\* What is saved stays the same within daylight saving time, and is the change
\* of the offset where it begins with one.
LEMMA SavedIs ==
  ASSUME NEW tr, NEW i \in Nat, i > 1
  PROVE  /\ tr[i].isdst /\ tr[i - 1].isdst => Saved(tr, i) = Saved(tr, i - 1)
         /\ tr[i].isdst /\ ~tr[i - 1].isdst /\ tr[i].offset # tr[i - 1].offset
              => Saved(tr, i) = tr[i].offset - tr[i - 1].offset
<1> DEFINE Began(j) == tr[j].isdst /\ ~tr[j - 1].isdst /\ tr[j].offset # tr[j - 1].offset
           B(k) == {j \in 2..k : Began(j)}
           Last(k) == CHOOSE j \in B(k) : \A m \in B(k) : m <= j
<1>1. \A k : Saved(tr, k) = IF tr[k].isdst /\ B(k) # {}
                            THEN tr[Last(k)].offset - tr[Last(k) - 1].offset ELSE 0
  BY DEF Saved
<1>2. ASSUME ~Began(i)
      PROVE  B(i) = B(i - 1)
  <2>1. ASSUME NEW j
        PROVE  j \in B(i) <=> j \in B(i - 1)
    <3>1. j \in 2..i <=> j = i \/ j \in 2..(i - 1)
      OBVIOUS
    <3>2. j \in B(i) <=> j \in 2..i /\ Began(j)
      OBVIOUS
    <3>3. j \in B(i - 1) <=> j \in 2..(i - 1) /\ Began(j)
      OBVIOUS
    <3> HIDE DEF Began, B
    <3> QED
      BY <1>2, <3>1, <3>2, <3>3
  <2> HIDE DEF B
  <2> QED
    BY <2>1
<1>3. ASSUME tr[i].isdst, tr[i - 1].isdst
      PROVE  Saved(tr, i) = Saved(tr, i - 1)
  <2>1. B(i) = B(i - 1)
    BY <1>2, <1>3
  <2>2. Last(i) = Last(i - 1)
    BY <2>1
  <2> HIDE DEF B, Last
  <2> QED
    BY <1>1, <1>3, <2>1, <2>2
<1>4. ASSUME Began(i)
      PROVE  Saved(tr, i) = tr[i].offset - tr[i - 1].offset
  <2>1. i \in B(i) /\ \A m \in B(i) : m <= i /\ m \in Nat
    BY <1>4
  <2>2. tr[i].isdst
    BY <1>4
  <2> HIDE DEF Began
  <2>3. Last(i) = i
    <3> DEFINE l == Last(i)
    <3>1. \E j \in B(i) : \A m \in B(i) : m <= j
      BY <2>1
    <3>2. l \in B(i) /\ \A m \in B(i) : m <= l
      <4> HIDE DEF B
      <4> QED
        BY <3>1
    <3> HIDE DEF l, B
    <3>3. l <= i /\ i <= l /\ l \in Nat
      BY <2>1, <3>2
    <3>4. l = i
      BY <3>3
    <3> QED
      BY <3>4 DEF l
  <2> HIDE DEF B, Last
  <2> QED
    BY <1>1, <2>1, <2>2, <2>3
<1> QED
  BY <1>3, <1>4

\* On the wall clock a sound transition is where the clock changes: at the new
\* time when it goes back, else between the old time and the new one.
LEMMA SoundIs ==
  ASSUME NEW z, RegularFile(z), NEW i \in DOMAIN z.transitions, Sound(z, i)
  PROVE  LET utc == z.transitions[i].utc
             old == FileOffset(z, i - 1)
             new == FileOffset(z, i)
         IN  /\ old < new => utc + old <= z.wall[i] /\ z.wall[i] <= utc + new
             /\ new < old => i > 1 /\ z.wall[i] = utc + new
<1> DEFINE tr == z.transitions
           n == Len(tr)
           utc == tr[i].utc
           old == FileOffset(z, i - 1)
           new == FileOffset(z, i)
           saved == IF i = 1 THEN 0 ELSE Saved(tr, i - 1)
           summer == i > 1 /\ tr[i - 1].isdst
           wall == z.wall[i]
<1>1. /\ n \in Nat /\ i \in 1..n
      /\ \A j \in 1..n : tr[j].isdst \in BOOLEAN /\ tr[j].offset \in Int
      /\ utc \in Int /\ wall = utc + Adjustment(tr, i)
      /\ z.before \in Int
  <2>1. Offset \subseteq Int
    BY DEF Offset
  <2>2. /\ n \in Nat /\ i \in 1..n
        /\ \A j \in 1..n : tr[j].isdst \in BOOLEAN /\ tr[j].offset \in Offset
        /\ utc \in Int /\ wall = utc + Adjustment(tr, i)
        /\ z.before \in Offset
    BY FileParts
  <2> QED
    BY <2>1, <2>2
<1>2. /\ new = tr[i].offset
      /\ old < new => /\ summer /\ tr[i].isdst => saved \in 0..(new - old)
                      /\ summer /\ ~tr[i].isdst => saved \in (old - new)..0
      /\ new < old => /\ i > 1 /\ (tr[i].isdst => summer)
                      /\ saved = IF summer /\ ~tr[i].isdst THEN old - new ELSE 0
  BY DEF Sound
<1>3. i > 1 => old = tr[i - 1].offset /\ i - 1 \in 1..n
  BY <1>1 DEF FileOffset
<1>4. i = 1 => old = z.before
  BY <1>1 DEF FileOffset
<1>5. old \in Int /\ new \in Int
  BY <1>1, <1>2, <1>3, <1>4
<1>6. \A j : ~tr[j].isdst => Saved(tr, j) = 0
  BY DEF Saved
<1>7. \A j : Standard(tr, j) = tr[j].offset - Saved(tr, j)
  BY DEF Standard
<1>8. Adjustment(tr, i) = IF /\ i > 1 /\ Standard(tr, i) # Standard(tr, i - 1)
                             /\ tr[i].isdst # tr[i - 1].isdst
                          THEN Standard(tr, i - 1) ELSE Standard(tr, i)
  BY DEF Adjustment
<1> HIDE DEF tr, old, new, utc, wall, n
<1>9. CASE i = 1
  <2>1. Saved(tr, i) = 0
    <3>1. 2..i = {}
      BY <1>9
    <3> QED
      BY <3>1 DEF Saved
  <2>2. Adjustment(tr, i) = new
    BY <1>1, <1>2, <1>7, <1>8, <1>9, <2>1
  <2> QED
    BY <1>1, <1>2, <1>5, <1>9, <2>2 DEF utc, old, new, wall, tr
<1>10. CASE i > 1 /\ ~tr[i].isdst /\ ~tr[i - 1].isdst
  <2>1. Adjustment(tr, i) = new
    BY <1>1, <1>2, <1>3, <1>6, <1>7, <1>8, <1>10
  <2> QED
    BY <1>1, <1>2, <1>5, <1>10, <2>1 DEF utc, old, new, wall, tr
<1>11. CASE i > 1 /\ ~tr[i].isdst /\ tr[i - 1].isdst
  <2>1. Adjustment(tr, i) = old - saved
    <3>1. tr[i].isdst # tr[i - 1].isdst
      BY <1>11
    <3>2. Adjustment(tr, i) = Standard(tr, i - 1)
      BY <1>8, <1>11, <3>1
    <3>3. Standard(tr, i - 1) = tr[i - 1].offset - Saved(tr, i - 1)
      BY <1>7
    <3> QED
      BY <1>3, <1>11, <3>2, <3>3
  <2>2. saved \in Int => /\ old < new => utc + old <= wall /\ wall <= utc + new
                         /\ new < old => wall = utc + new
    <3> HIDE DEF saved
    <3> QED
      BY <1>1, <1>2, <1>5, <1>11, <2>1
  <2>3. old < new \/ new < old => saved \in Int
    <3> HIDE DEF saved
    <3> QED
      BY <1>2, <1>5, <1>11
  <2> QED
    BY <1>11, <2>2, <2>3 DEF utc, old, new, wall, tr
<1>12. CASE i > 1 /\ tr[i].isdst /\ tr[i - 1].isdst
  <2>1. Saved(tr, i) = saved
    BY <1>1, <1>12, SavedIs
  <2>2. Adjustment(tr, i) = new - saved
    BY <1>1, <1>2, <1>3, <1>7, <1>8, <1>12, <2>1
  <2>3. saved \in Int => /\ old < new => utc + old <= wall /\ wall <= utc + new
                         /\ new < old => wall = utc + new
    <3> HIDE DEF saved
    <3> QED
      BY <1>1, <1>2, <1>5, <1>12, <2>2
  <2>4. old < new \/ new < old => saved \in Int
    <3> HIDE DEF saved
    <3> QED
      BY <1>2, <1>5, <1>12
  <2> QED
    BY <1>12, <2>3, <2>4 DEF utc, old, new, wall, tr
<1>13. CASE i > 1 /\ tr[i].isdst /\ ~tr[i - 1].isdst
  <2>1. CASE old < new
    <3>1. Saved(tr, i) = new - old /\ Saved(tr, i - 1) = 0
      <4>1. tr[i].offset # tr[i - 1].offset
        BY <1>2, <1>3, <1>5, <1>13, <2>1
      <4> QED
        BY <1>1, <1>2, <1>3, <1>6, <1>13, <4>1, SavedIs
    <3>2. Adjustment(tr, i) = old
      <4>1. Standard(tr, i) = tr[i].offset - Saved(tr, i)
            /\ Standard(tr, i - 1) = tr[i - 1].offset - Saved(tr, i - 1)
        BY <1>7
      <4>2. Standard(tr, i) = old /\ Standard(tr, i - 1) = old
        BY <1>2, <1>3, <1>5, <1>13, <3>1, <4>1
      <4> QED
        BY <1>8, <4>2
    <3> QED
      BY <1>1, <1>5, <2>1, <3>2 DEF utc, old, new, wall, tr
  <2>2. ~(new < old)
    BY <1>2, <1>13
  <2> QED
    BY <2>1, <2>2 DEF utc, old, new, wall, tr
<1> QED
  BY <1>1, <1>9, <1>10, <1>11, <1>12, <1>13

\* Around a time in UTC the clock of a file goes from one offset to another one,
\* at U, and at W on the wall clock; or it keeps the one it has.
Turns(z, t, U, W, old, new) ==
  /\ U \in Int /\ W \in Int /\ old \in Offsets(z) /\ new \in Offsets(z)
  /\ old - new <= 1440 /\ new - old <= 1440
  /\ old < new => U + old <= W /\ W <= U + new
  /\ new < old => W = U + new
  /\ old # new => \E i \in DOMAIN z.transitions : U = z.transitions[i].utc
  /\ \A u \in (t - 4320)..(t + 4320) :
       LET local == FromUtc(z, u)
       IN  /\ local.wall = u + (IF U <= u THEN new ELSE old)
           /\ local.wall \in (t - 2880)..(t + 2880) =>
                /\ local.fold \in {0, 1}
                /\ new < old =>
                     (local.fold = 1 <=> U <= u /\ local.wall < W + old - new)
  /\ \A x \in (t - 2880)..(t + 2880) :
       /\ Ambiguous(z, x) <=> W <= x /\ x < W + old - new
       /\ \A fold \in {0, 1} :
            UtcOffset(z, x, fold)
              = (IF W <= x /\ ~(fold = 0 /\ x < W + old - new) THEN new ELSE old)

\* A transition is on the wall clock less than a day from where it is in UTC.
LEMMA AdjustmentIs ==
  ASSUME NEW z, RegularFile(z), NEW i \in DOMAIN z.transitions
  PROVE  Adjustment(z.transitions, i) \in Offset /\ z.wall[i] \in Int
<1> DEFINE tr == z.transitions
           n == Len(tr)
           by == Adjustment(tr, i)
<1>1. /\ i \in 1..n /\ n \in Nat
      /\ tr[i].utc \in Int /\ z.wall[i] = tr[i].utc + by
      /\ \A j \in 1..n : Standard(tr, j) \in Offset
  BY FileParts
<1>2. by \in Offset
  <2>1. i > 1 => i - 1 \in 1..n
    BY <1>1
  <2> HIDE DEF tr, n
  <2> QED
    BY <1>1, <2>1 DEF Adjustment
<1> HIDE DEF by
<1>3. by \in Int
  BY <1>2 DEF Offset
<1> QED
  BY <1>1, <1>2, <1>3 DEF by

\* Transitions that are six days away do not change the clock around a time.
Far(z, t, i) ==
  LET utc == z.transitions[i].utc
  IN  /\ utc <= t - 8640 =>
           /\ utc <= t - 4320 /\ z.wall[i] <= t - 2880
           /\ \A x \in Int : t - 2880 <= x => ~FileAmbiguous(z, x, i)
      /\ t + 8640 <= utc => t + 4320 < utc /\ t + 2880 < z.wall[i]

LEMMA FarFromIt ==
  ASSUME NEW z, z.kind = "file", RegularFile(z), NEW t \in Int,
         NEW i \in DOMAIN z.transitions
  PROVE  Far(z, t, i)
<1> DEFINE tr == z.transitions
           utc == tr[i].utc
           n == Len(tr)
           a == FileOffset(z, i - 1)
           b == FileOffset(z, i)
           wall == z.wall[i]
           by == Adjustment(tr, i)
<1>1. /\ n \in Nat /\ i \in 1..n /\ utc \in Int /\ wall = utc + by
  BY FileParts
<1>2. by \in Offset
  BY AdjustmentIs
<1>3. a \in Offset /\ b \in Offset
  <2>1. i - 1 \in 0..n /\ i \in 0..n
    BY <1>1
  <2> HIDE DEF n
  <2> QED
    BY <2>1, FileOffsetIs DEF n
<1>4. \A w : FileAmbiguous(z, w, i) <=> i > 1 /\ w < wall + a - b
  BY DEF FileAmbiguous
<1> HIDE DEF tr, utc, n, a, b, wall, by
<1>5. /\ by \in Int /\ -1439 <= by /\ by <= 1439
      /\ a \in Int /\ -1439 <= a /\ a <= 1439
      /\ b \in Int /\ -1439 <= b /\ b <= 1439
  BY <1>2, <1>3 DEF Offset
<1>6. utc <= t - 8640 => utc <= t - 4320 /\ wall <= t - 2880 /\ wall + a - b <= t - 2880
  BY <1>1, <1>5
<1>7. t + 8640 <= utc => t + 4320 < utc /\ t + 2880 < wall
  BY <1>1, <1>5
<1>8. ASSUME utc <= t - 8640, NEW x \in Int, t - 2880 <= x
      PROVE  ~FileAmbiguous(z, x, i)
  <2>1. wall + a - b \in Int
    BY <1>1, <1>5
  <2> QED
    BY <1>4, <1>6, <1>8, <2>1
<1> QED
  BY <1>6, <1>7, <1>8 DEF utc, tr, wall, Far

\* The first p transitions are six days before a time, those from q on as much
\* after it.
Alone(z, t, p, q) ==
  \A i \in DOMAIN z.transitions :
    /\ i <= p => z.transitions[i].utc <= t - 8640
    /\ q < i => t + 8640 <= z.transitions[i].utc

\* A clock with at most one transition around a time, which is sound.
LEMMA AroundIs ==
  ASSUME NEW z, z.kind = "file", RegularFile(z), NEW t \in Int,
         NEW p \in 0..Len(z.transitions), NEW q \in 0..Len(z.transitions),
         q = p \/ (q = p + 1 /\ Sound(z, q)), Alone(z, t, p, q)
  PROVE  \E U, W : Turns(z, t, U, W, FileOffset(z, p), FileOffset(z, q))
<1> DEFINE tr == z.transitions
           n == Len(tr)
           utcs == [i \in DOMAIN tr |-> tr[i].utc]
           U == IF q = p THEN t + 10000 ELSE tr[q].utc
           W == IF q = p THEN t + 10000 ELSE z.wall[q]
           old == FileOffset(z, p)
           new == FileOffset(z, q)
<1>1. /\ n \in Nat /\ DOMAIN tr = 1..n /\ DOMAIN z.wall = 1..n
      /\ \A i \in 1..n : tr[i].utc \in Int /\ z.wall[i] = tr[i].utc + Adjustment(tr, i)
  BY FileParts
<1>2. q # p => q = p + 1 /\ q \in 1..n /\ Sound(z, q)
  BY <1>1
<1>3. /\ old \in Offsets(z) /\ new \in Offsets(z)
      /\ old \in Int /\ -1439 <= old /\ old <= 1439
      /\ new \in Int /\ -1439 <= new /\ new <= 1439
  <2>1. old \in Offsets(z) /\ new \in Offsets(z) /\ Offsets(z) \subseteq Offset
    BY FileOffsetIs
  <2> HIDE DEF old, new
  <2>2. old \in Offset /\ new \in Offset
    BY <2>1
  <2>3. /\ old \in Int /\ -1439 <= old /\ old <= 1439
        /\ new \in Int /\ -1439 <= new /\ new <= 1439
    BY <2>2 DEF Offset
  <2> QED
    BY <2>1, <2>3
<1>4. \A i \in 1..n :
        LET utc == tr[i].utc
        IN  /\ i <= p => utc <= t - 4320 /\ z.wall[i] <= t - 2880
            /\ i <= p => \A x \in Int : t - 2880 <= x => ~FileAmbiguous(z, x, i)
            /\ q < i => t + 4320 < utc /\ t + 2880 < z.wall[i]
  <2> SUFFICES ASSUME NEW i \in 1..n
      PROVE  /\ i <= p => tr[i].utc <= t - 4320 /\ z.wall[i] <= t - 2880
             /\ i <= p => \A x \in Int : t - 2880 <= x => ~FileAmbiguous(z, x, i)
             /\ q < i => t + 4320 < tr[i].utc /\ t + 2880 < z.wall[i]
    OBVIOUS
  <2>1. i \in DOMAIN z.transitions
    BY <1>1
  <2>2. /\ i <= p => tr[i].utc <= t - 8640
        /\ q < i => t + 8640 <= tr[i].utc
    BY <2>1 DEF Alone
  <2>3. Far(z, t, i)
    BY <2>1, FarFromIt
  <2> QED
    BY <2>2, <2>3 DEF Far
<1>5. \A i \in 1..n : z.wall[i] \in Int
  BY <1>1, AdjustmentIs
<1>6. U \in Int /\ W \in Int
  BY <1>1, <1>2, <1>5
<1>7. /\ old - new <= 1440 /\ new - old <= 1440
      /\ old < new => U + old <= W /\ W <= U + new
      /\ new < old => q > 1 /\ W = U + new
      /\ old # new => \E i \in DOMAIN tr : U = tr[i].utc
  <2>1. CASE q = p
    <3> HIDE DEF U, W
    <3>1. old = new
      BY <2>1
    <3> HIDE DEF old, new
    <3> QED
      BY <1>3, <3>1
  <2>2. CASE q # p
    <3>1. q = p + 1 /\ q \in 1..n /\ Sound(z, q) /\ q - 1 = p
      BY <1>2, <2>2
    <3>2. Abs(new - old) <= 1440
      BY <3>1 DEF Sound
    <3>3. /\ old < new => tr[q].utc + old <= z.wall[q] /\ z.wall[q] <= tr[q].utc + new
          /\ new < old => q > 1 /\ z.wall[q] = tr[q].utc + new
      BY <1>1, <3>1, SoundIs
    <3>4. U = tr[q].utc /\ W = z.wall[q] /\ q \in DOMAIN tr
      BY <1>1, <2>2, <3>1
    <3> HIDE DEF U, W, old, new, tr
    <3>5. old - new <= 1440 /\ new - old <= 1440
      BY <1>3, <3>2 DEF Abs
    <3> QED
      BY <3>3, <3>4, <3>5
  <2> QED
    BY <2>1, <2>2
<1>8. \A u \in (t - 4320)..(t + 4320) : Passed(utcs, u) = IF U <= u THEN q ELSE p
  <2> TAKE u \in (t - 4320)..(t + 4320)
  <2> DEFINE k == IF U <= u THEN q ELSE p
  <2>1. k \in 0..n
    OBVIOUS
  <2>2. ASSUME NEW i \in 1..n
        PROVE  utcs[i] <= u <=> i <= k
    <3>1. /\ utcs[i] = tr[i].utc
          /\ i <= p => tr[i].utc <= t - 4320
          /\ q < i => t + 4320 < tr[i].utc
      BY <1>1, <1>4
    <3>2. q # p => U = tr[q].utc /\ q = p + 1
      BY <1>2
    <3>3. q = p => ~(U <= u)
      OBVIOUS
    <3>4. tr[i].utc \in Int
      BY <1>1
    <3> HIDE DEF U, utcs, tr, n
    <3>5. i <= p \/ q < i \/ (q # p /\ i = q)
      BY <3>2
    <3> QED
      BY <1>6, <3>1, <3>2, <3>3, <3>4, <3>5
  <2>3. DOMAIN utcs = 1..n
    BY <1>1
  <2> HIDE DEF k, utcs
  <2>4. Counts(n, utcs, u, k)
    BY <2>1, <2>2 DEF Counts
  <2>5. Passed(utcs, u) = k
    BY <1>1, <2>3, <2>4, PassedIs
  <2> QED
    BY <2>5 DEF k
<1>9. \A x \in (t - 2880)..(t + 2880) : Passed(z.wall, x) = IF W <= x THEN q ELSE p
  <2> TAKE x \in (t - 2880)..(t + 2880)
  <2> DEFINE k == IF W <= x THEN q ELSE p
  <2>1. k \in 0..n
    OBVIOUS
  <2>2. ASSUME NEW i \in 1..n
        PROVE  z.wall[i] <= x <=> i <= k
    <3>1. /\ i <= p => z.wall[i] <= t - 2880
          /\ q < i => t + 2880 < z.wall[i]
      BY <1>4
    <3>2. q # p => W = z.wall[q] /\ q = p + 1
      BY <1>2
    <3>3. q = p => ~(W <= x)
      OBVIOUS
    <3>4. z.wall[i] \in Int
      BY <1>5
    <3> HIDE DEF W, tr, n
    <3>5. i <= p \/ q < i \/ (q # p /\ i = q)
      BY <3>2
    <3> QED
      BY <1>6, <3>1, <3>2, <3>3, <3>4, <3>5
  <2> HIDE DEF k
  <2>3. Counts(n, z.wall, x, k)
    BY <2>1, <2>2 DEF Counts
  <2>4. Passed(z.wall, x) = k
    BY <1>1, <2>3, PassedIs
  <2> QED
    BY <2>4 DEF k
\* Whether the time is shown twice.
<1>10. \A x \in Int : t - 2880 <= x => ~FileAmbiguous(z, x, p)
  <2>1. CASE p = 0
    BY <2>1 DEF FileAmbiguous
  <2>2. CASE p # 0
    <3>1. p \in 1..n /\ p <= p
      BY <1>1, <2>2
    <3> HIDE DEF tr, n
    <3> QED
      BY <1>4, <3>1
  <2> QED
    BY <2>1, <2>2
<1>11. \A x \in (t - 2880)..(t + 2880) :
         W <= x => (FileAmbiguous(z, x, q) <=> x < W + old - new)
  <2>1. CASE q = p
    BY <2>1
  <2>2. CASE q # p
    <3>1. W = z.wall[q] /\ q - 1 = p
      BY <1>2, <2>2
    <3>2. \A x : FileAmbiguous(z, x, q) <=> q > 1 /\ x < W + old - new
      BY <3>1 DEF FileAmbiguous
    <3> HIDE DEF W, old, new
    <3>3. \A x \in Int : W <= x /\ x < W + old - new => new < old
      BY <1>3, <1>6
    <3> QED
      BY <1>7, <3>2, <3>3
  <2> QED
    BY <2>1, <2>2
<1> HIDE DEF U, W, old, new
<1>12. ASSUME NEW x \in (t - 2880)..(t + 2880)
       PROVE  /\ Ambiguous(z, x) <=> W <= x /\ x < W + old - new
              /\ \A fold \in {0, 1} :
                   UtcOffset(z, x, fold)
                     = (IF W <= x /\ ~(fold = 0 /\ x < W + old - new) THEN new ELSE old)
  <2> DEFINE k == Passed(z.wall, x)
  <2>1. k = IF W <= x THEN q ELSE p
    BY <1>9
  <2>2. FileAmbiguous(z, x, k) <=> W <= x /\ x < W + old - new
    BY <1>10, <1>11, <2>1
  <2>3. Ambiguous(z, x) <=> FileAmbiguous(z, x, k)
    BY DEF Ambiguous
  <2>4. \A fold : UtcOffset(z, x, fold)
          = FileOffset(z, IF fold = 0 /\ FileAmbiguous(z, x, k) THEN k - 1 ELSE k)
    BY DEF UtcOffset, Resolved
  <2>5. FileAmbiguous(z, x, k) => k - 1 = p
    <3>1. FileAmbiguous(z, x, k) => W <= x /\ new < old
      BY <1>3, <1>6, <2>2
    <3>2. new < old => q # p
      BY <1>3 DEF new, old
    <3> QED
      BY <1>2, <2>1, <3>1, <3>2
  <2> HIDE DEF k
  <2>6. \A fold \in {0, 1} :
          UtcOffset(z, x, fold)
            = (IF W <= x /\ ~(fold = 0 /\ x < W + old - new) THEN new ELSE old)
    <3> TAKE fold \in {0, 1}
    <3>1. CASE FileAmbiguous(z, x, k) /\ fold = 0
      BY <2>2, <2>4, <2>5, <3>1 DEF old
    <3>2. CASE ~(FileAmbiguous(z, x, k) /\ fold = 0)
      <4>1. UtcOffset(z, x, fold) = FileOffset(z, k)
        BY <2>4, <3>2
      <4>2. ~(fold = 0 /\ W <= x /\ x < W + old - new)
        BY <2>2, <3>2
      <4> QED
        BY <2>1, <4>1, <4>2 DEF old, new
    <3> QED
      BY <3>1, <3>2
  <2> QED
    BY <2>2, <2>3, <2>6
<1>13. ASSUME NEW u \in (t - 4320)..(t + 4320)
       PROVE  LET local == FromUtc(z, u)
              IN  /\ local.wall = u + (IF U <= u THEN new ELSE old)
                  /\ local.wall \in (t - 2880)..(t + 2880) =>
                       /\ local.fold \in {0, 1}
                       /\ new < old =>
                            (local.fold = 1 <=> U <= u /\ local.wall < W + old - new)
  <2> DEFINE k == Passed(utcs, u)
             wall == u + FileOffset(z, k)
             local == FromUtc(z, u)
  <2>1. k = IF U <= u THEN q ELSE p
    BY <1>8
  <2>2. local = [wall |-> wall, fold |-> IF FileAmbiguous(z, wall, k) THEN 1 ELSE 0]
    BY DEF FromUtc, FileFromUtc
  <2> HIDE DEF k
  <2>3. wall = u + (IF U <= u THEN new ELSE old)
    BY <2>1 DEF new, old
  <2>4. local.wall = wall /\ local.fold = IF FileAmbiguous(z, wall, k) THEN 1 ELSE 0
    BY <2>2
  <2> HIDE DEF wall, local, utcs
  <2>5. ASSUME wall \in (t - 2880)..(t + 2880), new < old
        PROVE  local.fold = 1 <=> U <= u /\ wall < W + old - new
    <3>1. CASE U <= u
      <4>1. W <= wall
        BY <1>3, <1>6, <1>7, <2>3, <2>5, <3>1
      <4> QED
        BY <1>11, <2>1, <2>4, <2>5, <3>1, <4>1
    <3>2. CASE ~(U <= u)
      <4>1. ~FileAmbiguous(z, wall, p)
        BY <1>10, <2>5
      <4> QED
        BY <2>1, <2>4, <3>2, <4>1
    <3> QED
      BY <3>1, <3>2
  <2> QED
    BY <2>3, <2>4, <2>5 DEF local
<1>14. Turns(z, t, U, W, old, new)
  <2> HIDE DEF utcs
  <2>1. \A u \in (t - 4320)..(t + 4320) :
          LET local == FromUtc(z, u)
          IN  /\ local.wall = u + (IF U <= u THEN new ELSE old)
              /\ local.wall \in (t - 2880)..(t + 2880) =>
                   /\ local.fold \in {0, 1}
                   /\ new < old =>
                        (local.fold = 1 <=> U <= u /\ local.wall < W + old - new)
    BY <1>13
  <2>2. \A x \in (t - 2880)..(t + 2880) :
          /\ Ambiguous(z, x) <=> W <= x /\ x < W + old - new
          /\ \A fold \in {0, 1} :
               UtcOffset(z, x, fold)
                 = (IF W <= x /\ ~(fold = 0 /\ x < W + old - new) THEN new ELSE old)
    BY <1>12
  <2>3. /\ U \in Int /\ W \in Int /\ old \in Offsets(z) /\ new \in Offsets(z)
        /\ old - new <= 1440 /\ new - old <= 1440
        /\ old < new => U + old <= W /\ W <= U + new
        /\ new < old => W = U + new
        /\ old # new => \E i \in DOMAIN z.transitions : U = z.transitions[i].utc
    BY <1>3, <1>6, <1>7
  <2> HIDE DEF tr, n
  <2> QED
    BY <2>1, <2>2, <2>3 DEF Turns
<1> QED
  BY <1>14 DEF old, new

\* Any time around which the transitions of a file are settled.
LEMMA SettledTurns ==
  ASSUME NEW z, z.kind = "file", RegularFile(z), NEW t \in Int, Settled(z, t)
  PROVE  \E U, W, old, new : Turns(z, t, U, W, old, new)
<1> DEFINE n == Len(z.transitions)
           tr == z.transitions
           Near6(i) == Abs(tr[i].utc - t) < 8640
<1>1. /\ n \in Nat /\ DOMAIN tr = 1..n /\ \A i \in 1..n : tr[i].utc \in Int
      /\ \A i \in 1..n : \A j \in 1..(i - 1) : tr[j].utc < tr[i].utc
  BY FileParts
<1>2. \A i, j \in 1..n : Near6(i) /\ Near6(j) => i = j /\ Sound(z, i)
  <2> DEFINE near == {i \in DOMAIN tr : Abs(tr[i].utc - t) < 8640}
  <2>1. \A i, j \in near : i = j /\ Sound(z, i)
    BY DEF Settled
  <2> QED
    BY <1>1, <2>1
<1> HIDE DEF tr, n
<1>3. \A i \in 1..n : Near6(i) <=> t - 8640 < tr[i].utc /\ tr[i].utc < t + 8640
  BY <1>1 DEF Abs
<1> HIDE DEF Near6
<1>4. CASE \E k \in 1..n : Near6(k)
  <2>1. PICK k \in 1..n : Near6(k)
    BY <1>4
  <2>2. Sound(z, k)
    BY <1>2, <2>1
  <2>3. \A i \in 1..n : /\ i <= k - 1 => tr[i].utc <= t - 8640
                        /\ k < i => t + 8640 <= tr[i].utc
    <3> TAKE i \in 1..n
    <3>1. i # k => ~Near6(i)
      BY <1>2, <2>1
    <3>2. i < k => tr[i].utc < tr[k].utc
      BY <1>1
    <3>3. k < i => tr[k].utc < tr[i].utc
      BY <1>1
    <3> QED
      BY <1>1, <1>3, <2>1, <3>1, <3>2, <3>3
  <2>4. k - 1 \in 0..n /\ k \in 0..n /\ k = (k - 1) + 1
    BY <1>1
  <2>5. \E U, W : Turns(z, t, U, W, FileOffset(z, k - 1), FileOffset(z, k))
    <3> DEFINE p == k - 1
    <3>1. /\ p \in 0..Len(z.transitions) /\ k \in 0..Len(z.transitions)
          /\ k = p + 1 /\ Sound(z, k)
      BY <2>2, <2>4 DEF n
    <3>2. Alone(z, t, p, k)
      BY <1>1, <2>3 DEF tr, Alone
    <3> HIDE DEF p
    <3>3. \E U, W : Turns(z, t, U, W, FileOffset(z, p), FileOffset(z, k))
      BY <3>1, <3>2, AroundIs
    <3> QED
      BY <3>3 DEF p
  <2> QED
    BY <2>5
<1>5. CASE ~\E k \in 1..n : Near6(k)
  <2> DEFINE P == {i \in 1..n : tr[i].utc <= t}
  <2>1. PICK p \in 0..n : \A i \in 1..n : tr[i].utc <= t <=> i <= p
    <3>1. CASE P = {}
      <4>1. \A i \in 1..n : tr[i].utc <= t <=> i <= 0
        BY <3>1
      <4> QED
        BY <1>1, <4>1
    <3>2. CASE P # {}
      <4>1. P \in SUBSET (0..n)
        OBVIOUS
      <4>2. PICK m \in P : \A i \in P : i <= m
        <5> HIDE DEF P
        <5> QED
          BY <1>1, <3>2, <4>1, MaxIs
      <4>3. m \in 1..n /\ tr[m].utc <= t /\ \A i \in 1..n : tr[i].utc <= t => i <= m
        BY <4>2
      <4>4. ASSUME NEW i \in 1..n, i <= m
            PROVE  tr[i].utc <= t
        <5>1. i = m \/ tr[i].utc < tr[m].utc
          BY <1>1, <4>3, <4>4
        <5> QED
          BY <1>1, <4>3, <5>1
      <4> QED
        BY <4>3, <4>4
    <3> QED
      BY <3>1, <3>2
  <2>2. \A i \in 1..n : /\ i <= p => tr[i].utc <= t - 8640
                        /\ p < i => t + 8640 <= tr[i].utc
    BY <1>1, <1>3, <1>5, <2>1
  <2>3. p \in 0..Len(z.transitions)
    BY <2>1 DEF n
  <2>4. Alone(z, t, p, p)
    BY <1>1, <2>2 DEF tr, Alone
  <2>5. \E U, W : Turns(z, t, U, W, FileOffset(z, p), FileOffset(z, p))
    BY <2>3, <2>4, AroundIs
  <2> QED
    BY <2>5
<1> QED
  BY <1>4, <1>5

\* Times in UTC and on the wall clock stand for each other around such a time.
FaithfulAround(z, t) == Faithful(z, (t - 4320)..(t + 4320), (t - 2880)..(t + 2880))

LEMMA TurnsFaithful ==
  ASSUME NEW z, Offsets(z) \subseteq Offset, NEW t \in Int, NEW U, NEW W, NEW old, NEW new,
         Turns(z, t, U, W, old, new)
  PROVE  FaithfulAround(z, t)
<1> DEFINE A == (t - 4320)..(t + 4320)
           B == (t - 2880)..(t + 2880)
<1>1. /\ U \in Int /\ W \in Int /\ old \in Offsets(z) /\ new \in Offsets(z)
      /\ old < new => U + old <= W /\ W <= U + new
      /\ new < old => W = U + new
  BY DEF Turns
<1>2. \A u \in A :
        LET local == FromUtc(z, u)
        IN  /\ local.wall = u + (IF U <= u THEN new ELSE old)
            /\ local.wall \in B =>
                 /\ local.fold \in {0, 1}
                 /\ new < old => (local.fold = 1 <=> U <= u /\ local.wall < W + old - new)
  BY DEF Turns
<1>3. \A x \in B :
        /\ Ambiguous(z, x) <=> W <= x /\ x < W + old - new
        /\ \A fold \in {0, 1} :
             UtcOffset(z, x, fold)
               = (IF W <= x /\ ~(fold = 0 /\ x < W + old - new) THEN new ELSE old)
  BY DEF Turns
<1>4. /\ old \in Int /\ -1439 <= old /\ old <= 1439
      /\ new \in Int /\ -1439 <= new /\ new <= 1439
  <2>1. old \in Offset /\ new \in Offset
    BY <1>1
  <2> QED
    BY <2>1 DEF Offset
<1>5. ASSUME NEW u \in A
      PROVE  LET local == FromUtc(z, u)
             IN  /\ local.wall \in Int /\ \E o \in Offsets(z) : local.wall = u + o
                 /\ local.wall \in B =>
                      /\ local.fold \in {0, 1}
                      /\ local.wall - UtcOffset(z, local.wall, local.fold) = u
  <2> DEFINE x == FromUtc(z, u).wall
             fold == FromUtc(z, u).fold
  <2>1. /\ x = u + (IF U <= u THEN new ELSE old)
        /\ x \in B =>
             /\ fold \in {0, 1}
             /\ new < old => (fold = 1 <=> U <= u /\ x < W + old - new)
    BY <1>2
  <2> HIDE DEF x, fold
  <2>2. x \in Int
    BY <1>4, <2>1
  <2>3. ASSUME x \in B PROVE x - UtcOffset(z, x, fold) = u
    <3>1. UtcOffset(z, x, fold)
            = (IF W <= x /\ ~(fold = 0 /\ x < W + old - new) THEN new ELSE old)
      BY <1>3, <2>1, <2>3
    <3>2. CASE old = new
      BY <1>4, <2>1, <3>1, <3>2
    <3>3. CASE old < new
      BY <1>1, <1>4, <2>1, <2>2, <3>1, <3>3
    <3>4. CASE new < old
      <4>1. fold \in {0, 1} /\ (fold = 1 <=> U <= u /\ x < W + old - new) /\ W = U + new
        BY <1>1, <2>1, <2>3, <3>4
      <4> QED
        BY <1>1, <1>4, <2>1, <2>2, <3>1, <3>4, <4>1
    <3> QED
      BY <1>4, <3>2, <3>3, <3>4
  <2>4. \E o \in Offsets(z) : x = u + o
    BY <1>1, <2>1
  <2> QED
    BY <2>1, <2>2, <2>3, <2>4 DEF x, fold
<1>6. ASSUME NEW x \in B
      PROVE  /\ \A fold \in {0, 1} : /\ UtcOffset(z, x, fold) \in Int
                                     /\ UtcOffset(z, x, fold) \in Offsets(z)
             /\ IF Ambiguous(z, x)
                THEN /\ UtcOffset(z, x, 0) # UtcOffset(z, x, 1)
                     /\ \A fold \in {0, 1} :
                          FromUtc(z, x - UtcOffset(z, x, fold)).wall = x
                ELSE UtcOffset(z, x, 0) = UtcOffset(z, x, 1)
  <2>1. /\ UtcOffset(z, x, 0)
             = (IF W <= x /\ ~(x < W + old - new) THEN new ELSE old)
        /\ UtcOffset(z, x, 1) = (IF W <= x THEN new ELSE old)
        /\ Ambiguous(z, x) <=> W <= x /\ x < W + old - new
    BY <1>3
  <2>2. \A fold \in {0, 1} : UtcOffset(z, x, fold) \in {old, new}
    BY <1>3
  <2>3. ASSUME Ambiguous(z, x)
        PROVE  /\ UtcOffset(z, x, 0) # UtcOffset(z, x, 1)
               /\ FromUtc(z, x - UtcOffset(z, x, 0)).wall = x
               /\ FromUtc(z, x - UtcOffset(z, x, 1)).wall = x
    <3>1. W <= x /\ x < W + old - new /\ new < old /\ W = U + new
      BY <1>1, <1>4, <2>1, <2>3
    <3>2. UtcOffset(z, x, 0) = old /\ UtcOffset(z, x, 1) = new
      BY <2>1, <3>1
    <3>3. x - old \in A /\ x - new \in A /\ x - old < U /\ U <= x - new
      BY <1>1, <1>4, <3>1
    <3>4. /\ FromUtc(z, x - old).wall = x - old + (IF U <= x - old THEN new ELSE old)
          /\ FromUtc(z, x - new).wall = x - new + (IF U <= x - new THEN new ELSE old)
      BY <1>2, <3>3
    <3>5. FromUtc(z, x - old).wall = x /\ FromUtc(z, x - new).wall = x
      BY <1>1, <1>4, <3>3, <3>4
    <3>6. old # new
      BY <1>4, <3>1
    <3>7. UtcOffset(z, x, 0) # UtcOffset(z, x, 1)
      BY <3>2, <3>6
    <3>8. FromUtc(z, x - UtcOffset(z, x, 0)).wall = x
      BY <3>2, <3>5
    <3>9. FromUtc(z, x - UtcOffset(z, x, 1)).wall = x
      BY <3>2, <3>5
    <3> QED
      BY <3>7, <3>8, <3>9
  <2>4. ASSUME ~Ambiguous(z, x)
        PROVE  UtcOffset(z, x, 0) = UtcOffset(z, x, 1)
    BY <2>1, <2>4
  <2>5. \A fold \in {0, 1} : /\ UtcOffset(z, x, fold) \in Int
                             /\ UtcOffset(z, x, fold) \in Offsets(z)
    BY <1>1, <1>4, <2>2
  <2> QED
    BY <2>3, <2>4, <2>5
<1> HIDE DEF A, B
<1>7. Faithful(z, A, B)
  BY <1>5, <1>6 DEF Faithful
<1> QED
  BY <1>7 DEF A, B, FaithfulAround

\* A time that the clock leaves out is in the gap of a transition.
LEMMA TurnsGap ==
  ASSUME NEW z, Offsets(z) \subseteq Offset, NEW t \in Int, NEW U, NEW W, NEW old, NEW new,
         Turns(z, t, U, W, old, new), NEW x \in (t - 1439)..(t + 1439), ~Exists(z, x)
  PROVE  /\ \E i \in DOMAIN z.transitions : U = z.transitions[i].utc
         /\ old \in Int /\ new \in Int /\ Gap(z, x, U, old, new)
<1>1. /\ U \in Int /\ W \in Int /\ old \in Offsets(z) /\ new \in Offsets(z)
      /\ new - old <= 1440
      /\ old < new => U + old <= W /\ W <= U + new
      /\ new < old => W = U + new
      /\ old # new => \E i \in DOMAIN z.transitions : U = z.transitions[i].utc
  BY DEF Turns
<1>2. \A u \in (t - 4320)..(t + 4320) :
        FromUtc(z, u).wall = u + (IF U <= u THEN new ELSE old)
  BY DEF Turns
<1>3. \A y \in (t - 2880)..(t + 2880) :
        UtcOffset(z, y, 0) = (IF W <= y /\ ~(y < W + old - new) THEN new ELSE old)
  BY DEF Turns
<1>4. /\ old \in Int /\ -1439 <= old /\ old <= 1439
      /\ new \in Int /\ -1439 <= new /\ new <= 1439
  <2>1. old \in Offset /\ new \in Offset
    BY <1>1
  <2> QED
    BY <2>1 DEF Offset
<1>5. ASSUME NEW y \in (t - 2880)..(t + 2880)
      PROVE  \E o \in {old, new} :
               /\ o = (IF W <= y /\ ~(y < W + old - new) THEN new ELSE old)
               /\ Exists(z, y) <=> y - o + (IF U <= y - o THEN new ELSE old) = y
  <2> DEFINE o == UtcOffset(z, y, 0)
  <2>1. o = (IF W <= y /\ ~(y < W + old - new) THEN new ELSE old)
    BY <1>3
  <2>2. Exists(z, y) <=> FromUtc(z, y - o).wall = y
    BY DEF Exists
  <2> HIDE DEF o
  <2>3. y - o \in (t - 4320)..(t + 4320)
    BY <1>4, <2>1
  <2>4. FromUtc(z, y - o).wall = y - o + (IF U <= y - o THEN new ELSE old)
    BY <1>2, <2>3
  <2> QED
    BY <2>1, <2>2, <2>4
<1>6. old < new /\ U + old <= x /\ x < U + new
  <2>1. x \in (t - 2880)..(t + 2880) /\ x \in Int
    OBVIOUS
  <2>2. PICK o \in {old, new} :
               /\ o = (IF W <= x /\ ~(x < W + old - new) THEN new ELSE old)
               /\ x - o + (IF U <= x - o THEN new ELSE old) # x
    BY <1>5, <2>1
  <2> QED
    BY <1>1, <1>4, <2>1, <2>2
<1>7. /\ x - 1440 \in (t - 2880)..(t + 2880) /\ x + 1440 \in (t - 2880)..(t + 2880)
      /\ x + new - old \in (t - 2880)..(t + 2880)
      /\ U - 1 \in (t - 4320)..(t + 4320) /\ U \in (t - 4320)..(t + 4320)
  BY <1>1, <1>4, <1>6
<1>8. UtcOffset(z, x - 1440, 0) = old /\ UtcOffset(z, x + 1440, 0) = new
  <2>1. x - 1440 < W /\ W <= x + 1440 /\ ~(x + 1440 < W + old - new)
    BY <1>1, <1>4, <1>6
  <2> QED
    BY <1>1, <1>3, <1>7, <2>1
<1>9. FromUtc(z, U - 1).wall = U - 1 + old /\ FromUtc(z, U).wall = U + new
  BY <1>1, <1>2, <1>7
<1>10. Exists(z, x + new - old)
  <2> DEFINE y == x + new - old
  <2>1. y \in (t - 2880)..(t + 2880) /\ y \in Int /\ U + new <= y
    BY <1>1, <1>4, <1>6, <1>7
  <2> HIDE DEF y
  <2>2. PICK o \in {old, new} :
               /\ o = (IF W <= y /\ ~(y < W + old - new) THEN new ELSE old)
               /\ Exists(z, y) <=> y - o + (IF U <= y - o THEN new ELSE old) = y
    BY <1>5, <2>1
  <2>3. Exists(z, y)
    BY <1>1, <1>4, <1>6, <2>1, <2>2
  <2> QED
    BY <2>3 DEF y
<1> QED
  BY <1>1, <1>4, <1>6, <1>8, <1>9, <1>10 DEF Gap

-----------------------------------------------------------------------------
(* The calendar repeats itself after 400 years, and so do yearly rules.     *)

Cycle == 146097

LEMMA CalendarRepeats ==
  ASSUME NEW y \in Int, NEW k \in Int
  PROVE  /\ NewYear(y + 400 * k) = NewYear(y) + Cycle * k
         /\ IsLeap(y + 400 * k) <=> IsLeap(y)
<1> DEFINE n == y - 1
           c == y + 400 * k
<1>1. n \in Int /\ c \in Int /\ c - 1 = n + 400 * k
  OBVIOUS
<1>2. /\ (c - 1) \div 4 = n \div 4 + 100 * k
      /\ (c - 1) \div 100 = n \div 100 + 4 * k
      /\ (c - 1) \div 400 = n \div 400 + k
  BY <1>1
<1>3. 365 * (c - 1) = 365 * n + 146000 * k
  BY <1>1
<1>4. NewYear(c) = NewYear(y) + Cycle * k
  BY <1>1, <1>2, <1>3 DEF NewYear, Cycle
<1>5. c % 4 = y % 4 /\ c % 100 = y % 100 /\ c % 400 = y % 400
  OBVIOUS
<1> QED
  BY <1>4, <1>5 DEF IsLeap

LEMMA WeekdayRepeats ==
  ASSUME NEW date \in Int, NEW k \in Int
  PROVE  Weekday(date + Cycle * k) = Weekday(date)
BY DEF Weekday, Cycle

\* Where a rule of the year leads to, from its first minute: the day before
\* the seconds and the weekday, and the time of it.
YearlyDay(d, y) ==
  LET m == Or(d.month, 1)
  IN  Ordinal(y, m, Lesser(DaysIn(y, m), Or(d.day, 1)))
      + (d.days + IF m > 2 /\ IsLeap(y) THEN d.leapdays ELSE 0)

YearlyTime(d) ==
  IfGiven(d.hour, 0) * 3600 + IfGiven(d.minute, 0) * 60 + IfGiven(d.second, 0)

LEMMA NewYearsDay ==
  ASSUME NEW y \in Int
  PROVE  /\ Midnight(y, 1, 1) = At(NewYear(y), 0)
         /\ NewYear(y) \in Int /\ YearOf(NewYear(y)) = y
         /\ MonthOf(NewYear(y)) = 1 /\ DayOf(NewYear(y)) = 1
<1>1. /\ DaysIn(y, 1) \in 28..31 /\ DaysBefore(y, 1) = 0 /\ NewYear(y) \in Int
  BY Months, NewYearNext
<1>2. Ordinal(y, 1, 1) = NewYear(y)
  BY <1>1 DEF Ordinal
<1>3. 1 \in 1..DaysIn(y, 1) /\ 1 \in 1..12
  BY <1>1
<1> QED
  BY <1>1, <1>2, <1>3, OrdinalParts DEF Midnight

LEMMA YearlyParts ==
  ASSUME NEW d, IsYearly(d)
  PROVE  /\ d.year = None /\ d.years = 0 /\ d.months = 0
         /\ d.days \in Int /\ d.hours \in Int /\ d.minutes \in Int /\ d.seconds \in Int
         /\ d.leapdays \in Int /\ d.weekday \in {None} \cup WeekdayPart
         /\ Or(d.month, 1) \in 1..12 /\ Or(d.day, 1) \in 1..31
         /\ IfGiven(d.hour, 0) \in Int /\ IfGiven(d.minute, 0) \in Int
         /\ IfGiven(d.second, 0) \in Int
<1>1. /\ d.days \in Int /\ d.hours \in Int /\ d.minutes \in Int /\ d.seconds \in Int
      /\ d.weekday \in {None} \cup WeekdayPart
  BY DEF IsYearly, IsDelta, RelativePart
<1>2. /\ d.year = None /\ d.years = 0 /\ d.months = 0 /\ d.leapdays \in Int
      /\ d.month \in {None} \cup 1..12 /\ d.day \in {None} \cup 1..31
      /\ d.hour \in {None} \cup Int /\ d.minute \in {None} \cup Int
      /\ d.second \in {None} \cup Int
  BY DEF IsYearly
<1>3. Or(d.month, 1) \in 1..12 /\ Or(d.day, 1) \in 1..31
  BY <1>2 DEF Or
<1>4. IfGiven(d.hour, 0) \in Int /\ IfGiven(d.minute, 0) \in Int /\ IfGiven(d.second, 0) \in Int
  BY <1>2 DEF IfGiven
<1> QED
  BY <1>1, <1>2, <1>3, <1>4

LEMMA YearlyIs ==
  ASSUME NEW d, IsYearly(d), NEW y \in Int
  PROVE  /\ AddTo(d, Midnight(y, 1, 1))
              = WeekdayReached(d, Later(At(YearlyDay(d, y), YearlyTime(d)),
                                        d.hours * 3600 + d.minutes * 60 + d.seconds))
         /\ YearlyDay(d, y) \in Int /\ YearlyTime(d) \in Int
<1> DEFINE dt == Midnight(y, 1, 1)
           m == Or(d.month, 1)
           e == Or(d.day, 1)
           r == MonthReached(d, dt)
<1>1. /\ d.year = None /\ d.years = 0 /\ d.months = 0
      /\ d.days \in Int /\ d.leapdays \in Int /\ m \in 1..12 /\ e \in 1..31
      /\ IfGiven(d.hour, 0) \in Int /\ IfGiven(d.minute, 0) \in Int
      /\ IfGiven(d.second, 0) \in Int
  BY YearlyParts
<1>2. dt.date = NewYear(y) /\ dt.time = 0 /\ YearOf(dt.date) = y
      /\ MonthOf(dt.date) = 1 /\ DayOf(dt.date) = 1
  BY NewYearsDay DEF At
<1> HIDE DEF dt, e
<1>3. Or(d.year, y) = y
  BY <1>1 DEF Or
<1>4. r = [year |-> y, month |-> m]
  <2>1. r = MonthOfYear(y + 0, m + 0)
    BY <1>1, <1>2, <1>3 DEF MonthReached
  <2> HIDE DEF m
  <2>2. y + 0 = y /\ m + 0 = m /\ ~(m > 12) /\ ~(m < 1)
    BY <1>1
  <2> QED
    BY <2>1, <2>2 DEF MonthOfYear
<1>5. DayReached(d, dt, r) = Lesser(DaysIn(y, m), e)
  BY <1>2, <1>4 DEF DayReached, e
<1>6. LeapDays(d, r) = IF m > 2 /\ IsLeap(y) THEN d.leapdays ELSE 0
  BY <1>4 DEF LeapDays
<1>7. 0 \div 3600 = 0 /\ (0 \div 60) % 60 = 0 /\ 0 % 60 = 0
  OBVIOUS
<1>8. TimeReached(d, dt, r)
        = Later(At(YearlyDay(d, y), YearlyTime(d)),
                d.hours * 3600 + d.minutes * 60 + d.seconds)
  <2>1. IfGiven(d.hour, dt.time \div 3600) * 3600
          + IfGiven(d.minute, (dt.time \div 60) % 60) * 60
          + IfGiven(d.second, (dt.time % 60)) = YearlyTime(d)
    BY <1>2, <1>7 DEF YearlyTime
  <2>2. Ordinal(r.year, r.month, DayReached(d, dt, r)) + (d.days + LeapDays(d, r))
          = YearlyDay(d, y)
    BY <1>4, <1>5, <1>6 DEF YearlyDay, e
  <2>3. TimeReached(d, dt, r)
          = Later(At(Ordinal(r.year, r.month, DayReached(d, dt, r)) + (d.days + LeapDays(d, r)),
                     IfGiven(d.hour, dt.time \div 3600) * 3600
                       + IfGiven(d.minute, (dt.time \div 60) % 60) * 60
                       + IfGiven(d.second, (dt.time % 60))),
                  d.hours * 3600 + d.minutes * 60 + d.seconds)
    BY DEF TimeReached
  <2> QED
    BY <2>1, <2>2, <2>3
<1>9. YearlyDay(d, y) \in Int
  <2>1. DaysIn(y, m) \in 28..31 /\ Lesser(DaysIn(y, m), e) \in 1..DaysIn(y, m)
    <3>1. DaysIn(y, m) \in 28..31
      BY <1>1, Months
    <3> HIDE DEF m
    <3> QED
      BY <1>1, <3>1 DEF Lesser
  <2>2. Ordinal(y, m, Lesser(DaysIn(y, m), e)) \in Int
    BY <1>1, <2>1, OrdinalParts
  <2> QED
    BY <1>1, <2>2 DEF YearlyDay, e
<1>10. YearlyTime(d) \in Int
  BY <1>1 DEF YearlyTime
<1> QED
  BY <1>8, <1>9, <1>10 DEF AddTo, dt

LEMMA JumpInt ==
  ASSUME NEW date \in Int, NEW w \in WeekdayPart
  PROVE  Jump(w, date) \in Int
<1>1. w.day \in Int /\ Or(w.n, 1) \in Int /\ Weekday(date) \in Int
  BY DEF WeekdayPart, Or, Weekday
<1> QED
  BY <1>1 DEF Jump

LEMMA YearlyRepeats ==
  ASSUME NEW d, IsYearly(d), NEW y \in Int, NEW k \in Int
  PROVE  LET to == AddTo(d, Midnight(y, 1, 1))
         IN  /\ to.date \in Int /\ to.time \in Int
             /\ AddTo(d, Midnight(y + 400 * k, 1, 1)) = At(to.date + Cycle * k, to.time)
<1> DEFINE c == y + 400 * k
           m == Or(d.month, 1)
           secs == d.hours * 3600 + d.minutes * 60 + d.seconds
           x == YearlyDay(d, y)
           t == YearlyTime(d)
           day == x + (t + secs) \div 86400
           time == (t + secs) % 86400
<1>1. /\ d.days \in Int /\ d.hours \in Int /\ d.minutes \in Int /\ d.seconds \in Int
      /\ d.leapdays \in Int /\ d.weekday \in {None} \cup WeekdayPart /\ m \in 1..12
      /\ Or(d.day, 1) \in 1..31 /\ c \in Int
  BY YearlyParts
<1>2. NewYear(c) = NewYear(y) + Cycle * k /\ (IsLeap(c) <=> IsLeap(y)) /\ NewYear(y) \in Int
  <2>1. NewYear(c) = NewYear(y) + Cycle * k /\ (IsLeap(c) <=> IsLeap(y))
    BY CalendarRepeats
  <2> QED
    BY <2>1, NewYearNext
<1> HIDE DEF c
<1>3. \A i : DaysBefore(c, i) = DaysBefore(y, i)
  BY <1>2 DEF DaysBefore
<1>4. DaysIn(c, m) = DaysIn(y, m) /\ DaysBefore(y, m) \in Int /\ DaysIn(y, m) \in Int
  <2>1. DaysBefore(y, m) \in Nat /\ DaysIn(y, m) \in 28..31
    BY <1>1, Months
  <2> HIDE DEF m
  <2> QED
    BY <1>3, <2>1 DEF DaysIn
<1>5. /\ x \in Int /\ t \in Int /\ YearlyDay(d, c) \in Int
      /\ AddTo(d, Midnight(y, 1, 1)) = WeekdayReached(d, Later(At(x, t), secs))
      /\ AddTo(d, Midnight(c, 1, 1)) = WeekdayReached(d, Later(At(YearlyDay(d, c), t), secs))
  BY <1>1, YearlyIs
<1>6. YearlyDay(d, c) = x + Cycle * k
  <2> DEFINE e == Lesser(DaysIn(y, m), Or(d.day, 1))
             on == d.days + IF m > 2 /\ IsLeap(y) THEN d.leapdays ELSE 0
  <2>1. x = NewYear(y) + DaysBefore(y, m) + e - 1 + on
    BY DEF YearlyDay, Ordinal
  <2>2. YearlyDay(d, c) = NewYear(c) + DaysBefore(y, m) + e - 1 + on
    BY <1>2, <1>3, <1>4 DEF YearlyDay, Ordinal
  <2>3. e \in Int /\ on \in Int
    BY <1>1, <1>4 DEF Lesser
  <2> HIDE DEF e, on, x, c, m
  <2>4. Cycle * k \in Int
    BY DEF Cycle
  <2> QED
    BY <1>2, <1>4, <2>1, <2>2, <2>3, <2>4
<1>7. secs \in Int
  BY <1>1
<1> HIDE DEF secs, x, t, c, m
<1>8. Cycle * k \in Int /\ day \in Int /\ time \in Int
  BY <1>5, <1>7 DEF Cycle
<1>9. Later(At(x, t), secs) = At(day, time)
  BY DEF Later, At, DaySeconds
<1>10. Later(At(YearlyDay(d, c), t), secs) = At(day + Cycle * k, time)
  <2>1. x + Cycle * k + (t + secs) \div 86400 = day + Cycle * k
    BY <1>5, <1>7, <1>8
  <2> QED
    BY <1>6, <2>1 DEF Later, At, DaySeconds
<1> HIDE DEF day, time
<1>11. Weekday(day + Cycle * k) = Weekday(day)
  BY <1>8, WeekdayRepeats
<1>12. CASE d.weekday = None
  BY <1>5, <1>8, <1>9, <1>10, <1>12 DEF WeekdayReached, At, c
<1>13. CASE d.weekday # None
  <2> DEFINE j == Jump(d.weekday, day)
  <2>1. Jump(d.weekday, day + Cycle * k) = j
    BY <1>11 DEF Jump
  <2>2. j \in Int
    BY <1>1, <1>8, <1>13, JumpInt
  <2>3. AddTo(d, Midnight(y, 1, 1)) = At(day + j, time)
    BY <1>5, <1>9, <1>13 DEF WeekdayReached, At
  <2>4. AddTo(d, Midnight(c, 1, 1)) = At(day + Cycle * k + j, time)
    BY <1>5, <1>10, <1>13, <2>1 DEF WeekdayReached, At
  <2> HIDE DEF j
  <2>5. day + j \in Int /\ day + Cycle * k + j = (day + j) + Cycle * k
    BY <1>8, <2>2
  <2> QED
    BY <1>8, <2>3, <2>4, <2>5 DEF At, c
<1> QED
  BY <1>12, <1>13

-----------------------------------------------------------------------------
(* Yearly rules.                                                            *)

\* The first minute of a year, and when its two rules change the clock, by the
\* standard time.
YearFrom(y) == MinuteOf(Midnight(y, 1, 1))
RuleFrom(d, y) == MinuteOf(AddTo(d, Midnight(y, 1, 1)))

LEMMA YearFromIs ==
  ASSUME NEW y \in Int
  PROVE  YearFrom(y) = (NewYear(y) - Epoch) * 1440 /\ Epoch \in Int /\ YearFrom(y) \in Int
<1>1. Epoch \in Int
  BY DEF Epoch, Ordinal, NewYear, DaysBefore, MonthRange, IsLeap
<1>2. NewYear(y) \in Int /\ Midnight(y, 1, 1) = At(NewYear(y), 0)
  BY NewYearsDay
<1>3. YearFrom(y) = (NewYear(y) - Epoch) * 1440 + 0 \div 60
  BY <1>2 DEF YearFrom, MinuteOf, At
<1> QED
  BY <1>1, <1>2, <1>3

LEMMA YearAtIs ==
  ASSUME NEW t \in Int
  PROVE  /\ YearAt(t) \in Int /\ YearFrom(YearAt(t)) <= t /\ t < YearFrom(YearAt(t) + 1)
         /\ \A y \in Int : YearFrom(y) <= t /\ t < YearFrom(y + 1) => YearAt(t) = y
<1> DEFINE date == Epoch + t \div 1440
           Y == YearAt(t)
<1>1. Epoch \in Int /\ date \in Int /\ Y = YearOf(date)
  BY YearFromIs DEF YearAt
<1>2. Y \in Int /\ NewYear(Y) <= date /\ date < NewYear(Y + 1)
  BY <1>1, YearOfDate
<1>3. ASSUME NEW y \in Int
      PROVE  /\ YearFrom(y) = (NewYear(y) - Epoch) * 1440 /\ NewYear(y) \in Int
             /\ YearFrom(y + 1) = (NewYear(y + 1) - Epoch) * 1440 /\ NewYear(y + 1) \in Int
  <2>1. y + 1 \in Int
    OBVIOUS
  <2> QED
    BY <2>1, YearFromIs, NewYearNext
<1> HIDE DEF Y
<1>4. YearFrom(Y) <= t /\ t < YearFrom(Y + 1)
  <2>1. /\ YearFrom(Y) = (NewYear(Y) - Epoch) * 1440 /\ NewYear(Y) \in Int
        /\ YearFrom(Y + 1) = (NewYear(Y + 1) - Epoch) * 1440 /\ NewYear(Y + 1) \in Int
    BY <1>2, <1>3
  <2> QED
    BY <1>1, <1>2, <2>1
<1>5. ASSUME NEW y \in Int, YearFrom(y) <= t, t < YearFrom(y + 1)
      PROVE  Y = y
  <2>1. NewYear(y) <= date /\ date < NewYear(y + 1)
    BY <1>1, <1>3, <1>5
  <2> QED
    BY <1>1, <2>1, YearIs
<1> QED
  BY <1>2, <1>4, <1>5 DEF Y

LEMMA RuleRepeats ==
  ASSUME NEW d, IsYearly(d), NEW y \in Int, NEW k \in Int
  PROVE  /\ RuleFrom(d, y) \in Int
         /\ RuleFrom(d, y + 400 * k) = RuleFrom(d, y) + 1440 * (Cycle * k)
<1> DEFINE to == AddTo(d, Midnight(y, 1, 1))
           date == to.date
           time == to.time
<1>1. /\ date \in Int /\ time \in Int
      /\ AddTo(d, Midnight(y + 400 * k, 1, 1)) = At(date + Cycle * k, time)
  BY YearlyRepeats
<1>2. RuleFrom(d, y) = (date - Epoch) * 1440 + time \div 60
  BY DEF RuleFrom, MinuteOf
<1>3. Epoch \in Int /\ Cycle * k \in Int
  BY YearFromIs DEF Cycle
<1>4. RuleFrom(d, y + 400 * k) = (date + Cycle * k - Epoch) * 1440 + time \div 60
  <2> DEFINE a == At(date + Cycle * k, time)
  <2>1. a.date = date + Cycle * k /\ a.time = time
    BY DEF At
  <2>2. RuleFrom(d, y + 400 * k) = (a.date - Epoch) * 1440 + a.time \div 60
    BY <1>1 DEF RuleFrom, MinuteOf
  <2> HIDE DEF a, date, time
  <2> QED
    BY <1>1, <1>3, <2>1, <2>2
<1> HIDE DEF date, time
<1> QED
  BY <1>1, <1>2, <1>3, <1>4

\* A year of a zone with yearly rules.
Season(z, y, north) ==
  /\ YearFrom(y) + 4320 <= RuleFrom(z.start, y)
  /\ RuleFrom(z.start, y) + 4320 <= YearFrom(y + 1)
  /\ YearFrom(y) + 4320 <= RuleFrom(z.end, y)
  /\ RuleFrom(z.end, y) + 4320 <= YearFrom(y + 1)
  /\ IF north THEN RuleFrom(z.start, y) + 2880 <= RuleFrom(z.end, y)
     ELSE RuleFrom(z.end, y) + 2880 <= RuleFrom(z.start, y)

LEMMA BeginsIs ==
  ASSUME NEW z, NEW t
  PROVE  Begins(z, t) = RuleFrom(z.start, YearAt(t)) /\ Ends(z, t) = RuleFrom(z.end, YearAt(t))
BY DEF Begins, Ends, RuleFrom

LEMMA YearFromNext ==
  ASSUME NEW y \in Int
  PROVE  /\ YearFrom(y) \in Int /\ YearFrom(y + 1) \in Int /\ YearFrom(y) < YearFrom(y + 1)
         /\ YearAt(YearFrom(y)) = y
<1>1. /\ YearFrom(y) \in Int /\ YearFrom(y) = (NewYear(y) - Epoch) * 1440 /\ Epoch \in Int
  BY YearFromIs
<1>2. /\ YearFrom(y + 1) \in Int /\ YearFrom(y + 1) = (NewYear(y + 1) - Epoch) * 1440
  <2>1. y + 1 \in Int
    OBVIOUS
  <2> QED
    BY <2>1, YearFromIs
<1>3. /\ NewYear(y) \in Int /\ NewYear(y + 1) \in Int
      /\ NewYear(y + 1) = NewYear(y) + YearLength(y)
  BY NewYearNext
<1>4. YearLength(y) \in Nat /\ YearLength(y) > 0
  BY DEF YearLength
<1>5. YearFrom(y) < YearFrom(y + 1) /\ YearFrom(y) <= YearFrom(y)
  BY <1>1, <1>2, <1>3, <1>4
<1>6. YearAt(YearFrom(y)) = y
  <2>1. \A x \in Int : YearFrom(x) <= YearFrom(y) /\ YearFrom(y) < YearFrom(x + 1)
                         => YearAt(YearFrom(y)) = x
    BY <1>1, YearAtIs
  <2> QED
    BY <1>5, <2>1
<1> QED
  BY <1>1, <1>2, <1>5, <1>6

LEMMA YearFromRepeats ==
  ASSUME NEW y \in Int, NEW k \in Int
  PROVE  YearFrom(y + 400 * k) = YearFrom(y) + 1440 * (Cycle * k)
<1> DEFINE c == y + 400 * k
<1>1. NewYear(c) = NewYear(y) + Cycle * k /\ NewYear(y) \in Int
  <2>1. NewYear(c) = NewYear(y) + Cycle * k
    BY CalendarRepeats
  <2> QED
    BY <2>1, NewYearNext
<1>2. YearFrom(c) = (NewYear(c) - Epoch) * 1440
  <2>1. c \in Int
    OBVIOUS
  <2> HIDE DEF c
  <2> QED
    BY <2>1, YearFromIs
<1>3. YearFrom(y) = (NewYear(y) - Epoch) * 1440 /\ Epoch \in Int
  BY YearFromIs
<1>4. Cycle * k \in Int
  BY DEF Cycle
<1> HIDE DEF c
<1>5. YearFrom(c) = YearFrom(y) + 1440 * (Cycle * k)
  BY <1>1, <1>2, <1>3, <1>4
<1> QED
  BY <1>5 DEF c

LEMMA SeasonRepeats ==
  ASSUME NEW z, IsYearly(z.start), IsYearly(z.end), NEW north \in BOOLEAN,
         NEW c \in Int, NEW k \in Int, RegularYear(z, c, north)
  PROVE  Season(z, c + 400 * k, north)
<1> DEFINE y == c + 400 * k
           shift == 1440 * (Cycle * k)
<1>1. y \in Int /\ y + 1 = (c + 1) + 400 * k /\ c + 1 \in Int /\ shift \in Int
  BY DEF Cycle
<1>2. YearAt(YearFrom(c)) = c /\ YearFrom(c) \in Int /\ YearFrom(c + 1) \in Int
  BY YearFromNext
<1>3. Season(z, c, north)
  BY <1>2, BeginsIs DEF RegularYear, Season, YearFrom
<1>4. YearFrom(y) = YearFrom(c) + shift
  BY YearFromRepeats
<1>5. YearFrom((c + 1) + 400 * k) = YearFrom(c + 1) + shift
  BY <1>1, YearFromRepeats
<1>6. RuleFrom(z.start, y) = RuleFrom(z.start, c) + shift /\ RuleFrom(z.start, c) \in Int
  BY RuleRepeats
<1>7. RuleFrom(z.end, y) = RuleFrom(z.end, c) + shift /\ RuleFrom(z.end, c) \in Int
  BY RuleRepeats
<1> HIDE DEF shift, y
<1>8. YearFrom(y + 1) = YearFrom(c + 1) + shift
  BY <1>1, <1>5
<1>9. Season(z, y, north)
  BY <1>1, <1>2, <1>3, <1>4, <1>6, <1>7, <1>8 DEF Season
<1> QED
  BY <1>9 DEF y

\* What holds of 400 years holds of every year.
LEMMA SeasonIs ==
  ASSUME NEW z, IsYearly(z.start), IsYearly(z.end), NEW north \in BOOLEAN,
         RegularYears(z, north), NEW y \in Int
  PROVE  Season(z, y, north)
<1> DEFINE c == 2001 + ((y - 2001) % 400)
           k == (y - 2001) \div 400
<1>1. c \in 2001..2400 /\ k \in Int /\ y = c + 400 * k
  BY SMT
<1> HIDE DEF c, k
<1>2. RegularYear(z, c, north) /\ c \in Int
  BY <1>1, SMT DEF RegularYears
<1>3. Season(z, c + 400 * k, north)
  BY ONLY <1>1, <1>2, SeasonRepeats, IsYearly(z.start), IsYearly(z.end), north \in BOOLEAN
<1> QED
  BY <1>1, <1>3, SMT

LEMMA RuleFromInt ==
  ASSUME NEW d, IsYearly(d), NEW y \in Int
  PROVE  RuleFrom(d, y) \in Int
BY RuleRepeats

\* A zone whose years are all like that, and its times in daylight saving time.
YearlyZone(z, north) ==
  /\ north \in BOOLEAN /\ z.std \in Int /\ z.dst \in Int
  /\ -1440 < z.std /\ z.std < 1440 /\ z.std <= z.dst /\ z.dst <= z.std + 1440
  /\ z.kind = "range" /\ z.hasdst = TRUE /\ IsYearly(z.start) /\ IsYearly(z.end)
  /\ \A y \in Int : Season(z, y, north)

Naive(z, t, shift) ==
  Within(t, RuleFrom(z.start, YearAt(t)) - shift, RuleFrom(z.end, YearAt(t)) - shift)

Summer(z) == {t \in Int : Naive(z, t, z.std)}

LEMMA SeasonParts ==
  ASSUME NEW z, NEW north, YearlyZone(z, north), NEW y \in Int
  PROVE  LET on == RuleFrom(z.start, y)
             off == RuleFrom(z.end, y)
         IN  /\ YearFrom(y) \in Int /\ YearFrom(y + 1) \in Int /\ on \in Int /\ off \in Int
             /\ YearFrom(y) + 4320 <= on /\ on + 4320 <= YearFrom(y + 1)
             /\ YearFrom(y) + 4320 <= off /\ off + 4320 <= YearFrom(y + 1)
             /\ north => on + 2880 <= off
             /\ ~north => off + 2880 <= on
<1>1. Season(z, y, north) /\ IsYearly(z.start) /\ IsYearly(z.end)
  BY DEF YearlyZone
<1>2. YearFrom(y) \in Int /\ YearFrom(y + 1) \in Int
  BY YearFromNext
<1>3. RuleFrom(z.start, y) \in Int /\ RuleFrom(z.end, y) \in Int
  BY <1>1, RuleFromInt
<1> QED
  BY <1>1, <1>2, <1>3 DEF Season

LEMMA YearHolds ==
  ASSUME NEW y \in Int, NEW t \in Int, YearFrom(y) <= t, t < YearFrom(y + 1)
  PROVE  YearAt(t) = y
BY YearAtIs

\* Three days of the year's end are in one season, by every clock.
LEMMA AtNewYear ==
  ASSUME NEW z, NEW north, YearlyZone(z, north), NEW y \in Int, NEW t \in Int,
         YearFrom(y) - 2880 <= t, t < YearFrom(y) + 2880, NEW shift \in {0, z.std}
  PROVE  Naive(z, t, shift) <=> ~north
<1>1. z.std \in Int /\ -1440 < z.std /\ z.std < 1440 /\ north \in BOOLEAN
      /\ shift \in Int /\ -1440 < shift /\ shift < 1440
  BY DEF YearlyZone
<1>2. CASE YearFrom(y) <= t
  <2> DEFINE on == RuleFrom(z.start, y)
             off == RuleFrom(z.end, y)
  <2>1. /\ YearFrom(y) \in Int /\ YearFrom(y + 1) \in Int /\ on \in Int /\ off \in Int
        /\ YearFrom(y) + 4320 <= on /\ on + 4320 <= YearFrom(y + 1)
        /\ YearFrom(y) + 4320 <= off /\ off + 4320 <= YearFrom(y + 1)
        /\ north => on + 2880 <= off
        /\ ~north => off + 2880 <= on
    BY SeasonParts
  <2>2. YearAt(t) = y
    BY <1>2, <2>1, YearHolds
  <2>3. Naive(z, t, shift) <=> Within(t, on - shift, off - shift)
    BY <2>2 DEF Naive
  <2> HIDE DEF on, off
  <2> QED
    BY <1>1, <1>2, <2>1, <2>3 DEF Within
<1>3. CASE t < YearFrom(y)
  <2> DEFINE x == y - 1
             on == RuleFrom(z.start, x)
             off == RuleFrom(z.end, x)
  <2>1. x \in Int /\ x + 1 = y
    OBVIOUS
  <2> HIDE DEF x
  <2>2. /\ YearFrom(x) \in Int /\ YearFrom(x + 1) \in Int /\ on \in Int /\ off \in Int
        /\ YearFrom(x) + 4320 <= on /\ on + 4320 <= YearFrom(x + 1)
        /\ YearFrom(x) + 4320 <= off /\ off + 4320 <= YearFrom(x + 1)
        /\ north => on + 2880 <= off
        /\ ~north => off + 2880 <= on
    BY <2>1, SeasonParts
  <2>3. YearAt(t) = x
    BY <1>3, <2>1, <2>2, YearHolds
  <2>4. Naive(z, t, shift) <=> Within(t, on - shift, off - shift)
    BY <2>3 DEF Naive
  <2> HIDE DEF on, off
  <2> QED
    BY <1>1, <1>3, <2>1, <2>2, <2>4 DEF Within
<1>4. YearFrom(y) \in Int
  BY YearFromNext
<1> QED
  BY <1>2, <1>3, <1>4

\* Two days of a change of the clock are in the seasons that it divides.
LEMMA AroundChange ==
  ASSUME NEW z, NEW north, YearlyZone(z, north), NEW y \in Int, NEW t \in Int
  PROVE  LET on == RuleFrom(z.start, y) - z.std
             off == RuleFrom(z.end, y) - z.std
         IN  /\ on - 2880 <= t /\ t < on + 2880 => (t \in Summer(z) <=> on <= t)
             /\ off - 2880 <= t /\ t < off + 2880 => (t \in Summer(z) <=> t < off)
<1> DEFINE on == RuleFrom(z.start, y)
           off == RuleFrom(z.end, y)
<1>1. /\ YearFrom(y) \in Int /\ YearFrom(y + 1) \in Int /\ on \in Int /\ off \in Int
      /\ YearFrom(y) + 4320 <= on /\ on + 4320 <= YearFrom(y + 1)
      /\ YearFrom(y) + 4320 <= off /\ off + 4320 <= YearFrom(y + 1)
      /\ north => on + 2880 <= off
      /\ ~north => off + 2880 <= on
  BY SeasonParts
<1>2. z.std \in Int /\ -1440 < z.std /\ z.std < 1440 /\ north \in BOOLEAN
  BY DEF YearlyZone
<1>3. YearFrom(y) <= t /\ t < YearFrom(y + 1)
        => (t \in Summer(z) <=> Within(t, on - z.std, off - z.std))
  <2> SUFFICES ASSUME YearFrom(y) <= t, t < YearFrom(y + 1)
               PROVE  t \in Summer(z) <=> Within(t, on - z.std, off - z.std)
    OBVIOUS
  <2>1. YearAt(t) = y
    BY YearHolds
  <2> QED
    BY <2>1 DEF Summer, Naive
<1> HIDE DEF on, off
<1>4. on - z.std - 2880 <= t /\ t < on - z.std + 2880 => (t \in Summer(z) <=> on - z.std <= t)
  BY <1>1, <1>2, <1>3 DEF Within
<1>5. off - z.std - 2880 <= t /\ t < off - z.std + 2880 => (t \in Summer(z) <=> t < off - z.std)
  BY <1>1, <1>2, <1>3 DEF Within
<1> QED
  BY <1>4, <1>5 DEF on, off

\* The season is another one a day before only when the clock changed.
LEMMA ChangedBetween ==
  ASSUME NEW z, NEW north, YearlyZone(z, north), NEW t \in Int,
         NEW s \in Int, 0 <= s, s <= 1440
  PROVE  /\ t \in Summer(z) /\ t - s \notin Summer(z) =>
              \E y \in Int : /\ t - s < RuleFrom(z.start, y) - z.std
                             /\ RuleFrom(z.start, y) - z.std <= t
         /\ t \notin Summer(z) /\ t - s \in Summer(z) =>
              \E y \in Int : /\ t - s < RuleFrom(z.end, y) - z.std
                             /\ RuleFrom(z.end, y) - z.std <= t
<1> DEFINE y == YearAt(t)
           on == RuleFrom(z.start, y)
           off == RuleFrom(z.end, y)
           x == t - s
<1>1. y \in Int /\ YearFrom(y) <= t /\ t < YearFrom(y + 1)
  BY YearAtIs
<1> HIDE DEF y
<1>2. /\ YearFrom(y) \in Int /\ YearFrom(y + 1) \in Int /\ on \in Int /\ off \in Int
      /\ YearFrom(y) + 4320 <= on /\ on + 4320 <= YearFrom(y + 1)
      /\ YearFrom(y) + 4320 <= off /\ off + 4320 <= YearFrom(y + 1)
      /\ north => on + 2880 <= off
      /\ ~north => off + 2880 <= on
  BY <1>1, SeasonParts
<1>3. z.std \in Int /\ north \in BOOLEAN /\ x \in Int /\ s \in Int /\ 0 <= s /\ s <= 1440
      /\ x = t - s
  <2>1. z.std \in Int /\ north \in BOOLEAN
    BY DEF YearlyZone
  <2> QED
    BY <2>1
<1> HIDE DEF x
<1>4. t \in Summer(z) <=> Within(t, on - z.std, off - z.std)
  <2>1. y = YearAt(t)
    BY DEF y
  <2> QED
    BY <2>1 DEF Summer, Naive
<1>5. CASE YearFrom(y) <= x
  <2>1. YearAt(x) = y
    <3>1. x < YearFrom(y + 1)
      BY <1>1, <1>2, <1>3
    <3> QED
      BY <1>1, <1>3, <1>5, <3>1, YearHolds
  <2>2. x \in Summer(z) <=> Within(x, on - z.std, off - z.std)
    BY <1>3, <2>1 DEF Summer, Naive
  <2> HIDE DEF on, off
  <2>3. t \in Summer(z) /\ x \notin Summer(z) => x < on - z.std /\ on - z.std <= t
    BY <1>2, <1>3, <1>4, <2>2 DEF Within
  <2>4. t \notin Summer(z) /\ x \in Summer(z) => x < off - z.std /\ off - z.std <= t
    BY <1>2, <1>3, <1>4, <2>2 DEF Within
  <2> QED
    BY <1>1, <1>3, <2>3, <2>4 DEF on, off
<1>6. CASE x < YearFrom(y)
  <2>1. /\ YearFrom(y) - 2880 <= t /\ t < YearFrom(y) + 2880
        /\ YearFrom(y) - 2880 <= x /\ x < YearFrom(y) + 2880
    BY <1>1, <1>2, <1>3, <1>6
  <2>2. Naive(z, t, z.std) <=> ~north
    BY <1>1, <2>1, AtNewYear
  <2>3. Naive(z, x, z.std) <=> ~north
    BY <1>1, <1>3, <2>1, AtNewYear
  <2>4. t \in Summer(z) <=> x \in Summer(z)
    BY <1>3, <2>2, <2>3 DEF Summer
  <2> QED
    BY <1>3, <2>4
<1> QED
  BY <1>2, <1>3, <1>5, <1>6

\* The wall clock, read as standard time, tells the season as well.
LEMMA NaiveIs ==
  ASSUME NEW z, NEW north, YearlyZone(z, north), NEW wall \in Int
  PROVE  Naive(z, wall, 0) <=> wall - z.std \in Summer(z)
<1> DEFINE y == YearAt(wall)
           on == RuleFrom(z.start, y)
           off == RuleFrom(z.end, y)
           t == wall - z.std
<1>1. y \in Int /\ YearFrom(y) <= wall /\ wall < YearFrom(y + 1)
  BY YearAtIs
<1>2. z.std \in Int /\ -1440 < z.std /\ z.std < 1440 /\ t \in Int /\ t = wall - z.std
  BY DEF YearlyZone
<1> HIDE DEF y, t
<1>3. /\ YearFrom(y) \in Int /\ YearFrom(y + 1) \in Int /\ on \in Int /\ off \in Int
      /\ YearFrom(y) + 4320 <= on /\ on + 4320 <= YearFrom(y + 1)
  BY <1>1, SeasonParts
<1>4. CASE YearFrom(y) <= t /\ t < YearFrom(y + 1)
  <2>1. YearAt(t) = y
    BY <1>1, <1>2, <1>4, YearHolds
  <2>2. t \in Summer(z) <=> Within(t, on - z.std, off - z.std)
    BY <1>2, <2>1 DEF Summer, Naive
  <2>3. Naive(z, wall, 0) <=> Within(wall, on - 0, off - 0)
    BY DEF Naive, y
  <2> HIDE DEF on, off
  <2>4. Naive(z, wall, 0) <=> t \in Summer(z)
    BY <1>2, <1>3, <2>2, <2>3 DEF Within
  <2> QED
    BY <1>2, <2>4
<1>5. ASSUME NEW x \in {y, y + 1}, YearFrom(x) - 2880 <= t, t < YearFrom(x) + 2880,
             YearFrom(x) - 2880 <= wall, wall < YearFrom(x) + 2880
      PROVE  Naive(z, wall, 0) <=> t \in Summer(z)
  <2>1. x \in Int
    BY <1>1
  <2>2. Naive(z, wall, 0) <=> ~north
    BY <1>5, <2>1, AtNewYear
  <2>3. Naive(z, t, z.std) <=> ~north
    BY <1>2, <1>5, <2>1, AtNewYear
  <2> QED
    BY <1>2, <2>2, <2>3 DEF Summer
<1>6. CASE t < YearFrom(y)
  BY <1>1, <1>2, <1>3, <1>5, <1>6
<1>7. CASE YearFrom(y + 1) <= t
  BY <1>1, <1>2, <1>3, <1>5, <1>7
<1> QED
  BY <1>2, <1>3, <1>4, <1>6, <1>7

LEMMA RangeIs ==
  ASSUME NEW z, NEW north, YearlyZone(z, north)
  PROVE  Seasonal(z, Summer(z))
<1> DEFINE D == Summer(z)
           s == z.dst - z.std
           Saves(wall, fold) ==
             IF wall - z.std \notin D /\ wall - z.dst \in D THEN fold = 0
             ELSE wall - z.std \in D
<1>1. /\ z.std \in Int /\ z.dst \in Int /\ z.kind = "range" /\ z.hasdst = TRUE
      /\ s \in Int /\ 0 <= s /\ s <= 1440 /\ -1440 < z.std /\ z.std < 1440
  <2>1. /\ z.std \in Int /\ z.dst \in Int /\ z.kind = "range" /\ z.hasdst = TRUE
        /\ z.std <= z.dst /\ z.dst <= z.std + 1440 /\ -1440 < z.std /\ z.std < 1440
    BY DEF YearlyZone
  <2> QED
    BY <2>1
<1>2. Offsets(z) = {z.std, z.dst}
  BY <1>1 DEF Offsets
<1>3. \A t : /\ Begins(z, t) = RuleFrom(z.start, YearAt(t))
             /\ Ends(z, t) = RuleFrom(z.end, YearAt(t))
  BY BeginsIs
<1>4. ASSUME NEW wall \in Int
      PROVE  RangeAmbiguous(z, wall) <=> wall - z.std \notin D /\ wall - z.dst \in D
  <2> DEFINE y == YearAt(wall)
             t == wall - z.std
  <2>1. RangeAmbiguous(z, wall) <=>
          RuleFrom(z.end, y) <= wall /\ wall < RuleFrom(z.end, y) + z.dst - z.std
    BY <1>1, <1>3 DEF RangeAmbiguous
  <2>2. y \in Int
    BY YearAtIs
  <2>3. /\ t \in Int /\ t - s \in Int /\ t - s = wall - z.dst /\ wall = t + z.std
        /\ s \in Int /\ 0 <= s /\ s <= 1440 /\ z.dst = z.std + s
    BY <1>1
  <2> HIDE DEF y, t, s
  <2>4. ASSUME RangeAmbiguous(z, wall) PROVE t \notin D /\ t - s \in D
    <3>1. /\ RuleFrom(z.end, y) \in Int
          /\ RuleFrom(z.end, y) <= wall /\ wall < RuleFrom(z.end, y) + z.dst - z.std
      BY <2>1, <2>2, <2>4, RuleFromInt DEF YearlyZone
    <3> DEFINE off == RuleFrom(z.end, y) - z.std
    <3>2. /\ off - 2880 <= t /\ t < off + 2880 => (t \in D <=> t < off)
          /\ off - 2880 <= t - s /\ t - s < off + 2880 => (t - s \in D <=> t - s < off)
      BY <2>2, <2>3, AroundChange
    <3> HIDE DEF D
    <3> QED
      BY <1>1, <2>3, <3>1, <3>2
  <2>5. ASSUME t \notin D, t - s \in D PROVE RangeAmbiguous(z, wall)
    <3>1. PICK x \in Int : /\ t - s < RuleFrom(z.end, x) - z.std
                           /\ RuleFrom(z.end, x) - z.std <= t
      <4>1. t \notin Summer(z) /\ t - s \in Summer(z) =>
              \E x \in Int : /\ t - s < RuleFrom(z.end, x) - z.std
                             /\ RuleFrom(z.end, x) - z.std <= t
        BY <2>3, ChangedBetween
      <4> QED
        BY <2>5, <4>1
    <3>2. /\ YearFrom(x) \in Int /\ YearFrom(x + 1) \in Int /\ RuleFrom(z.end, x) \in Int
          /\ YearFrom(x) + 4320 <= RuleFrom(z.end, x)
          /\ RuleFrom(z.end, x) + 4320 <= YearFrom(x + 1)
      BY SeasonParts
    <3>3. /\ RuleFrom(z.end, x) <= wall /\ wall < RuleFrom(z.end, x) + z.dst - z.std
          /\ YearFrom(x) <= wall /\ wall < YearFrom(x + 1)
      BY <1>1, <2>3, <3>1, <3>2
    <3>4. YearAt(wall) = x
      BY <3>3, YearHolds
    <3> QED
      BY <2>1, <3>3, <3>4 DEF y
  <2> QED
    BY <2>3, <2>4, <2>5 DEF t
<1>5. ASSUME NEW wall \in Int PROVE Ambiguous(z, wall) <=> RangeAmbiguous(z, wall)
  BY <1>1 DEF Ambiguous
<1>6. ASSUME NEW wall \in Int, NEW fold \in {0, 1}
      PROVE  UtcOffset(z, wall, fold) = (IF Saves(wall, fold) THEN z.dst ELSE z.std)
  <2>1. UtcOffset(z, wall, fold) = IF RangeIsDst(z, wall, fold) THEN z.dst ELSE z.std
    BY <1>1 DEF UtcOffset
  <2>2. Within(wall, Begins(z, wall), Ends(z, wall)) <=> wall - z.std \in D
    <3>1. Naive(z, wall, 0) <=> wall - z.std \in D
      BY NaiveIs
    <3>2. RuleFrom(z.start, YearAt(wall)) \in Int /\ RuleFrom(z.end, YearAt(wall)) \in Int
      <4>1. YearAt(wall) \in Int
        BY YearAtIs
      <4> QED
        BY <4>1, SeasonParts
    <3>3. Naive(z, wall, 0) <=> Within(wall, Begins(z, wall), Ends(z, wall))
      BY <1>3, <3>2 DEF Naive
    <3> QED
      BY <3>1, <3>3
  <2>3. RangeIsDst(z, wall, fold) <=> Saves(wall, fold)
    <3> HIDE DEF D
    <3> QED
      BY <1>1, <1>4, <2>2 DEF RangeIsDst
  <2> QED
    BY <2>1, <2>3
<1>7. ASSUME NEW u \in Int
      PROVE  /\ FromUtc(z, u).wall = (IF u \in D THEN u + z.dst ELSE u + z.std)
             /\ FromUtc(z, u).fold = (IF u \notin D /\ u - s \in D THEN 1 ELSE 0)
  <2> DEFINE W == Within(u, Begins(z, u) - z.std, Ends(z, u) - z.std)
             wall == u + IF W THEN z.dst ELSE z.std
  <2>1. W <=> u \in D
    BY <1>3 DEF Summer, Naive
  <2>2. FromUtc(z, u) = RangeFromUtc(z, u)
    BY <1>1 DEF FromUtc
  <2>3. RangeFromUtc(z, u)
          = [wall |-> wall, fold |-> IF ~W /\ RangeAmbiguous(z, wall) THEN 1 ELSE 0]
    BY <1>1 DEF RangeFromUtc
  <2> HIDE DEF W, D
  <2>4. CASE u \in D
    BY <2>1, <2>2, <2>3, <2>4
  <2>5. CASE u \notin D
    <3>1. wall = u + z.std /\ wall \in Int /\ wall - z.std = u /\ wall - z.dst = u - s
      BY <1>1, <2>1, <2>5
    <3>2. RangeAmbiguous(z, wall) <=> u - s \in D
      BY <1>4, <2>5, <3>1
    <3> HIDE DEF wall, s
    <3> QED
      BY <2>1, <2>2, <2>3, <2>5, <3>1, <3>2
  <2> QED
    BY <2>4, <2>5
<1> HIDE DEF D
<1>8. Seasonal(z, D)
  BY <1>2, <1>4, <1>5, <1>6, <1>7 DEF Seasonal
<1> QED
  BY <1>8 DEF D

\* A zone without daylight saving time has none of its times.
LEMMA RangePlain ==
  ASSUME NEW z, z.kind = "range", z.hasdst = FALSE, z.std \in Int, z.dst \in Int
  PROVE  Seasonal(z, {})
<1>1. Offsets(z) = {z.std, z.dst}
  BY DEF Offsets
<1>2. \A wall : ~RangeAmbiguous(z, wall) /\ (Ambiguous(z, wall) <=> RangeAmbiguous(z, wall))
  BY DEF RangeAmbiguous, Ambiguous
<1>3. \A wall, fold : UtcOffset(z, wall, fold) = z.std
  BY DEF UtcOffset, RangeIsDst
<1>4. \A u : FromUtc(z, u) = [wall |-> u + z.std, fold |-> 0]
  BY DEF FromUtc, RangeFromUtc
<1> QED
  BY <1>1, <1>2, <1>3, <1>4 DEF Seasonal

LEMMA RangeYears ==
  ASSUME NEW z, z.kind = "range", RegularRange(z), z.hasdst
  PROVE  \E north \in BOOLEAN : YearlyZone(z, north)
<1>1. /\ z.std \in Int /\ z.dst \in Int /\ z.hasdst \in BOOLEAN
      /\ Abs(z.std) < 1440 /\ z.std <= z.dst /\ z.dst <= z.std + 1440
      /\ IsYearly(z.start) /\ IsYearly(z.end)
  BY DEF RegularRange
<1>2. PICK north \in BOOLEAN : RegularYears(z, north)
  BY DEF RegularRange
<1>3. \A y \in Int : Season(z, y, north)
  BY <1>1, <1>2, SeasonIs
<1>4. -1440 < z.std /\ z.std < 1440
  BY <1>1 DEF Abs
<1>5. z.hasdst = TRUE
  BY <1>1
<1>6. YearlyZone(z, north)
  BY <1>1, <1>3, <1>4, <1>5 DEF YearlyZone
<1> QED
  BY <1>6

-----------------------------------------------------------------------------
(* The gaps of a yearly zone, near the years of the moments.                *)

LEMMA YearFromOrder ==
  ASSUME NEW x \in Int, NEW y \in Int, x < y
  PROVE  YearFrom(x + 1) <= YearFrom(y)
<1>1. NewYear(x + 1) <= NewYear(y)
  BY NewYearOrder
<1>2. x + 1 \in Int
  OBVIOUS
<1>3. NewYear(x + 1) \in Int /\ NewYear(y) \in Int
  BY <1>2, NewYearNext
<1>4. YearFrom(y) = (NewYear(y) - Epoch) * 1440 /\ Epoch \in Int
  BY YearFromIs
<1>5. YearFrom(x + 1) = (NewYear(x + 1) - Epoch) * 1440
  BY <1>2, YearFromIs
<1> QED
  BY <1>1, <1>3, <1>4, <1>5

\* The years of the moments, by their first minutes.
LEMMA MomentYears ==
  ASSUME NEW t \in YearsOfMoments
  PROVE  \E y \in Int : t = YearFrom(y) /\ YearAt(t) = y
<1>1. PICK dt \in Moments : t = MinuteOf(Midnight(YearOf(dt.date), 1, 1))
  BY DEF YearsOfMoments
<1>2. dt.date \in Int
  BY <1>1, DateutilAssumption DEF Datetime
<1> DEFINE y == YearOf(dt.date)
<1>3. y \in Int
  BY <1>2, YearOfDate
<1> HIDE DEF y
<1>4. YearAt(YearFrom(y)) = y
  BY <1>3, YearFromNext
<1>5. t = YearFrom(y)
  BY <1>1 DEF YearFrom, y
<1> QED
  BY <1>3, <1>4, <1>5

\* A change of a yearly zone is the first minute of a year of the moments, or
\* one of the two of such a year.
LEMMA RangeChanges ==
  ASSUME NEW z, NEW north, YearlyZone(z, north), NEW c \in Changes(z)
  PROVE  \E y \in Int :
           /\ \/ c = YearFrom(y)
              \/ c = RuleFrom(z.start, y) - z.std
              \/ c = RuleFrom(z.end, y) - z.std
           /\ RuleFrom(z.start, y) - z.std \in Changes(z)
<1>1. z.kind = "range" /\ z.hasdst = TRUE
  BY DEF YearlyZone
<1>2. Changes(z) = YearsOfMoments \cup {Begins(z, t) - z.std : t \in YearsOfMoments}
                                  \cup {Ends(z, t) - z.std : t \in YearsOfMoments}
  BY <1>1 DEF Changes
<1>3. PICK t \in YearsOfMoments : \/ c = t
                                  \/ c = Begins(z, t) - z.std
                                  \/ c = Ends(z, t) - z.std
  BY <1>2
<1>4. PICK y \in Int : t = YearFrom(y) /\ YearAt(t) = y
  BY MomentYears
<1>5. Begins(z, t) = RuleFrom(z.start, y) /\ Ends(z, t) = RuleFrom(z.end, y)
  BY <1>4, BeginsIs
<1>6. RuleFrom(z.start, y) - z.std \in Changes(z)
  BY <1>2, <1>5
<1> QED
  BY <1>3, <1>4, <1>5, <1>6

LEMMA RangeGap ==
  ASSUME NEW z, NEW north, YearlyZone(z, north), NEW utc \in Instants(z),
         NEW o \in {z.std, z.dst}, ~Exists(z, utc + o)
  PROVE  \E u \in Changes(z), old, new \in Int : Gap(z, utc + o, u, old, new)
<1> DEFINE D == Summer(z)
           s == z.dst - z.std
           wall == utc + o
           t == wall - z.std
<1>1. /\ z.std \in Int /\ z.dst \in Int /\ z.std <= z.dst /\ z.dst <= z.std + 1440
      /\ -1440 < z.std /\ z.std < 1440
  BY DEF YearlyZone
<1>2. PICK c \in Changes(z), k \in Near : utc = c + k
  BY DEF Instants
<1>3. k \in Int /\ -1440 <= k /\ k <= 1440
  BY DateutilAssumption
<1>4. PICK x \in Int :
           /\ \/ c = YearFrom(x)
              \/ c = RuleFrom(z.start, x) - z.std
              \/ c = RuleFrom(z.end, x) - z.std
           /\ RuleFrom(z.start, x) - z.std \in Changes(z)
  BY RangeChanges
<1>5. /\ YearFrom(x) \in Int /\ YearFrom(x + 1) \in Int
      /\ RuleFrom(z.start, x) \in Int /\ RuleFrom(z.end, x) \in Int
      /\ YearFrom(x) + 4320 <= RuleFrom(z.start, x)
      /\ RuleFrom(z.start, x) + 4320 <= YearFrom(x + 1)
      /\ YearFrom(x) + 4320 <= RuleFrom(z.end, x)
      /\ RuleFrom(z.end, x) + 4320 <= YearFrom(x + 1)
  BY SeasonParts
<1>6. c \in Int /\ utc \in Int /\ wall \in Int /\ t \in Int
  BY <1>1, <1>2, <1>3, <1>4, <1>5
<1>7. Seasonal(z, D)
  BY RangeIs
<1>8. /\ t = wall - z.std /\ t - s = wall - z.dst /\ s \in Int /\ 0 <= s /\ s <= 1440
  BY <1>1, <1>6
<1>9. wall - z.std \in D /\ wall - z.dst \notin D
  <2> HIDE DEF D, wall
  <2>1. ~Exists(z, wall)
    BY DEF wall
  <2> QED
    BY <1>1, <1>6, <1>7, <2>1, SeasonalExists
<1> HIDE DEF t, s
<1>10. PICK y \in Int : /\ t - s < RuleFrom(z.start, y) - z.std
                        /\ RuleFrom(z.start, y) - z.std <= t
  <2>1. t \in Summer(z) /\ t - s \notin Summer(z) =>
              \E y \in Int : /\ t - s < RuleFrom(z.start, y) - z.std
                             /\ RuleFrom(z.start, y) - z.std <= t
    BY <1>6, <1>8, ChangedBetween
  <2> QED
    BY <1>8, <1>9, <2>1
<1>11. /\ YearFrom(y) \in Int /\ YearFrom(y + 1) \in Int /\ RuleFrom(z.start, y) \in Int
       /\ YearFrom(y) + 4320 <= RuleFrom(z.start, y)
       /\ RuleFrom(z.start, y) + 4320 <= YearFrom(y + 1)
  BY SeasonParts
<1> DEFINE u == RuleFrom(z.start, y) - z.std
<1>12. u \in Int /\ u - c <= 2880 /\ c - u <= 2880
  <2>1. u - utc <= 1440 /\ utc - u <= 1440
    BY <1>1, <1>6, <1>8, <1>10, <1>11
  <2> QED
    BY <1>1, <1>2, <1>3, <1>6, <1>11, <2>1
<1>13. x = y
  <2>1. CASE x < y
    <3>1. YearFrom(x + 1) <= YearFrom(y)
      BY <2>1, YearFromOrder
    <3> QED
      BY <1>1, <1>4, <1>5, <1>6, <1>11, <1>12, <3>1
  <2>2. CASE y < x
    <3>1. YearFrom(y + 1) <= YearFrom(x)
      BY <2>2, YearFromOrder
    <3> QED
      BY <1>1, <1>4, <1>5, <1>6, <1>11, <1>12, <3>1
  <2> QED
    BY <2>1, <2>2
<1>14. u \in Changes(z)
  BY <1>4, <1>13
<1>15. z.std < z.dst /\ u + z.std <= wall /\ wall < u + z.dst
  BY <1>1, <1>6, <1>8, <1>10, <1>11
<1>16. ASSUME NEW w \in Int, u - 2880 <= w, w < u + 2880
       PROVE  w \in D <=> u <= w
  <2>1. u - 2880 <= w /\ w < u + 2880 => (w \in Summer(z) <=> u <= w)
    BY AroundChange
  <2> QED
    BY <1>16, <2>1
<1> HIDE DEF u, D, wall
<1>17. s = (IF z.std < z.dst THEN z.dst - z.std ELSE z.std - z.dst)
  BY <1>15 DEF s
<1>18. \E old, new \in Int : Gap(z, wall, u, old, new)
  BY <1>1, <1>6, <1>7, <1>8, <1>9, <1>12, <1>15, <1>16, <1>17, SeasonalGap
<1> QED
  BY <1>14, <1>18 DEF wall

-----------------------------------------------------------------------------
(* Zones of every kind.                                                     *)

LEMMA RegularFaithful ==
  ASSUME NEW z, Regular(z), NEW t \in Int, Settled(z, t)
  PROVE  /\ Offsets(z) \subseteq Int
         /\ \E U, W : /\ Faithful(z, U, W) /\ t \in U
                      /\ \A o \in Offsets(z) :
                           t + o \in W /\ Reaches(z, t + o, U)
<1> DEFINE Everywhere == Faithful(z, Int, Int) /\ Offsets(z) \subseteq Int
<1>1. ASSUME z.kind = "fixed", z.offset \in Int PROVE Everywhere
  BY <1>1, FixedFaithful
<1>2. ASSUME z.kind = "range", RegularRange(z) PROVE Everywhere
  <2>1. z.std \in Int /\ z.dst \in Int /\ z.hasdst \in BOOLEAN
    BY <1>2 DEF RegularRange
  <2>2. CASE z.hasdst = FALSE
    <3>1. Seasonal(z, {})
      BY <1>2, <2>1, <2>2, RangePlain
    <3> QED
      BY <2>1, <3>1, SeasonalFaithful
  <2>3. CASE z.hasdst = TRUE
    <3>1. PICK north \in BOOLEAN : YearlyZone(z, north)
      BY <1>2, <2>3, RangeYears
    <3>2. Seasonal(z, Summer(z))
      BY <3>1, RangeIs
    <3> QED
      BY <2>1, <3>2, SeasonalFaithful
  <2> QED
    BY <2>1, <2>2, <2>3
<1>3. ASSUME z.kind = "local", RegularLocal(z) PROVE Everywhere
  <2>1. z.std \in Int /\ z.dst \in Int /\ z.on \in Int /\ z.off \in Int
    BY <1>3 DEF RegularLocal
  <2>2. Seasonal(z, z.on .. (z.off - 1))
    BY <1>3, <2>1, LocalIs
  <2> QED
    BY <2>1, <2>2, SeasonalFaithful
<1>4. CASE Everywhere
  <2>1. \A o \in Offsets(z) : t + o \in Int /\ Reaches(z, t + o, Int)
    BY <1>4 DEF Reaches
  <2> QED
    BY <1>4, <2>1
<1>5. CASE z.kind = "file" /\ RegularFile(z)
  <2> DEFINE U == (t - 4320)..(t + 4320)
             W == (t - 2880)..(t + 2880)
  <2>1. Offsets(z) \subseteq Offset
    BY <1>5, FileOffsetIs
  <2>2. Faithful(z, U, W)
    <3>1. PICK from, on, old, new : Turns(z, t, from, on, old, new)
      BY <1>5, SettledTurns
    <3>2. FaithfulAround(z, t)
      BY <2>1, <3>1, TurnsFaithful
    <3> QED
      BY <3>2 DEF FaithfulAround
  <2>3. ASSUME NEW o \in Offset, NEW p \in Offset
        PROVE  o \in Int /\ t + o \in W /\ t + o - p \in U
    BY DEF Offset
  <2>4. t \in U
    OBVIOUS
  <2> HIDE DEF U, W
  <2>5. \A o, p \in Offsets(z) : o \in Int /\ t + o \in W /\ t + o - p \in U
    BY <2>1, <2>3
  <2> QED
    BY <2>2, <2>4, <2>5 DEF Reaches
<1> QED
  BY <1>1, <1>2, <1>3, <1>4, <1>5 DEF Regular

\* The gap that a time which is left out is in, among the changes.
LEMMA RegularGap ==
  ASSUME NEW z, Regular(z), NEW utc \in Instants(z), utc \in Int, Settled(z, utc),
         NEW o \in Offsets(z), o \in Int, ~Exists(z, utc + o)
  PROVE  \E u \in Changes(z), old, new \in Int : Gap(z, utc + o, u, old, new)
<1> DEFINE wall == utc + o
<1>1. wall \in Int /\ ~Exists(z, wall)
  OBVIOUS
<1>2. CASE z.kind = "fixed" /\ z.offset \in Int
  <2> HIDE DEF wall
  <2> QED
    BY <1>1, <1>2, FixedFaithful
<1>3. CASE z.kind = "range" /\ RegularRange(z)
  <2>1. z.std \in Int /\ z.dst \in Int /\ z.hasdst \in BOOLEAN
    BY <1>3 DEF RegularRange
  <2>2. CASE z.hasdst = FALSE
    <3>1. Seasonal(z, {})
      BY <1>3, <2>1, <2>2, RangePlain
    <3> HIDE DEF wall
    <3>2. wall - z.std \in {}
      BY <1>1, <2>1, <3>1, SeasonalExists
    <3> QED
      BY <3>2
  <2>3. CASE z.hasdst = TRUE
    <3>1. PICK north \in BOOLEAN : YearlyZone(z, north)
      BY <1>3, <2>3, RangeYears
    <3>2. o \in {z.std, z.dst}
      BY <1>3 DEF Offsets
    <3> QED
      BY <3>1, <3>2, RangeGap
  <2> QED
    BY <2>1, <2>2, <2>3
<1>4. CASE z.kind = "file" /\ RegularFile(z)
  <2>1. Offsets(z) \subseteq Offset
    BY <1>4, FileOffsetIs
  <2>2. wall \in (utc - 1439)..(utc + 1439)
    <3>1. o \in Offset
      BY <2>1
    <3> QED
      BY <3>1 DEF Offset
  <2> HIDE DEF wall
  <2>3. PICK u, on, old, new : Turns(z, utc, u, on, old, new)
    BY <1>4, SettledTurns
  <2>4. /\ \E i \in DOMAIN z.transitions : u = z.transitions[i].utc
        /\ old \in Int /\ new \in Int /\ Gap(z, wall, u, old, new)
    BY <1>1, <2>1, <2>2, <2>3, TurnsGap
  <2>5. u \in Changes(z)
    BY <1>4, <2>4 DEF Changes
  <2> QED
    BY <2>4, <2>5 DEF wall
<1>5. CASE z.kind = "local" /\ RegularLocal(z)
  <2> HIDE DEF wall
  <2>1. PICK u \in {z.on, z.off} : \E old, new \in Int : Gap(z, wall, u, old, new)
    BY <1>1, <1>5, LocalGap
  <2>2. Changes(z) = {z.on, z.off}
    BY <1>5 DEF Changes
  <2> QED
    BY <2>1, <2>2 DEF wall
<1> QED
  BY <1>2, <1>3, <1>4, <1>5 DEF Regular

LEMMA ChangesAre ==
  ASSUME NEW z, Regular(z), NEW c \in Changes(z)
  PROVE  c \in Int
<1>1. CASE z.kind = "fixed"
  BY <1>1 DEF Changes
<1>2. CASE z.kind = "range" /\ RegularRange(z)
  <2>1. z.hasdst \in BOOLEAN
    BY <1>2 DEF RegularRange
  <2>2. CASE z.hasdst = FALSE
    <3>1. c \in YearsOfMoments
      BY <1>2, <2>2 DEF Changes
    <3>2. PICK y \in Int : c = YearFrom(y)
      BY <3>1, MomentYears
    <3> QED
      BY <3>2, YearFromNext
  <2>3. CASE z.hasdst = TRUE
    <3>1. PICK north \in BOOLEAN : YearlyZone(z, north)
      BY <1>2, <2>3, RangeYears
    <3>2. PICK y \in Int : \/ c = YearFrom(y)
                           \/ c = RuleFrom(z.start, y) - z.std
                           \/ c = RuleFrom(z.end, y) - z.std
      BY <3>1, RangeChanges
    <3>3. YearFrom(y) \in Int /\ RuleFrom(z.start, y) \in Int /\ RuleFrom(z.end, y) \in Int
      BY <3>1, SeasonParts
    <3>4. z.std \in Int
      BY <3>1 DEF YearlyZone
    <3> QED
      BY <3>2, <3>3, <3>4
  <2> QED
    BY <2>1, <2>2, <2>3
<1>3. CASE z.kind = "file" /\ RegularFile(z)
  <2>1. \A i \in DOMAIN z.transitions : z.transitions[i].utc \in Int
    BY <1>3, FileParts
  <2>2. PICK i \in DOMAIN z.transitions : c = z.transitions[i].utc
    BY <1>3 DEF Changes
  <2> QED
    BY <2>1, <2>2
<1>4. CASE z.kind = "local" /\ RegularLocal(z)
  BY <1>4 DEF Changes, RegularLocal
<1> QED
  BY <1>1, <1>2, <1>3, <1>4 DEF Regular

LEMMA InstantsAre ==
  ASSUME NEW z, Regular(z), NEW utc \in Instants(z)
  PROVE  utc \in Int
<1>1. PICK c \in Changes(z), k \in Near : utc = c + k
  BY DEF Instants
<1>2. c \in Int /\ k \in Int
  BY <1>1, ChangesAre, DateutilAssumption
<1> QED
  BY <1>1, <1>2

\* What a call about a zone is computed from.
LEMMA ZoneOfCall ==
  ASSUME call \in Calls, call.op = "zone"
  PROVE  /\ Regular(call.zone) /\ call.utc \in Instants(call.zone) /\ call.utc \in Int
<1>1. PICK z \in Zones : call \in [op : {"zone"}, zone : {z}, utc : Instants(z)]
  BY DEF Calls
<1>2. call.zone = z /\ call.utc \in Instants(z)
  BY <1>1
<1>3. Regular(z)
  BY DateutilAssumption
<1> QED
  BY <1>2, <1>3, InstantsAre

-----------------------------------------------------------------------------
(* The theorems.                                                            *)

\* A time in UTC survives the way to the wall clock of a zone and back, the hour
\* that the clock shows twice included (_common.py 183-257, tz.py): any time of a
\* zone with a fixed offset or rules, and one of a file around which there is no
\* transition but a sound one.
THEOREM ZonesRoundTrip == DSpec => []ZoneRoundTrip
<1>1. call \in Calls \cup {None} => ZoneRoundTrip
  <2> SUFFICES ASSUME call \in Calls, call.op = "zone",
                      Settled(call.zone, call.utc)
               PROVE  LET local == FromUtc(call.zone, call.utc)
                      IN  local.wall - UtcOffset(call.zone, local.wall, local.fold)
                            = call.utc
    BY DEF ZoneRoundTrip
  <2>1. Regular(call.zone) /\ call.utc \in Int
    BY ZoneOfCall
  <2> DEFINE z == call.zone
             local == FromUtc(z, call.utc)
  <2>2. PICK U, W : /\ Faithful(z, U, W) /\ call.utc \in U
                    /\ \A o \in Offsets(z) : call.utc + o \in W
    BY <2>1, RegularFaithful
  <2> HIDE DEF z
  <2>3. \E o \in Offsets(z) : local.wall = call.utc + o
    BY <2>2 DEF Faithful
  <2>4. local.wall \in W
    BY <2>2, <2>3
  <2>5. local.wall - UtcOffset(z, local.wall, local.fold) = call.utc
    BY <2>2, <2>4 DEF Faithful
  <2> QED
    BY <2>5 DEF z
<1> QED
  BY <1>1, CallAlways, PTL

\* datetime_ambiguous and datetime_exists say how many times in UTC a time on
\* the wall clock stands for (tz.py:1713-1772).
THEOREM WallTimesCounted == DSpec => []WallTimes
<1>1. call \in Calls \cup {None} => WallTimes
  <2> DEFINE z == call.zone
  <2> SUFFICES ASSUME call \in Calls, call.op = "zone",
                      Settled(call.zone, call.utc), NEW o \in Offsets(z)
               PROVE  LET wall == call.utc + o
                          shown == Shown(z, wall, Offsets(z))
                      IN  /\ Ambiguous(z, wall) <=> Cardinality(shown) = 2
                          /\ Exists(z, wall) <=> shown # {}
    BY DEF WallTimes
  <2>1. Regular(z) /\ call.utc \in Int
    BY ZoneOfCall
  <2>2. /\ Offsets(z) \subseteq Int
        /\ \E U, W : /\ Faithful(z, U, W)
                     /\ \A p \in Offsets(z) : /\ call.utc + p \in W
                                             /\ Reaches(z, call.utc + p, U)
    BY <2>1, RegularFaithful
  <2> DEFINE wall == call.utc + o
  <2>3. wall \in Int
    BY <2>1, <2>2
  <2> HIDE DEF z, wall
  <2>4. /\ Ambiguous(z, wall) <=> Cardinality(Shown(z, wall, Offsets(z))) = 2
        /\ Exists(z, wall) <=> Shown(z, wall, Offsets(z)) # {}
    <3>1. PICK U, W : Faithful(z, U, W) /\ wall \in W /\ Reaches(z, wall, U)
      <4>1. o \in Offsets(z)
        BY DEF z
      <4> QED
        BY <2>2, <4>1, Zenon DEF wall
    <3> QED
      BY <2>2, <2>3, <3>1, ExistsIs
  <2> QED
    BY <2>4 DEF wall
<1> QED
  BY <1>1, CallAlways, PTL

\* resolve_imaginary takes a time in a gap forward, over the gap and no further,
\* and leaves every other time alone (tz.py:1774-1811).
THEOREM ImaginaryTimesResolved == DSpec => []ImaginaryResolved
<1> DEFINE OverGap(resolved, wall, last, next) ==
             last < wall /\ wall < next /\ resolved - wall = next - last - 1
           Right(z, wall, resolved) ==
             /\ Exists(z, resolved)
             /\ IF Exists(z, wall) THEN resolved = wall
                ELSE \E u \in Changes(z) :
                       OverGap(resolved, wall, FromUtc(z, u - 1).wall, FromUtc(z, u).wall)
<1>1. call \in Calls \cup {None} => ImaginaryResolved
  <2> DEFINE z == call.zone
  <2> SUFFICES ASSUME call \in Calls, call.op = "zone",
                      Settled(call.zone, call.utc), NEW o \in Offsets(z)
               PROVE  Right(z, call.utc + o, ResolveImaginary(z, call.utc + o))
    BY DEF ImaginaryResolved
  <2>1. Regular(z) /\ call.utc \in Instants(z) /\ call.utc \in Int
    BY ZoneOfCall
  <2>2. o \in Int
    BY <2>1, RegularFaithful
  <2> DEFINE wall == call.utc + o
             resolved == ResolveImaginary(z, wall)
  <2>3. wall \in Int
    BY <2>1, <2>2
  <2>4. CASE Exists(z, wall)
    BY <2>4 DEF ResolveImaginary
  <2>5. CASE ~Exists(z, wall)
    <3>1. PICK u \in Changes(z), old \in Int, new \in Int : Gap(z, wall, u, old, new)
      <4>1. Settled(z, call.utc)
        OBVIOUS
      <4> HIDE DEF z
      <4> QED
        BY <2>1, <2>2, <2>5, <4>1, RegularGap
    <3>2. u \in Int
      <4> HIDE DEF z
      <4> QED
        BY <2>1, <3>1, ChangesAre
    <3> HIDE DEF z, wall
    <3>3. /\ FromUtc(z, u - 1).wall = u - 1 + old /\ FromUtc(z, u).wall = u + new
          /\ u + old <= wall /\ wall < u + new
          /\ UtcOffset(z, wall - 1440, 0) = old /\ UtcOffset(z, wall + 1440, 0) = new
          /\ Exists(z, wall + new - old)
      BY <3>1 DEF Gap
    <3>4. resolved = wall + new - old
      BY <2>5, <3>3 DEF ResolveImaginary
    <3>5. OverGap(resolved, wall, u - 1 + old, u + new)
      BY <2>3, <3>1, <3>2, <3>3, <3>4
    <3> QED
      BY <2>5, <3>1, <3>3, <3>4, <3>5 DEF z, wall
  <2> QED
    BY <2>4, <2>5
<1> QED
  BY <1>1, CallAlways, PTL
=============================================================================

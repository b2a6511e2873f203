------------------------- MODULE SkillInject_proofs -------------------------
(***************************************************************************)
(* For any host, any manifests and any number of processes: the types;     *)
(* that the opt-out holds once the passes that were past their mode check  *)
(* are over (a pass that did not get past it, or that uninstalls, has      *)
(* nothing but removals on its list); that a preview changes nothing; that *)
(* an Uninstall which meets no other pass leaves nothing behind; and that  *)
(* passes leave alone a host that is up to date.                           *)
(***************************************************************************)
EXTENDS SkillInject, SequenceFacts

USE ConstantsAssumption
-----------------------------------------------------------------------------
(***************************************************************************)
(* The work lists: what is on them, whatever the manifests name.           *)
(***************************************************************************)
ToolItems(t) ==
    {Item("skill", <<"skill", t>>, t)} \cup
    IF FileOf[t] = None THEN {}
    ELSE {Item("marker", <<"marker", FileOf[t]>>, t)}
         \cup {Item("file", <<"file", f>>, t) : f \in ToSet(PluginFilesOf(t))}
         \cup IF PluginOf[t] = None THEN {} ELSE {Item("trust", <<"trust", PluginOf[t]>>, t)}

ToolRemovals(t) ==
    {Rm(<<"skill", t>>)}
    \cup (IF FileOf[t] = None THEN {} ELSE {Rm(<<"marker", FileOf[t]>>)})
    \cup {Rm(<<"file", f>>) : f \in ToSet(PluginFilesOf(t))}
    \cup (IF PluginOf[t] = None THEN {} ELSE {Rm(<<"trust", PluginOf[t]>>)})

PluginRemovals(p) == {Rm(<<"trust", p>>)} \cup {Rm(<<"file", f>>) : f \in ToSet(FilesOf[p])}

RetiredItems(m) ==
    {Rm(<<"marker", f>>) : f \in (ToSet(Builtin.markers) \cup ToSet(m.retired.markers)) \ ActiveFiles(m)}
    \cup (UNION {PluginRemovals(p) :
                 p \in (ToSet(Builtin.plugins) \cup ToSet(m.retired.plugins)) \ ActivePlugins(m)})
    \cup {Rm(<<"helper", h>>) : h \in (ToSet(Builtin.helpers) \cup ToSet(m.retired.helpers)) \ ToSet(m.helpers)}

TickItems(r) == LET m == ManifestAt[r] IN
    {Item("helper", <<"helper", h>>, None) : h \in ToSet(m.helpers)}
    \cup (UNION {ToolItems(t) : t \in ToSet(m.tools)})
    \cup {Item("gated", <<"gated", g>>, None) : g \in ToSet(m.gated) \cap Attested}
    \cup RetiredItems(m)

UninstallItems(r) == LET m == ManifestAt[r] IN
    {Rm(<<"helper", h>>) : h \in ToSet(m.helpers)}
    \cup (UNION {ToolRemovals(t) : t \in ToSet(m.tools)})
    \cup {Rm(<<"gated", g>>) : g \in ToSet(m.gated) \cap Attested}
    \cup RetiredItems(m)

Manifests == [tools : Seq(Tools), helpers : Seq(Helpers), gated : Seq(GatedTools), retired : Retirements]

LEMMA SeqHas ==
    ASSUME NEW S, NEW s \in Seq(S)
    PROVE  /\ Len(s) \in Nat /\ DOMAIN s = 1..Len(s) /\ \A i \in 1..Len(s) : s[i] \in S
           /\ ToSet(s) \subseteq S
           /\ \A x : x \in ToSet(s) <=> \E i \in 1..Len(s) : x = s[i]
  BY DEF ToSet

LEMMA UnitHas ==
    /\ ToSet(<<>>) = {}
    /\ \A x : ToSet(<<x>>) = {x}
    /\ \A S : <<>> \in Seq(S)
    /\ \A S : \A x \in S : <<x>> \in Seq(S)
  BY DEF ToSet

LEMMA ItemsJoin ==
    \A a, b \in Seq(Items) : a \o b \in Seq(Items) /\ ToSet(a \o b) = ToSet(a) \cup ToSet(b)
  <1> DEFINE S == Items
  <1>1. ASSUME NEW a \in Seq(S), NEW b \in Seq(S) PROVE a \o b \in Seq(S) /\ ToSet(a \o b) = ToSet(a) \cup ToSet(b)
    <2> HIDE DEF S
    <2>1. a \o b \in Seq(S)
      OBVIOUS
    <2> QED BY <2>1, ConcatHas
  <1> QED BY <1>1

LEMMA RemovalsAreItems ==
    ASSUME NEW l \in Locs
    PROVE  Rm(l) \in Items /\ Rm(l).do = "rm" /\ Rm(l).loc = l
  BY DEF Rm, Item, Items

LEMMA PluginFilesTyped ==
    ASSUME NEW t \in Tools
    PROVE  /\ PluginFilesOf(t) \in Seq(PluginFiles)
           /\ PluginOf[t] # None => PluginOf[t] \in Plugins
  BY ManifestAssumption, UnitHas DEF PluginFilesOf

\* The items of one tool: the skill copy and, with a heartbeat file, the rest.
LEMMA ToolWorkHas ==
    ASSUME NEW t \in Tools
    PROVE  ToolWork(t) \in Seq(Items) /\ ToSet(ToolWork(t)) = ToolItems(t)
  <1> DEFINE fs == PluginFilesOf(t)
             n == Len(fs)
             g == [i \in DOMAIN fs |-> <<Item("file", <<"file", fs[i]>>, t)>>]
             skill == <<Item("skill", <<"skill", t>>, t)>>
             marker == <<Item("marker", <<"marker", FileOf[t]>>, t)>>
             trust == IF PluginOf[t] = None THEN <<>> ELSE <<Item("trust", <<"trust", PluginOf[t]>>, t)>>
  <1>1. fs \in Seq(PluginFiles) /\ (PluginOf[t] # None => PluginOf[t] \in Plugins)
    BY PluginFilesTyped
  <1>2. n \in Nat /\ DOMAIN fs = 1..n /\ \A x : x \in ToSet(fs) <=> \E i \in 1..n : x = fs[i]
    BY <1>1, SeqHas
  <1>3. skill \in Seq(Items) /\ ToSet(skill) = {Item("skill", <<"skill", t>>, t)}
    <2>1. Item("skill", <<"skill", t>>, t) \in Items
      BY DEF Item, Items, Locs
    <2> QED BY <2>1, UnitHas
  <1>4. FileOf[t] # None => marker \in Seq(Items) /\ ToSet(marker) = {Item("marker", <<"marker", FileOf[t]>>, t)}
    <2>1. FileOf[t] # None => Item("marker", <<"marker", FileOf[t]>>, t) \in Items
      BY DEF Item, Items, Locs
    <2> QED BY <2>1, UnitHas
  <1>5. /\ trust \in Seq(Items)
        /\ ToSet(trust) = IF PluginOf[t] = None THEN {} ELSE {Item("trust", <<"trust", PluginOf[t]>>, t)}
    <2>1. PluginOf[t] # None => Item("trust", <<"trust", PluginOf[t]>>, t) \in Items
      BY <1>1 DEF Item, Items, Locs
    <2> QED BY <2>1, UnitHas
  <1>6. g \in [1..n -> Seq(Items)] /\ \A i \in 1..n : ToSet(g[i]) = {Item("file", <<"file", fs[i]>>, t)}
    <2>1. \A i \in 1..n : Item("file", <<"file", fs[i]>>, t) \in Items
      BY <1>1, SeqHas DEF Item, Items, Locs
    <2> QED BY <1>2, <2>1, UnitHas
  <1> HIDE DEF g, trust, marker, skill, fs
  <1>7. FlattenSeq(g) \in Seq(Items) /\ \A x : x \in ToSet(FlattenSeq(g)) <=> \E i \in 1..n : x \in ToSet(g[i])
    BY <1>2, <1>6, FlattenMap
  <1>8. ToSet(FlattenSeq(g)) = {Item("file", <<"file", f>>, t) : f \in ToSet(fs)}
    <2>1. ASSUME NEW x \in ToSet(FlattenSeq(g)) PROVE x \in {Item("file", <<"file", f>>, t) : f \in ToSet(fs)}
      <3>1. PICK i \in 1..n : x \in ToSet(g[i])
        BY <1>7
      <3>2. fs[i] \in ToSet(fs) /\ x = Item("file", <<"file", fs[i]>>, t)
        BY <1>2, <1>6, <3>1
      <3> QED BY <3>2
    <2>2. ASSUME NEW f \in ToSet(fs) PROVE Item("file", <<"file", f>>, t) \in ToSet(FlattenSeq(g))
      BY <1>2, <1>6, <1>7
    <2> QED BY <2>1, <2>2
  <1>9. ToolWork(t) = skill \o IF FileOf[t] = None THEN <<>> ELSE marker \o FlattenSeq(g) \o trust
    BY DEF ToolWork, ForEach, g, trust, marker, skill, fs
  <1>10. FileOf[t] # None =>
            /\ marker \o FlattenSeq(g) \o trust \in Seq(Items)
            /\ ToSet(marker \o FlattenSeq(g) \o trust) = ToSet(marker) \cup ToSet(FlattenSeq(g)) \cup ToSet(trust)
    <2> DEFINE h == marker \o FlattenSeq(g)
    <2>1. FileOf[t] # None => h \in Seq(Items) /\ ToSet(h) = ToSet(marker) \cup ToSet(FlattenSeq(g))
      BY <1>4, <1>7, ItemsJoin
    <2>2. trust \in Seq(Items)
      BY <1>5
    <2> HIDE DEF h
    <2>3. h \in Seq(Items) => h \o trust \in Seq(Items) /\ ToSet(h \o trust) = ToSet(h) \cup ToSet(trust)
      BY <2>2, ItemsJoin
    <2>4. FileOf[t] # None => h \o trust \in Seq(Items)
            /\ ToSet(h \o trust) = ToSet(marker) \cup ToSet(FlattenSeq(g)) \cup ToSet(trust)
      BY <2>1, <2>3
    <2> QED BY <2>4 DEF h
  <1>11. CASE FileOf[t] = None
    <2>1. skill \o <<>> = skill
      BY <1>3
    <2> QED BY <1>3, <1>9, <1>11, <2>1 DEF ToolItems
  <1>12. CASE FileOf[t] # None
    <2> DEFINE h == marker \o FlattenSeq(g) \o trust
    <2>a. ToolWork(t) = skill \o h /\ skill \in Seq(Items) /\ h \in Seq(Items)
      BY <1>3, <1>9, <1>10, <1>12
    <2> HIDE DEF h
    <2>b. ToolWork(t) \in Seq(Items) /\ ToSet(ToolWork(t)) = ToSet(skill) \cup ToSet(h)
      BY <2>a, ItemsJoin
    <2>1. ToolWork(t) \in Seq(Items)
      BY <2>b
    <2>2. ToSet(ToolWork(t)) = ToSet(skill) \cup (ToSet(marker) \cup ToSet(FlattenSeq(g)) \cup ToSet(trust))
      BY <1>10, <1>12, <2>b DEF h
    <2>3. ToSet(ToolWork(t)) = ToolItems(t)
      BY <1>3, <1>4, <1>5, <1>8, <1>12, <2>2 DEF ToolItems, fs
    <2> QED BY <2>1, <2>3
  <1> QED BY <1>11, <1>12

LEMMA RemoveToolHas ==
    ASSUME NEW t \in Tools
    PROVE  RemoveTool(t) \in Seq(Items) /\ ToSet(RemoveTool(t)) = ToolRemovals(t)
  <1> DEFINE fs == PluginFilesOf(t)
             n == Len(fs)
             g == [i \in DOMAIN fs |-> <<Rm(<<"file", fs[i]>>)>>]
             skill == <<Rm(<<"skill", t>>)>>
             marker == IF FileOf[t] = None THEN <<>> ELSE <<Rm(<<"marker", FileOf[t]>>)>>
             trust == IF PluginOf[t] = None THEN <<>> ELSE <<Rm(<<"trust", PluginOf[t]>>)>>
  <1>1. fs \in Seq(PluginFiles) /\ (PluginOf[t] # None => PluginOf[t] \in Plugins)
    BY PluginFilesTyped
  <1>2. n \in Nat /\ DOMAIN fs = 1..n /\ \A x : x \in ToSet(fs) <=> \E i \in 1..n : x = fs[i]
    BY <1>1, SeqHas
  <1>3. skill \in Seq(Items) /\ ToSet(skill) = {Rm(<<"skill", t>>)}
    <2>1. <<"skill", t>> \in Locs
      BY DEF Locs
    <2> QED BY <2>1, RemovalsAreItems, UnitHas
  <1>4. /\ marker \in Seq(Items)
        /\ ToSet(marker) = IF FileOf[t] = None THEN {} ELSE {Rm(<<"marker", FileOf[t]>>)}
    <2>1. FileOf[t] # None => <<"marker", FileOf[t]>> \in Locs
      BY DEF Locs
    <2> QED BY <2>1, RemovalsAreItems, UnitHas
  <1>5. /\ trust \in Seq(Items)
        /\ ToSet(trust) = IF PluginOf[t] = None THEN {} ELSE {Rm(<<"trust", PluginOf[t]>>)}
    <2>1. PluginOf[t] # None => <<"trust", PluginOf[t]>> \in Locs
      BY <1>1 DEF Locs
    <2> QED BY <2>1, RemovalsAreItems, UnitHas
  <1>6. g \in [1..n -> Seq(Items)] /\ \A i \in 1..n : ToSet(g[i]) = {Rm(<<"file", fs[i]>>)}
    <2>1. \A i \in 1..n : Rm(<<"file", fs[i]>>) \in Items
      <3>1. \A i \in 1..n : <<"file", fs[i]>> \in Locs
        BY <1>1, SeqHas DEF Locs
      <3> QED BY <3>1, RemovalsAreItems
    <2> QED BY <1>2, <2>1, UnitHas
  <1> HIDE DEF g, trust, marker, skill, fs
  <1>7. FlattenSeq(g) \in Seq(Items) /\ \A x : x \in ToSet(FlattenSeq(g)) <=> \E i \in 1..n : x \in ToSet(g[i])
    BY <1>2, <1>6, FlattenMap
  <1>8. ToSet(FlattenSeq(g)) = {Rm(<<"file", f>>) : f \in ToSet(fs)}
    <2>1. ASSUME NEW x \in ToSet(FlattenSeq(g)) PROVE x \in {Rm(<<"file", f>>) : f \in ToSet(fs)}
      <3>1. PICK i \in 1..n : x \in ToSet(g[i])
        BY <1>7
      <3>2. fs[i] \in ToSet(fs) /\ x = Rm(<<"file", fs[i]>>)
        BY <1>2, <1>6, <3>1
      <3> QED BY <3>2
    <2>2. ASSUME NEW f \in ToSet(fs) PROVE Rm(<<"file", f>>) \in ToSet(FlattenSeq(g))
      BY <1>2, <1>6, <1>7
    <2> QED BY <2>1, <2>2
  <1>9. RemoveTool(t) = skill \o marker \o FlattenSeq(g) \o trust
    BY DEF RemoveTool, ForEach, g, trust, marker, skill, fs
  <1>10. /\ skill \o marker \in Seq(Items)
         /\ ToSet(skill \o marker) = ToSet(skill) \cup ToSet(marker)
    BY <1>3, <1>4, ItemsJoin
  <1>11. /\ skill \o marker \o FlattenSeq(g) \in Seq(Items)
         /\ ToSet(skill \o marker \o FlattenSeq(g)) = ToSet(skill) \cup ToSet(marker) \cup ToSet(FlattenSeq(g))
    BY <1>7, <1>10, ItemsJoin
  <1>12. /\ RemoveTool(t) \in Seq(Items)
         /\ ToSet(RemoveTool(t)) = ToSet(skill) \cup ToSet(marker) \cup ToSet(FlattenSeq(g)) \cup ToSet(trust)
    <2> DEFINE h == skill \o marker \o FlattenSeq(g)
    <2>1. h \in Seq(Items) /\ ToSet(h) = ToSet(skill) \cup ToSet(marker) \cup ToSet(FlattenSeq(g))
      BY <1>11
    <2>2. trust \in Seq(Items) /\ RemoveTool(t) = h \o trust
      BY <1>5, <1>9
    <2> HIDE DEF h
    <2>3. h \o trust \in Seq(Items) /\ ToSet(h \o trust) = ToSet(h) \cup ToSet(trust)
      BY <2>1, <2>2, ItemsJoin
    <2> QED BY <2>1, <2>2, <2>3
  <1>13. ToSet(RemoveTool(t)) = ToolRemovals(t)
    BY <1>3, <1>4, <1>5, <1>8, <1>12 DEF ToolRemovals, fs
  <1> QED BY <1>12, <1>13

\* The two retired lists without their repetitions.
LEMMA MergedHas ==
    ASSUME NEW S, NEW a \in Seq(S), NEW b \in Seq(S)
    PROVE  Merged(a, b) \in Seq(S) /\ ToSet(Merged(a, b)) = ToSet(a) \cup ToSet(b)
  <1>1. a \o b \in Seq(S) /\ ToSet(a \o b) = ToSet(a) \cup ToSet(b)
    BY ConcatHas, ConcatProperties
  <1> QED BY <1>1, FirstsHave DEF Merged

\* What goes of the retired list of m: all that m does not manage.
LEMMA RetiredWorkHas ==
    ASSUME NEW m \in Manifests
    PROVE  RetiredWork(m) \in Seq(Items) /\ ToSet(RetiredWork(m)) = RetiredItems(m)
  <1> DEFINE mk == Merged(Builtin.markers, m.retired.markers)
             pl == Merged(Builtin.plugins, m.retired.plugins)
             he == Merged(Builtin.helpers, m.retired.helpers)
             a == [i \in DOMAIN mk |-> IF mk[i] \in ActiveFiles(m) THEN <<>> ELSE <<Rm(<<"marker", mk[i]>>)>>]
             files(p) == [i \in DOMAIN FilesOf[p] |-> <<Rm(<<"file", FilesOf[p][i]>>)>>]
             b == [i \in DOMAIN pl |-> IF pl[i] \in ActivePlugins(m) THEN <<>>
                                       ELSE <<Rm(<<"trust", pl[i]>>)>> \o FlattenSeq(files(pl[i]))]
             c == [i \in DOMAIN he |-> IF he[i] \in ToSet(m.helpers) THEN <<>> ELSE <<Rm(<<"helper", he[i]>>)>>]
  <1>1. /\ mk \in Seq(Files) /\ ToSet(mk) = ToSet(Builtin.markers) \cup ToSet(m.retired.markers)
        /\ pl \in Seq(Plugins) /\ ToSet(pl) = ToSet(Builtin.plugins) \cup ToSet(m.retired.plugins)
        /\ he \in Seq(Helpers) /\ ToSet(he) = ToSet(Builtin.helpers) \cup ToSet(m.retired.helpers)
    BY ManifestAssumption, MergedHas DEF Manifests, Retirements
  <1> HIDE DEF mk, pl, he
  <1>2. /\ Len(mk) \in Nat /\ DOMAIN mk = 1..Len(mk) /\ \A i \in 1..Len(mk) : mk[i] \in Files
        /\ Len(pl) \in Nat /\ DOMAIN pl = 1..Len(pl) /\ \A i \in 1..Len(pl) : pl[i] \in Plugins
        /\ Len(he) \in Nat /\ DOMAIN he = 1..Len(he) /\ \A i \in 1..Len(he) : he[i] \in Helpers
        /\ \A x : x \in ToSet(mk) <=> \E i \in 1..Len(mk) : x = mk[i]
        /\ \A x : x \in ToSet(pl) <=> \E i \in 1..Len(pl) : x = pl[i]
        /\ \A x : x \in ToSet(he) <=> \E i \in 1..Len(he) : x = he[i]
    BY <1>1, SeqHas
  <1>3. ASSUME NEW p \in Plugins
        PROVE  /\ <<Rm(<<"trust", p>>)>> \o FlattenSeq(files(p)) \in Seq(Items)
               /\ ToSet(<<Rm(<<"trust", p>>)>> \o FlattenSeq(files(p))) = PluginRemovals(p)
    <2> DEFINE fs == FilesOf[p]
               n == Len(fs)
               g == files(p)
    <2>1. fs \in Seq(PluginFiles)
      BY ManifestAssumption
    <2>2. n \in Nat /\ DOMAIN fs = 1..n /\ \A x : x \in ToSet(fs) <=> \E i \in 1..n : x = fs[i]
      BY <2>1, SeqHas
    <2>3. g \in [1..n -> Seq(Items)] /\ \A i \in 1..n : ToSet(g[i]) = {Rm(<<"file", fs[i]>>)}
      <3>1. \A i \in 1..n : Rm(<<"file", fs[i]>>) \in Items
        <4>1. \A i \in 1..n : <<"file", fs[i]>> \in Locs
          BY <2>1, SeqHas DEF Locs
        <4> QED BY <4>1, RemovalsAreItems
      <3> QED BY <2>2, <3>1, UnitHas
    <2> HIDE DEF g, fs
    <2>4. FlattenSeq(g) \in Seq(Items) /\ \A x : x \in ToSet(FlattenSeq(g)) <=> \E i \in 1..n : x \in ToSet(g[i])
      BY <2>2, <2>3, FlattenMap
    <2>5. ToSet(FlattenSeq(g)) = {Rm(<<"file", f>>) : f \in ToSet(fs)}
      <3>1. ASSUME NEW x \in ToSet(FlattenSeq(g)) PROVE x \in {Rm(<<"file", f>>) : f \in ToSet(fs)}
        <4>1. PICK i \in 1..n : x \in ToSet(g[i])
          BY <2>4
        <4>2. fs[i] \in ToSet(fs) /\ x = Rm(<<"file", fs[i]>>)
          BY <2>2, <2>3, <4>1
        <4> QED BY <4>2
      <3>2. ASSUME NEW f \in ToSet(fs) PROVE Rm(<<"file", f>>) \in ToSet(FlattenSeq(g))
        BY <2>2, <2>3, <2>4
      <3> QED BY <3>1, <3>2
    <2>6. <<Rm(<<"trust", p>>)>> \in Seq(Items) /\ ToSet(<<Rm(<<"trust", p>>)>>) = {Rm(<<"trust", p>>)}
      <3>1. <<"trust", p>> \in Locs
        BY DEF Locs
      <3> QED BY <3>1, RemovalsAreItems, UnitHas
    <2>7. /\ <<Rm(<<"trust", p>>)>> \o FlattenSeq(g) \in Seq(Items)
          /\ ToSet(<<Rm(<<"trust", p>>)>> \o FlattenSeq(g)) = {Rm(<<"trust", p>>)} \cup ToSet(FlattenSeq(g))
      BY <2>4, <2>6, ItemsJoin
    <2> QED BY <2>5, <2>7 DEF g, fs, PluginRemovals
  <1>4. /\ a \in [1..Len(mk) -> Seq(Items)]
        /\ \A i \in 1..Len(mk) : ToSet(a[i]) = IF mk[i] \in ActiveFiles(m) THEN {} ELSE {Rm(<<"marker", mk[i]>>)}
    <2>1. \A i \in 1..Len(mk) : Rm(<<"marker", mk[i]>>) \in Items
      <3>1. \A i \in 1..Len(mk) : <<"marker", mk[i]>> \in Locs
        BY <1>2 DEF Locs
      <3> QED BY <3>1, RemovalsAreItems
    <2> QED BY <1>2, <2>1, UnitHas
  <1>5. /\ b \in [1..Len(pl) -> Seq(Items)]
        /\ \A i \in 1..Len(pl) : ToSet(b[i]) = IF pl[i] \in ActivePlugins(m) THEN {} ELSE PluginRemovals(pl[i])
    <2> HIDE DEF files
    <2> QED BY <1>2, <1>3, UnitHas
  <1>6. /\ c \in [1..Len(he) -> Seq(Items)]
        /\ \A i \in 1..Len(he) : ToSet(c[i]) = IF he[i] \in ToSet(m.helpers) THEN {} ELSE {Rm(<<"helper", he[i]>>)}
    <2>1. \A i \in 1..Len(he) : Rm(<<"helper", he[i]>>) \in Items
      <3>1. \A i \in 1..Len(he) : <<"helper", he[i]>> \in Locs
        BY <1>2 DEF Locs
      <3> QED BY <3>1, RemovalsAreItems
    <2> QED BY <1>2, <2>1, UnitHas
  <1>7. RetiredWork(m) = FlattenSeq(a) \o FlattenSeq(b) \o FlattenSeq(c)
    BY DEF RetiredWork, ForEach, mk, pl, he
  <1> HIDE DEF a, b, c
  <1>8. /\ FlattenSeq(a) \in Seq(Items) /\ \A x : x \in ToSet(FlattenSeq(a)) <=> \E i \in 1..Len(mk) : x \in ToSet(a[i])
        /\ FlattenSeq(b) \in Seq(Items) /\ \A x : x \in ToSet(FlattenSeq(b)) <=> \E i \in 1..Len(pl) : x \in ToSet(b[i])
        /\ FlattenSeq(c) \in Seq(Items) /\ \A x : x \in ToSet(FlattenSeq(c)) <=> \E i \in 1..Len(he) : x \in ToSet(c[i])
    BY <1>2, <1>4, <1>5, <1>6, FlattenMap
  <1>9. /\ RetiredWork(m) \in Seq(Items)
        /\ ToSet(RetiredWork(m)) = ToSet(FlattenSeq(a)) \cup ToSet(FlattenSeq(b)) \cup ToSet(FlattenSeq(c))
    <2>1. /\ FlattenSeq(a) \o FlattenSeq(b) \in Seq(Items)
          /\ ToSet(FlattenSeq(a) \o FlattenSeq(b)) = ToSet(FlattenSeq(a)) \cup ToSet(FlattenSeq(b))
      BY <1>8, ItemsJoin
    <2>2. /\ (FlattenSeq(a) \o FlattenSeq(b)) \o FlattenSeq(c) \in Seq(Items)
          /\ ToSet((FlattenSeq(a) \o FlattenSeq(b)) \o FlattenSeq(c))
                = ToSet(FlattenSeq(a) \o FlattenSeq(b)) \cup ToSet(FlattenSeq(c))
      BY <1>8, <2>1, ItemsJoin
    <2> QED BY <1>7, <2>1, <2>2
  <1>10. ToSet(FlattenSeq(a)) = {Rm(<<"marker", f>>) : f \in ToSet(mk) \ ActiveFiles(m)}
    <2>1. ASSUME NEW x \in ToSet(FlattenSeq(a)) PROVE x \in {Rm(<<"marker", f>>) : f \in ToSet(mk) \ ActiveFiles(m)}
      <3>1. PICK i \in 1..Len(mk) : x \in ToSet(a[i])
        BY <1>8
      <3>2. mk[i] \in ToSet(mk) \ ActiveFiles(m) /\ x = Rm(<<"marker", mk[i]>>)
        BY <1>2, <1>4, <3>1
      <3> QED BY <3>2
    <2>2. ASSUME NEW f \in ToSet(mk) \ ActiveFiles(m) PROVE Rm(<<"marker", f>>) \in ToSet(FlattenSeq(a))
      BY <1>2, <1>4, <1>8
    <2> QED BY <2>1, <2>2
  <1>11. ToSet(FlattenSeq(b)) = UNION {PluginRemovals(p) : p \in ToSet(pl) \ ActivePlugins(m)}
    <2>1. ASSUME NEW x \in ToSet(FlattenSeq(b)) PROVE \E p \in ToSet(pl) \ ActivePlugins(m) : x \in PluginRemovals(p)
      <3>1. PICK i \in 1..Len(pl) : x \in ToSet(b[i])
        BY <1>8
      <3>2. pl[i] \in ToSet(pl) \ ActivePlugins(m) /\ x \in PluginRemovals(pl[i])
        BY <1>2, <1>5, <3>1
      <3> QED BY <3>2
    <2>2. ASSUME NEW p \in ToSet(pl) \ ActivePlugins(m), NEW x \in PluginRemovals(p) PROVE x \in ToSet(FlattenSeq(b))
      BY <1>2, <1>5, <1>8
    <2> QED BY <2>1, <2>2
  <1>12. ToSet(FlattenSeq(c)) = {Rm(<<"helper", h>>) : h \in ToSet(he) \ ToSet(m.helpers)}
    <2>1. ASSUME NEW x \in ToSet(FlattenSeq(c)) PROVE x \in {Rm(<<"helper", h>>) : h \in ToSet(he) \ ToSet(m.helpers)}
      <3>1. PICK i \in 1..Len(he) : x \in ToSet(c[i])
        BY <1>8
      <3>2. he[i] \in ToSet(he) \ ToSet(m.helpers) /\ x = Rm(<<"helper", he[i]>>)
        BY <1>2, <1>6, <3>1
      <3> QED BY <3>2
    <2>2. ASSUME NEW h \in ToSet(he) \ ToSet(m.helpers) PROVE Rm(<<"helper", h>>) \in ToSet(FlattenSeq(c))
      BY <1>2, <1>6, <1>8
    <2> QED BY <2>1, <2>2
  <1>13. ToSet(RetiredWork(m)) = RetiredItems(m)
    <2>1. RetiredItems(m) = {Rm(<<"marker", f>>) : f \in ToSet(mk) \ ActiveFiles(m)}
                            \cup (UNION {PluginRemovals(p) : p \in ToSet(pl) \ ActivePlugins(m)})
                            \cup {Rm(<<"helper", h>>) : h \in ToSet(he) \ ToSet(m.helpers)}
      <3> HIDE DEF a, b, c
      <3> QED BY <1>1 DEF RetiredItems
    <2> QED BY <1>9, <1>10, <1>11, <1>12, <2>1
  <1> QED BY <1>9, <1>13

\* The part of a list that a sequence s of names makes, F[x] being what the
\* name x adds to it.
Adds(T, s, g, F) ==
    /\ s \in Seq(T)
    /\ g \in [1..Len(s) -> Seq(Items)]
    /\ F \in [T -> SUBSET Items]
    /\ \A i \in 1..Len(s) : ToSet(g[i]) = F[s[i]]

LEMMA EachAdds ==
    ASSUME NEW T, NEW s, NEW g, NEW F, Adds(T, s, g, F)
    PROVE  FlattenSeq(g) \in Seq(Items) /\ ToSet(FlattenSeq(g)) = UNION {F[x] : x \in ToSet(s)}
  <1> DEFINE n == Len(s)
  <1>1. n \in Nat /\ (\A i \in 1..n : s[i] \in T) /\ \A x : x \in ToSet(s) <=> \E i \in 1..n : x = s[i]
    BY SeqHas DEF Adds
  <1>2. FlattenSeq(g) \in Seq(Items) /\ \A x : x \in ToSet(FlattenSeq(g)) <=> \E i \in 1..n : x \in ToSet(g[i])
    BY <1>1, FlattenMap DEF Adds
  <1>3. ASSUME NEW x \in ToSet(FlattenSeq(g)) PROVE \E y \in ToSet(s) : x \in F[y]
    <2>1. PICK i \in 1..n : x \in ToSet(g[i])
      BY <1>2
    <2> QED BY <1>1, <2>1 DEF Adds
  <1>4. ASSUME NEW y \in ToSet(s), NEW x \in F[y] PROVE x \in ToSet(FlattenSeq(g))
    BY <1>1, <1>2 DEF Adds
  <1> QED BY <1>2, <1>3, <1>4

\* A part of a list with one item I[x] for each name x of s that is in K.
Singles(T, s, I, K, g) ==
    /\ s \in Seq(T)
    /\ I \in [T -> Items]
    /\ g = [i \in 1..Len(s) |-> IF s[i] \in K THEN <<I[s[i]]>> ELSE <<>>]

LEMMA SinglesAdd ==
    ASSUME NEW T, NEW s, NEW I, NEW K, NEW g, Singles(T, s, I, K, g)
    PROVE  FlattenSeq(g) \in Seq(Items) /\ ToSet(FlattenSeq(g)) = {I[x] : x \in ToSet(s) \cap K}
  <1> DEFINE n == Len(s)
  <1>1. n \in Nat /\ (\A i \in 1..n : s[i] \in T) /\ \A x : x \in ToSet(s) <=> \E i \in 1..n : x = s[i]
    BY SeqHas DEF Singles
  <1>2. DOMAIN g = 1..n /\ \A i \in 1..n : g[i] = IF s[i] \in K THEN <<I[s[i]]>> ELSE <<>>
    BY DEF Singles
  <1>3. \A i \in 1..n : I[s[i]] \in Items
    BY <1>1 DEF Singles
  <1> HIDE DEF n
  <1>4. ASSUME NEW i \in 1..n PROVE g[i] \in Seq(Items) /\ ToSet(g[i]) = IF s[i] \in K THEN {I[s[i]]} ELSE {}
    <2>1. CASE s[i] \in K
      <3> DEFINE v == I[s[i]]
      <3>1. g[i] = <<v>> /\ v \in Items
        BY <1>2, <1>3, <2>1
      <3> HIDE DEF v
      <3>2. <<v>> \in Seq(Items) /\ ToSet(<<v>>) = {v}
        BY <3>1, UnitHas
      <3>3. g[i] \in Seq(Items) /\ ToSet(g[i]) = {v}
        BY <3>1, <3>2
      <3> QED BY <2>1, <3>3 DEF v
    <2>2. CASE s[i] \notin K
      BY <1>2, <2>2, UnitHas
    <2> QED BY <2>1, <2>2
  <1>5. g \in [1..n -> Seq(Items)]
    <2>1. g = [i \in 1..n |-> g[i]]
      BY DEF Singles, n
    <2> QED BY <1>4, <2>1
  <1>6. FlattenSeq(g) \in Seq(Items) /\ \A x : x \in ToSet(FlattenSeq(g)) <=> \E i \in 1..n : x \in ToSet(g[i])
    BY <1>1, <1>5, FlattenMap
  <1>7. ASSUME NEW x \in ToSet(FlattenSeq(g)) PROVE x \in {I[y] : y \in ToSet(s) \cap K}
    <2>1. PICK i \in 1..n : x \in ToSet(g[i])
      BY <1>6
    <2>2. s[i] \in K /\ x = I[s[i]]
      BY <1>4, <2>1
    <2>3. s[i] \in ToSet(s)
      BY <1>1
    <2> QED BY <2>2, <2>3
  <1>8. ASSUME NEW y \in ToSet(s) \cap K PROVE I[y] \in ToSet(FlattenSeq(g))
    <2>1. PICK i \in 1..n : y = s[i]
      BY <1>1
    <2>2. ToSet(g[i]) = {I[y]}
      BY <1>4, <2>1
    <2>3. I[y] \in ToSet(g[i])
      BY <2>2
    <2> QED BY <1>6, <2>3
  <1>9. ToSet(FlattenSeq(g)) = {I[x] : x \in ToSet(s) \cap K}
    BY <1>7, <1>8
  <1> QED BY <1>6, <1>9

LEMMA ManifestHas ==
    ASSUME NEW r \in Revs
    PROVE  /\ ManifestAt[r] \in Manifests
           /\ ManifestAt[r].tools \in Seq(Tools) /\ ManifestAt[r].helpers \in Seq(Helpers)
           /\ ManifestAt[r].gated \in Seq(GatedTools) /\ ManifestAt[r].retired \in Retirements
  BY ManifestAssumption DEF Manifests

\* The tools' part of a tick's list, and what comes before and after it.
TickTools(r) == LET ts == ManifestAt[r].tools IN FlattenSeq([i \in DOMAIN ts |-> ToolWork(ts[i])])

LEMMA TickParts ==
    ASSUME NEW r \in Revs
    PROVE  LET m == ManifestAt[r] IN
           \E a, c \in Seq(Items) :
               /\ TickWork(r) = a \o TickTools(r) \o c \o RetiredWork(m)
               /\ ToSet(a) = {Item("helper", <<"helper", h>>, None) : h \in ToSet(m.helpers)}
               /\ ToSet(c) = {Item("gated", <<"gated", g>>, None) : g \in ToSet(m.gated) \cap Attested}
  <1> DEFINE m == ManifestAt[r]
             hs == m.helpers
             gs == m.gated
             a == [i \in DOMAIN hs |-> <<Item("helper", <<"helper", hs[i]>>, None)>>]
             c == [i \in DOMAIN gs |-> IF gs[i] \in Attested THEN <<Item("gated", <<"gated", gs[i]>>, None)>> ELSE <<>>]
  <1>1. hs \in Seq(Helpers) /\ gs \in Seq(GatedTools)
    BY ManifestHas
  <1>2. /\ FlattenSeq(a) \in Seq(Items)
        /\ ToSet(FlattenSeq(a)) = {Item("helper", <<"helper", h>>, None) : h \in ToSet(hs)}
    <2> DEFINE I == [h \in Helpers |-> Item("helper", <<"helper", h>>, None)]
    <2> HIDE DEF hs
    <2>1. DOMAIN hs = 1..Len(hs) /\ (\A i \in 1..Len(hs) : hs[i] \in Helpers) /\ ToSet(hs) \subseteq Helpers
      BY <1>1, SeqHas
    <2>2. \A h \in Helpers : Item("helper", <<"helper", h>>, None) \in Items
      BY DEF Item, Items, Locs
    <2>3. I \in [Helpers -> Items] /\ \A h \in Helpers : I[h] = Item("helper", <<"helper", h>>, None)
      BY <2>2
    <2> HIDE DEF I
    <2>4. a = [i \in 1..Len(hs) |-> IF hs[i] \in Helpers THEN <<I[hs[i]]>> ELSE <<>>]
      BY <2>1, <2>3
    <2> HIDE DEF a
    <2>s. Singles(Helpers, hs, I, Helpers, a)
      BY <1>1, <2>3, <2>4 DEF Singles
    <2>5. FlattenSeq(a) \in Seq(Items) /\ ToSet(FlattenSeq(a)) = {I[h] : h \in ToSet(hs) \cap Helpers}
      BY <2>s, SinglesAdd
    <2>6. {I[h] : h \in ToSet(hs) \cap Helpers} = {Item("helper", <<"helper", h>>, None) : h \in ToSet(hs)}
      BY <2>1, <2>3
    <2> QED BY <2>5, <2>6
  <1>3. /\ FlattenSeq(c) \in Seq(Items)
        /\ ToSet(FlattenSeq(c)) = {Item("gated", <<"gated", g>>, None) : g \in ToSet(gs) \cap Attested}
    <2> DEFINE I == [g \in GatedTools |-> Item("gated", <<"gated", g>>, None)]
    <2> HIDE DEF gs
    <2>1. DOMAIN gs = 1..Len(gs) /\ (\A i \in 1..Len(gs) : gs[i] \in GatedTools) /\ ToSet(gs) \subseteq GatedTools
      BY <1>1, SeqHas
    <2>2. \A g \in GatedTools : Item("gated", <<"gated", g>>, None) \in Items
      BY DEF Item, Items, Locs
    <2>3. I \in [GatedTools -> Items] /\ \A g \in GatedTools : I[g] = Item("gated", <<"gated", g>>, None)
      BY <2>2
    <2> HIDE DEF I
    <2>4. c = [i \in 1..Len(gs) |-> IF gs[i] \in Attested THEN <<I[gs[i]]>> ELSE <<>>]
      BY <2>1, <2>3
    <2> HIDE DEF c
    <2>s. Singles(GatedTools, gs, I, Attested, c)
      BY <1>1, <2>3, <2>4 DEF Singles
    <2>5. FlattenSeq(c) \in Seq(Items) /\ ToSet(FlattenSeq(c)) = {I[g] : g \in ToSet(gs) \cap Attested}
      BY <2>s, SinglesAdd
    <2>6. {I[g] : g \in ToSet(gs) \cap Attested} = {Item("gated", <<"gated", g>>, None) : g \in ToSet(gs) \cap Attested}
      BY <2>1, <2>3
    <2> QED BY <2>5, <2>6
  <1>4. TickWork(r) = FlattenSeq(a) \o TickTools(r) \o FlattenSeq(c) \o RetiredWork(m)
    BY DEF TickWork, ForEach, TickTools
  <1> HIDE DEF a, c
  <1> QED BY <1>2, <1>3, <1>4

LEMMA TickToolsHas ==
    ASSUME NEW r \in Revs
    PROVE  /\ TickTools(r) \in Seq(Items)
           /\ ToSet(TickTools(r)) = UNION {ToolItems(t) : t \in ToSet(ManifestAt[r].tools)}
  <1> DEFINE ts == ManifestAt[r].tools
             b == [i \in DOMAIN ts |-> ToolWork(ts[i])]
             B == [t \in Tools |-> ToolItems(t)]
  <1>1. ts \in Seq(Tools)
    BY ManifestHas
  <1>2. TickTools(r) = FlattenSeq(b)
    BY DEF TickTools
  <1>3. /\ FlattenSeq(b) \in Seq(Items)
        /\ ToSet(FlattenSeq(b)) = UNION {ToolItems(t) : t \in ToSet(ts)}
    <2> HIDE DEF ts
    <2>1. DOMAIN ts = 1..Len(ts) /\ (\A i \in 1..Len(ts) : ts[i] \in Tools) /\ ToSet(ts) \subseteq Tools
      BY <1>1, SeqHas
    <2>2. Adds(Tools, ts, b, B)
      BY <1>1, <2>1, ToolWorkHas, SeqHas DEF Adds
    <2>3. UNION {B[t] : t \in ToSet(ts)} = UNION {ToolItems(t) : t \in ToSet(ts)}
      BY <2>1
    <2> HIDE DEF b, B
    <2> QED BY <2>2, <2>3, EachAdds
  <1> QED BY <1>2, <1>3

\* What a tick goes over.
LEMMA TickWorkHas ==
    ASSUME NEW r \in Revs
    PROVE  TickWork(r) \in Seq(Items) /\ ToSet(TickWork(r)) = TickItems(r)
  <1> DEFINE m == ManifestAt[r]
             b == TickTools(r)
             d == RetiredWork(m)
  <1>1. PICK a \in Seq(Items), c \in Seq(Items) :
            /\ TickWork(r) = a \o b \o c \o d
            /\ ToSet(a) = {Item("helper", <<"helper", h>>, None) : h \in ToSet(m.helpers)}
            /\ ToSet(c) = {Item("gated", <<"gated", g>>, None) : g \in ToSet(m.gated) \cap Attested}
    BY TickParts
  <1>2. b \in Seq(Items) /\ ToSet(b) = UNION {ToolItems(t) : t \in ToSet(m.tools)}
    BY TickToolsHas
  <1>3. d \in Seq(Items) /\ ToSet(d) = RetiredItems(m)
    BY ManifestHas, RetiredWorkHas
  <1> HIDE DEF b, d
  <1>4. a \o b \in Seq(Items) /\ ToSet(a \o b) = ToSet(a) \cup ToSet(b)
    BY <1>2, ItemsJoin
  <1>5. a \o b \o c \in Seq(Items) /\ ToSet(a \o b \o c) = ToSet(a \o b) \cup ToSet(c)
    BY <1>4, ItemsJoin
  <1>6. a \o b \o c \o d \in Seq(Items) /\ ToSet(a \o b \o c \o d) = ToSet(a \o b \o c) \cup ToSet(d)
    BY <1>3, <1>5, ItemsJoin
  <1>7. ToSet(TickWork(r)) = TickItems(r)
    BY <1>1, <1>2, <1>3, <1>4, <1>5, <1>6 DEF TickItems
  <1> QED BY <1>1, <1>6, <1>7

\* What an Uninstall goes over.
LEMMA UninstallWorkHas ==
    ASSUME NEW r \in Revs
    PROVE  UninstallWork(r) \in Seq(Items) /\ ToSet(UninstallWork(r)) = UninstallItems(r)
  <1> DEFINE m == ManifestAt[r]
             hs == m.helpers
             ts == m.tools
             gs == m.gated
             a == [i \in DOMAIN hs |-> <<Rm(<<"helper", hs[i]>>)>>]
             b == [i \in DOMAIN ts |-> RemoveTool(ts[i])]
             c == [i \in DOMAIN gs |-> IF gs[i] \in Attested THEN <<Rm(<<"gated", gs[i]>>)>> ELSE <<>>]
             B == [t \in Tools |-> ToolRemovals(t)]
  <1>1. m \in Manifests /\ ts \in Seq(Tools) /\ hs \in Seq(Helpers) /\ gs \in Seq(GatedTools)
    BY ManifestHas
  <1>2. /\ FlattenSeq(a) \in Seq(Items)
        /\ ToSet(FlattenSeq(a)) = {Rm(<<"helper", h>>) : h \in ToSet(hs)}
    <2> DEFINE I == [h \in Helpers |-> Rm(<<"helper", h>>)]
    <2> HIDE DEF hs
    <2>1. DOMAIN hs = 1..Len(hs) /\ (\A i \in 1..Len(hs) : hs[i] \in Helpers) /\ ToSet(hs) \subseteq Helpers
      BY <1>1, SeqHas
    <2>2. \A h \in Helpers : Rm(<<"helper", h>>) \in Items
      BY RemovalsAreItems DEF Locs
    <2>3. I \in [Helpers -> Items] /\ \A h \in Helpers : I[h] = Rm(<<"helper", h>>)
      BY <2>2
    <2> HIDE DEF I
    <2>4. a = [i \in 1..Len(hs) |-> IF hs[i] \in Helpers THEN <<I[hs[i]]>> ELSE <<>>]
      BY <2>1, <2>3
    <2> HIDE DEF a
    <2>s. Singles(Helpers, hs, I, Helpers, a)
      BY <1>1, <2>3, <2>4 DEF Singles
    <2>5. FlattenSeq(a) \in Seq(Items) /\ ToSet(FlattenSeq(a)) = {I[h] : h \in ToSet(hs) \cap Helpers}
      BY <2>s, SinglesAdd
    <2>6. {I[h] : h \in ToSet(hs) \cap Helpers} = {Rm(<<"helper", h>>) : h \in ToSet(hs)}
      BY <2>1, <2>3
    <2> QED BY <2>5, <2>6
  <1>3. /\ FlattenSeq(b) \in Seq(Items)
        /\ ToSet(FlattenSeq(b)) = UNION {ToolRemovals(t) : t \in ToSet(ts)}
    <2> HIDE DEF ts
    <2>1. DOMAIN ts = 1..Len(ts) /\ (\A i \in 1..Len(ts) : ts[i] \in Tools) /\ ToSet(ts) \subseteq Tools
      BY <1>1, SeqHas
    <2>2. Adds(Tools, ts, b, B)
      BY <1>1, <2>1, RemoveToolHas, SeqHas DEF Adds
    <2>3. UNION {B[t] : t \in ToSet(ts)} = UNION {ToolRemovals(t) : t \in ToSet(ts)}
      BY <2>1
    <2> HIDE DEF b, B
    <2> QED BY <2>2, <2>3, EachAdds
  <1>4. /\ FlattenSeq(c) \in Seq(Items)
        /\ ToSet(FlattenSeq(c)) = {Rm(<<"gated", g>>) : g \in ToSet(gs) \cap Attested}
    <2> DEFINE I == [g \in GatedTools |-> Rm(<<"gated", g>>)]
    <2> HIDE DEF gs
    <2>1. DOMAIN gs = 1..Len(gs) /\ (\A i \in 1..Len(gs) : gs[i] \in GatedTools) /\ ToSet(gs) \subseteq GatedTools
      BY <1>1, SeqHas
    <2>2. \A g \in GatedTools : Rm(<<"gated", g>>) \in Items
      BY RemovalsAreItems DEF Locs
    <2>3. I \in [GatedTools -> Items] /\ \A g \in GatedTools : I[g] = Rm(<<"gated", g>>)
      BY <2>2
    <2> HIDE DEF I
    <2>4. c = [i \in 1..Len(gs) |-> IF gs[i] \in Attested THEN <<I[gs[i]]>> ELSE <<>>]
      BY <2>1, <2>3
    <2> HIDE DEF c
    <2>s. Singles(GatedTools, gs, I, Attested, c)
      BY <1>1, <2>3, <2>4 DEF Singles
    <2>5. FlattenSeq(c) \in Seq(Items) /\ ToSet(FlattenSeq(c)) = {I[g] : g \in ToSet(gs) \cap Attested}
      BY <2>s, SinglesAdd
    <2>6. {I[g] : g \in ToSet(gs) \cap Attested} = {Rm(<<"gated", g>>) : g \in ToSet(gs) \cap Attested}
      BY <2>1, <2>3
    <2> QED BY <2>5, <2>6
  <1>5. RetiredWork(m) \in Seq(Items) /\ ToSet(RetiredWork(m)) = RetiredItems(m)
    BY <1>1, RetiredWorkHas
  <1>6. UninstallWork(r) = FlattenSeq(a) \o FlattenSeq(b) \o FlattenSeq(c) \o RetiredWork(m)
    BY DEF UninstallWork, ForEach
  <1>7. /\ UninstallWork(r) \in Seq(Items)
        /\ ToSet(UninstallWork(r)) = ToSet(FlattenSeq(a)) \cup ToSet(FlattenSeq(b)) \cup ToSet(FlattenSeq(c)) \cup RetiredItems(m)
    <2> HIDE DEF a, b, c, m, hs, ts, gs
    <2>1. /\ FlattenSeq(a) \o FlattenSeq(b) \in Seq(Items)
          /\ ToSet(FlattenSeq(a) \o FlattenSeq(b)) = ToSet(FlattenSeq(a)) \cup ToSet(FlattenSeq(b))
      BY <1>2, <1>3, ItemsJoin
    <2>2. /\ FlattenSeq(a) \o FlattenSeq(b) \o FlattenSeq(c) \in Seq(Items)
          /\ ToSet(FlattenSeq(a) \o FlattenSeq(b) \o FlattenSeq(c))
                = ToSet(FlattenSeq(a) \o FlattenSeq(b)) \cup ToSet(FlattenSeq(c))
      BY <1>4, <2>1, ItemsJoin
    <2>3. /\ FlattenSeq(a) \o FlattenSeq(b) \o FlattenSeq(c) \o RetiredWork(m) \in Seq(Items)
          /\ ToSet(FlattenSeq(a) \o FlattenSeq(b) \o FlattenSeq(c) \o RetiredWork(m))
                = ToSet(FlattenSeq(a) \o FlattenSeq(b) \o FlattenSeq(c)) \cup RetiredItems(m)
      BY <1>5, <2>2, ItemsJoin
    <2> QED BY <1>6, <2>1, <2>2, <2>3
  <1>8. ToSet(UninstallWork(r)) = UninstallItems(r)
    <2> HIDE DEF a, b, c
    <2> QED BY <1>2, <1>3, <1>4, <1>7 DEF UninstallItems
  <1> QED BY <1>7, <1>8

LEMMA OfflineWorkHas ==
    ASSUME NEW r \in Revs \cup {0}
    PROVE  OfflineWork(r) \in Seq(Items) /\ \A x \in ToSet(OfflineWork(r)) : x.do = "rm"
  <1> DEFINE none == [markers |-> <<>>, plugins |-> <<>>, helpers |-> <<>>]
             m == [tools |-> <<>>, helpers |-> <<>>, gated |-> <<>>,
                   retired |-> IF r = 0 THEN none ELSE ManifestAt[r].retired]
  <1>1. none \in Retirements /\ (r # 0 => ManifestAt[r].retired \in Retirements)
    BY ManifestHas, EmptySeq DEF Retirements
  <1>2. m \in Manifests
    <2> HIDE DEF none
    <2>1. (IF r = 0 THEN none ELSE ManifestAt[r].retired) \in Retirements
      BY <1>1
    <2> QED BY <2>1, EmptySeq DEF Manifests
  <1>3. OfflineWork(r) = RetiredWork(m)
    BY DEF OfflineWork
  <1> HIDE DEF m
  <1> QED BY <1>2, <1>3, RetiredWorkHas DEF RetiredItems, PluginRemovals, Rm, Item

\* What a pass that may not install has left to do.
OnlyRemovals(todo) == \A i \in DOMAIN todo : todo[i].do = "rm"

\* The three work lists are lists of items; those of a pass that may not
\* install are removals.
LEMMA WorkLists ==
    /\ \A r \in Revs : TickWork(r) \in Seq(Items) /\ UninstallWork(r) \in Seq(Items)
    /\ \A r \in Revs \cup {0} : OfflineWork(r) \in Seq(Items)
    /\ \A r \in Revs : OnlyRemovals(UninstallWork(r))
    /\ \A r \in Revs \cup {0} : OnlyRemovals(OfflineWork(r))
  <1>1. \A r \in Revs : \A x \in UninstallItems(r) : x.do = "rm"
    BY DEF UninstallItems, ToolRemovals, RetiredItems, PluginRemovals, Rm, Item
  <1>2. \A w : (\A x \in ToSet(w) : x.do = "rm") => OnlyRemovals(w)
    BY DEF ToSet, OnlyRemovals
  <1>3. \A r \in Revs : \A x \in ToSet(UninstallWork(r)) : x.do = "rm"
    BY <1>1, UninstallWorkHas
  <1>4. \A r \in Revs \cup {0} : \A x \in ToSet(OfflineWork(r)) : x.do = "rm"
    BY OfflineWorkHas
  <1> QED BY <1>2, <1>3, <1>4, TickWorkHas, UninstallWorkHas, OfflineWorkHas
-----------------------------------------------------------------------------
RemovalsOnly == \A p \in Procs :
    pass[p].pc = "work" /\ (pass[p].offline \/ pass[p].kind = "uninstall")
    => OnlyRemovals(pass[p].todo)

\* How far a pass is says what it is and what it knows.
Ordered(x) ==
    /\ x.pc \in {"mode", "manifest", "cache", "entry"} => ~x.offline
    /\ x.pc \in {"mode", "cache", "entry"} => x.kind # "uninstall"
    /\ x.pc \in {"cache", "entry"} => x.man # 0

IInv == /\ TypeOK
        /\ RemovalsOnly
        /\ \A p \in Procs : Ordered(pass[p])

LEMMA IdleIsPass == Idle \in Passes
  BY EmptySeq DEF Idle, Passes, Kinds

LEMMA TailIsSeq ==
    ASSUME NEW S, NEW s \in Seq(S), s # <<>>
    PROVE  /\ Tail(s) \in Seq(S) /\ Head(s) \in S /\ Head(s) = s[1] /\ 1 \in DOMAIN s
           /\ \A i \in DOMAIN Tail(s) : i + 1 \in DOMAIN s /\ Tail(s)[i] = s[i + 1]
  OBVIOUS

\* Writing a content at p's location keeps the disk a disk.
LEMMA PutTypes ==
    ASSUME TypeOK, NEW p \in Procs, NEW c \in Contents, NEW do, AtItem(p, do), Put(p, c)
    PROVE  disk' \in [Locs -> Contents]
  BY DEF TypeOK, HostTypes, Passes, AtItem, Put

LEMMA ContentsHave ==
    /\ Absent \in Contents /\ Altered \in Contents /\ Trusted \in Contents
    /\ \A r \in Revs : Copy(r) \in Contents
    /\ \A t \in Tools, r, m \in Revs : Block(t, r, m) \in Contents
  BY DEF Contents, Altered, Trusted

LEMMA InitIInv == Init => IInv
  <1> SUFFICES ASSUME Init PROVE IInv
    OBVIOUS
  <1>1. \A p \in Procs : pass[p] = Idle /\ pass[p].pc = "idle"
    BY DEF Init, Idle
  <1>2. TypeOK
    <2>1. disk \in [Locs -> Contents]
      BY ContentsHave DEF Init
    <2>2. pass \in [Procs -> Passes]
      BY IdleIsPass DEF Init
    <2>3. net \in BOOLEAN
      BY DEF Init
    <2>4. /\ up \in Revs /\ mode \in Modes /\ root \in SUBSET Tools /\ cached \in 0..MaxRev
          /\ run \in {"off", "first", "loop", "done"} /\ edits \in 0..MaxEdits
      BY DEF Init, Revs
    <2>5. HostTypes
      BY <2>1, <2>3, <2>4 DEF HostTypes
    <2> QED BY <1>1, <2>2, <2>5 DEF TypeOK, Informed
  <1> QED BY <1>1, <1>2 DEF IInv, RemovalsOnly, Ordered
-----------------------------------------------------------------------------
\* A pass's next state x, in the terms of the invariant.
Fine(x) == /\ x \in Passes
           /\ Informed(x) /\ Ordered(x)
           /\ x.pc = "work" /\ (x.offline \/ x.kind = "uninstall") => OnlyRemovals(x.todo)

LEMMA IdleIsFine == Fine(Idle)
  BY IdleIsPass DEF Fine, Informed, Ordered, Idle

LEMMA PassesFine == ASSUME IInv PROVE HostTypes /\ \A p \in Procs : Fine(pass[p])
  BY DEF IInv, TypeOK, RemovalsOnly, Fine

LEMMA PassesSame == ASSUME IInv, HostTypes', UNCHANGED pass PROVE IInv'
  BY DEF IInv, TypeOK, RemovalsOnly, Informed, Ordered, OnlyRemovals

\* A step that moves one pass and leaves the host well typed.
LEMMA OneMoves ==
    ASSUME IInv, HostTypes', NEW p \in Procs, NEW x, Fine(x), pass' = [pass EXCEPT ![p] = x]
    PROVE  IInv'
  <1>1. pass' \in [Procs -> Passes]
    BY DEF IInv, TypeOK, Fine
  <1>2. \A q \in Procs : Informed(pass'[q]) /\ Ordered(pass'[q])
    BY DEF IInv, TypeOK, Fine
  <1>3. \A q \in Procs : pass'[q].pc = "work" /\ (pass'[q].offline \/ pass'[q].kind = "uninstall")
                         => OnlyRemovals(pass'[q].todo)
    BY DEF IInv, TypeOK, RemovalsOnly, Fine
  <1> QED BY <1>1, <1>2, <1>3 DEF IInv, TypeOK, RemovalsOnly, Informed, Ordered, OnlyRemovals

LEMMA HostKept ==
    ASSUME HostTypes, UNCHANGED env, disk' \in [Locs -> Contents], cached' \in 0..MaxRev,
           run' \in {"off", "first", "loop", "done"}
    PROVE  HostTypes'
  BY DEF HostTypes, env

LEMMA HostUntouched ==
    ASSUME HostTypes, UNCHANGED <<env, disk, cached, run>>
    PROVE  HostTypes'
  BY DEF HostTypes, env

\* Going on to the next item.
LEMMA NextItemFine ==
    ASSUME NEW x, Fine(x), x.pc = "work", x.todo # <<>>
    PROVE  Fine([x EXCEPT !.todo = Tail(@)])
  <1> DEFINE y == [x EXCEPT !.todo = Tail(@)]
  <1>1. x \in Passes /\ x.todo \in Seq(Items)
    BY DEF Fine, Passes
  <1>2. Tail(x.todo) \in Seq(Items)
        /\ \A i \in DOMAIN Tail(x.todo) : i + 1 \in DOMAIN x.todo /\ Tail(x.todo)[i] = x.todo[i + 1]
    BY <1>1, TailIsSeq
  <1>3. /\ y \in Passes /\ y.todo = Tail(x.todo) /\ y.pc = x.pc /\ y.kind = x.kind
        /\ y.offline = x.offline /\ y.man = x.man /\ y.body = x.body
    BY <1>1, <1>2 DEF Passes
  <1>4. OnlyRemovals(x.todo) => OnlyRemovals(y.todo)
    BY <1>2, <1>3 DEF OnlyRemovals
  <1> QED BY <1>3, <1>4 DEF Fine, Informed, Ordered

LEMMA SkipFine ==
    ASSUME NEW x, Fine(x), NEW t \in Tools
    PROVE  Fine([x EXCEPT !.skip = @ \cup {t}])
  <1> DEFINE y == [x EXCEPT !.skip = @ \cup {t}]
  <1>1. /\ y \in Passes /\ y.todo = x.todo /\ y.pc = x.pc /\ y.kind = x.kind
        /\ y.offline = x.offline /\ y.man = x.man /\ y.body = x.body
    BY DEF Fine, Passes
  <1> QED BY <1>1 DEF Fine, Informed, Ordered
-----------------------------------------------------------------------------
LEMMA StepWorld ==
    ASSUME IInv,
           \/ Publish \/ NetChanges
           \/ \E m \in UserModes : SetMode(m)
           \/ \E l \in Locs : UserEdits(l)
           \/ \E t \in Tools : ToolComesOrGoes(t)
           \/ CheckMode
    PROVE  IInv'
  <1> USE PassesFine, PassesSame
  <1>1. CASE Publish
    BY <1>1 DEF Publish, HostTypes, Revs
  <1>2. CASE NetChanges
    BY <1>2 DEF NetChanges, HostTypes
  <1>3. ASSUME NEW m \in UserModes, SetMode(m) PROVE IInv'
    BY <1>3 DEF SetMode, HostTypes
  <1>4. ASSUME NEW l \in Locs, UserEdits(l) PROVE IInv'
    <2>1. disk' \in [Locs -> Contents]
      BY <1>4, ContentsHave DEF UserEdits, HostTypes
    <2>2. edits' \in 0..MaxEdits
      BY <1>4 DEF UserEdits, HostTypes
    <2> QED BY <1>4, <2>1, <2>2 DEF UserEdits, HostTypes
  <1>5. ASSUME NEW t \in Tools, ToolComesOrGoes(t) PROVE IInv'
    <2>1. disk' \in [Locs -> Contents] /\ root' \in SUBSET Tools
      BY <1>5, ContentsHave DEF ToolComesOrGoes, HostTypes
    <2>2. edits' \in 0..MaxEdits
      BY <1>5 DEF ToolComesOrGoes, HostTypes
    <2> QED BY <1>5, <2>1, <2>2 DEF ToolComesOrGoes, HostTypes
  <1>6. CASE CheckMode
    <2>1. run' \in {"off", "first", "loop", "done"}
      BY <1>6 DEF CheckMode
    <2> QED BY <1>6, <2>1, HostKept DEF CheckMode, HostTypes
  <1> QED BY <1>1, <1>2, <1>3, <1>4, <1>5, <1>6

LEMMA BeginFine ==
    ASSUME IInv, HostTypes', NEW p \in Procs, NEW k \in Kinds, Begin(p, k)
    PROVE  IInv'
  <1> DEFINE new == [Idle EXCEPT !.kind = k, !.pc = IF k = "uninstall" THEN "manifest" ELSE "mode",
                                 !.alone = k = "uninstall" /\ \A x \in Procs : ~Busy(x)]
  <1>1. /\ new \in Passes /\ new.pc \in {"mode", "manifest"} /\ ~new.offline
        /\ new.pc = "mode" => new.kind # "uninstall"
    BY IdleIsPass DEF Passes, Idle
  <1>2. Fine(new)
    BY <1>1 DEF Fine, Informed, Ordered
  <1>3. ASSUME NEW x, Fine(x) PROVE Fine([x EXCEPT !.alone = FALSE])
    <2> DEFINE y == [x EXCEPT !.alone = FALSE]
    <2>1. /\ y \in Passes /\ y.todo = x.todo /\ y.pc = x.pc /\ y.kind = x.kind
          /\ y.offline = x.offline /\ y.man = x.man /\ y.body = x.body
      BY <1>3 DEF Fine, Passes
    <2> QED BY <1>3, <2>1 DEF Fine, Informed, Ordered
  <1>4. pass' = [q \in Procs |-> IF q = p THEN new ELSE [pass[q] EXCEPT !.alone = FALSE]]
    BY DEF Begin
  <1>5. \A q \in Procs : Fine(pass'[q])
    BY <1>2, <1>3, <1>4, PassesFine
  <1>6. pass' \in [Procs -> Passes]
    BY <1>4, <1>5 DEF Fine
  <1> QED BY <1>5, <1>6 DEF IInv, TypeOK, RemovalsOnly, Fine, Informed, Ordered, OnlyRemovals

LEMMA StepBegin ==
    ASSUME IInv, Start \/ Ticker \/ (\E p \in Procs : \E k \in Commands : Command(p, k))
    PROVE  IInv'
  <1>1. CASE Start
    <2>1. HostTypes'
      BY <1>1, PassesFine, HostKept DEF Start, HostTypes
    <2> QED BY <1>1, <2>1, BeginFine DEF Start, Kinds
  <1>2. CASE Ticker
    <2>1. HostTypes'
      BY <1>2, PassesFine, HostUntouched DEF Ticker
    <2> QED BY <1>2, <2>1, BeginFine DEF Ticker, Kinds
  <1>3. ASSUME NEW p \in Procs, NEW k \in Commands, Command(p, k) PROVE IInv'
    <2>1. HostTypes'
      BY <1>3, PassesFine, HostUntouched DEF Command
    <2> QED BY <1>3, <2>1, BeginFine DEF Command, Kinds
  <1> QED BY <1>1, <1>2, <1>3

\* A pass that ends, however it ends.
LEMMA StepEnd ==
    ASSUME IInv, NEW p \in Procs, FetchEntryFails(p) \/ Finish(p) \/ Killed(p) \/ (p = Daemon /\ Down)
    PROVE  IInv'
  <1>1. HostTypes'
    BY PassesFine, HostKept DEF FetchEntryFails, Finish, Killed, Down, HostTypes
  <1> QED BY <1>1, OneMoves, IdleIsFine DEF FetchEntryFails, Finish, Killed, Down
-----------------------------------------------------------------------------
\* The steps before a pass has its work list.
LEMMA StepPrepare ==
    ASSUME IInv, NEW p \in Procs,
           ReadMode(p) \/ FetchManifest(p) \/ FetchManifestFails(p) \/ CacheManifest(p) \/ FetchEntry(p)
    PROVE  IInv'
  <1> USE PassesFine
  <1>0. pass[p] \in Passes /\ up \in Revs /\ cached \in 0..MaxRev /\ up \in 0..MaxRev /\ up # 0
        /\ cached \in Revs \cup {0} /\ (cached # 0 => cached \in Revs) /\ Ordered(pass[p])
    BY DEF Fine, HostTypes, Revs
  <1>1. CASE ReadMode(p)
    <2> DEFINE off == [pass[p] EXCEPT !.pc = "work", !.offline = TRUE, !.todo = OfflineWork(cached)]
               on == [pass[p] EXCEPT !.pc = "manifest"]
    <2>1. OfflineWork(cached) \in Seq(Items) /\ OnlyRemovals(OfflineWork(cached))
      BY <1>0, WorkLists
    <2>2. off \in Passes /\ off.todo = OfflineWork(cached) /\ off.offline
      BY <1>0, <2>1 DEF Passes
    <2>3. on \in Passes /\ on.pc = "manifest" /\ ~on.offline
      BY <1>0, <1>1 DEF Passes, ReadMode, Ordered
    <2>4. Fine(off) /\ Fine(on)
      BY <2>1, <2>2, <2>3 DEF Fine, Informed, Ordered
    <2>5. pass' = [pass EXCEPT ![p] = off] \/ pass' = [pass EXCEPT ![p] = on]
      BY <1>1 DEF ReadMode
    <2>6. HostTypes'
      BY <1>1, HostUntouched DEF ReadMode
    <2> QED BY <2>4, <2>5, <2>6, OneMoves
  <1>2. CASE FetchManifest(p)
    <2> DEFINE un == [pass[p] EXCEPT !.pc = "work", !.man = up, !.todo = UninstallWork(up)]
               ti == [pass[p] EXCEPT !.pc = "cache", !.man = up]
    <2>1. UninstallWork(up) \in Seq(Items) /\ OnlyRemovals(UninstallWork(up))
      BY <1>0, WorkLists
    <2>2. un \in Passes /\ un.todo = UninstallWork(up) /\ un.kind = pass[p].kind /\ un.pc = "work"
      BY <1>0, <2>1 DEF Passes
    <2>3. ti \in Passes /\ ti.pc = "cache" /\ ~ti.offline /\ ti.man = up /\ ti.kind = pass[p].kind
      BY <1>0, <1>2 DEF Passes, FetchManifest, Ordered
    <2>4. ASSUME pass[p].kind = "uninstall" PROVE Fine(un)
      BY <2>1, <2>2, <2>4 DEF Fine, Informed, Ordered, Passes
    <2>5. ASSUME pass[p].kind # "uninstall" PROVE Fine(ti)
      BY <1>0, <2>3, <2>5 DEF Fine, Informed, Ordered
    <2>6. pass' = [pass EXCEPT ![p] = IF pass[p].kind = "uninstall" THEN un ELSE ti]
      BY <1>2 DEF FetchManifest
    <2>7. HostTypes'
      BY <1>2, HostUntouched DEF FetchManifest
    <2> QED BY <2>4, <2>5, <2>6, <2>7, OneMoves
  <1>3. CASE FetchManifestFails(p)
    <2> DEFINE un == [pass[p] EXCEPT !.pc = "work", !.man = cached, !.offline = TRUE,
                                     !.todo = UninstallWork(cached)]
    <2>1. cached # 0 => UninstallWork(cached) \in Seq(Items) /\ OnlyRemovals(UninstallWork(cached))
      BY <1>0, WorkLists
    <2>2. cached # 0 => un \in Passes /\ un.todo = UninstallWork(cached) /\ un.offline
      BY <1>0, <2>1 DEF Passes
    <2>3. cached # 0 => Fine(un)
      BY <2>1, <2>2 DEF Fine, Informed, Ordered
    <2>4. pass' = [pass EXCEPT ![p] = Idle] \/ (cached # 0 /\ pass' = [pass EXCEPT ![p] = un])
      BY <1>3 DEF FetchManifestFails
    <2>5. HostTypes'
      BY <1>3, HostUntouched DEF FetchManifestFails
    <2> QED BY <2>3, <2>4, <2>5, OneMoves, IdleIsFine
  <1>4. CASE CacheManifest(p)
    <2> DEFINE x == [pass[p] EXCEPT !.pc = "entry"]
    <2>1. x \in Passes /\ x.pc # "work"
      BY <1>0 DEF Passes
    <2>2. Fine(x) /\ pass' = [pass EXCEPT ![p] = x]
      BY <1>4, <2>1 DEF Fine, Informed, Ordered, CacheManifest
    <2>3. cached' \in 0..MaxRev
      BY <1>0, <1>4 DEF CacheManifest, Passes
    <2>4. HostTypes'
      BY <1>4, <2>3, HostKept DEF CacheManifest, HostTypes
    <2> QED BY <2>2, <2>4, OneMoves
  <1>5. CASE FetchEntry(p)
    <2> DEFINE x == [pass[p] EXCEPT !.pc = "work", !.body = up, !.todo = TickWork(pass[p].man)]
    <2>1. /\ pass[p].pc = "entry" /\ pass[p].kind # "uninstall" /\ ~pass[p].offline
          /\ pass[p].man \in Revs /\ pass[p].man # 0
      BY <1>0, <1>5 DEF FetchEntry, Fine, Ordered, Passes, Revs
    <2>2. TickWork(pass[p].man) \in Seq(Items)
      BY <2>1, WorkLists
    <2>3. /\ x \in Passes /\ x.pc = "work" /\ x.kind = pass[p].kind /\ x.offline = pass[p].offline
          /\ x.man = pass[p].man /\ x.body = up
      BY <1>0, <2>2 DEF Passes
    <2>4. Fine(x)
      BY <1>0, <2>1, <2>3 DEF Fine, Informed, Ordered
    <2>5. pass' = [pass EXCEPT ![p] = x]
      BY <1>5 DEF FetchEntry
    <2>6. HostTypes'
      BY <1>0, <1>5, HostUntouched DEF FetchEntry
    <2> QED BY <2>4, <2>5, <2>6, OneMoves
  <1> QED BY <1>1, <1>2, <1>3, <1>4, <1>5
-----------------------------------------------------------------------------
LEMMA AdvanceFine ==
    ASSUME IInv, HostTypes', NEW p \in Procs, pass[p].pc = "work", pass[p].todo # <<>>, Advance(p)
    PROVE  IInv'
  <1>1. pass' = [pass EXCEPT ![p] = [pass[p] EXCEPT !.todo = Tail(@)]]
    BY DEF Advance
  <1> QED BY <1>1, PassesFine, NextItemFine, OneMoves

\* The items that write, or leave alone, one surface and go on.
LEMMA StepItem ==
    ASSUME IInv, NEW p \in Procs,
           PassOver(p) \/ Skill(p) \/ MarkerShared(p) \/ PluginFile(p) \/ Helper(p)
           \/ FetchFails(p) \/ Trust(p) \/ Gated(p) \/ RemoveSurface(p)
    PROVE  IInv'
  <1>0. HostTypes /\ pass[p] \in Passes /\ up \in Revs
    BY PassesFine DEF Fine, HostTypes
  <1>1. CASE PassOver(p) \/ MarkerShared(p) \/ FetchFails(p)
    <2>1. HostTypes'
      BY <1>0, <1>1, HostUntouched DEF PassOver, MarkerShared, FetchFails
    <2> QED BY <1>1, <2>1, AdvanceFine DEF PassOver, MarkerShared, FetchFails, AtItem
  <1>2. CASE Skill(p) \/ Gated(p)
    <2>1. Copy(pass[p].body) \in Contents
      <3>1. pass[p].body \in Revs \cup {0}
        BY <1>0 DEF Passes, Revs
      <3>2. Copy(0) = Altered
        BY DEF Copy, Altered
      <3> QED BY <3>1, <3>2, ContentsHave
    <2>2. disk' \in [Locs -> Contents]
      BY <1>2, <2>1, PutTypes DEF Skill, Gated, IInv
    <2>3. HostTypes'
      BY <1>0, <1>2, <2>2, HostKept DEF Skill, Gated, HostTypes
    <2> QED BY <1>2, <2>3, AdvanceFine DEF Skill, Gated, AtItem
  <1>3. CASE PluginFile(p) \/ Helper(p)
    <2>1. disk' \in [Locs -> Contents]
      BY <1>0, <1>3, ContentsHave, PutTypes DEF PluginFile, Helper, IInv
    <2>2. HostTypes'
      BY <1>0, <1>3, <2>1, HostKept DEF PluginFile, Helper, HostTypes
    <2> QED BY <1>3, <2>2, AdvanceFine DEF PluginFile, Helper, AtItem
  <1>4. CASE Trust(p) \/ RemoveSurface(p)
    <2>1. disk' \in [Locs -> Contents]
      BY <1>0, <1>4, ContentsHave, PutTypes DEF Trust, RemoveSurface, IInv
    <2>2. HostTypes'
      BY <1>0, <1>4, <2>1, HostKept DEF Trust, RemoveSurface, HostTypes
    <2> QED BY <1>4, <2>2, AdvanceFine DEF Trust, RemoveSurface, AtItem
  <1> QED BY <1>1, <1>2, <1>3, <1>4

\* The tool is skipped from here on.
LEMMA StepSkip ==
    ASSUME IInv, NEW p \in Procs, SkipTool(p) \/ MarkerFails(p)
    PROVE  IInv'
  <1> DEFINE x == [pass[p] EXCEPT !.todo = Tail(@)]
             y == [x EXCEPT !.skip = @ \cup {For(p)}]
  <1>1. /\ pass[p].pc = "work" /\ pass[p].todo # <<>> /\ Fine(pass[p])
        /\ pass[p].todo \in Seq(Items) /\ Head(pass[p].todo).do \in {"skill", "marker"}
    BY PassesFine DEF SkipTool, MarkerFails, AtItem, Fine, Passes
  <1>2. For(p) \in Tools
    BY <1>1, TailIsSeq DEF Items, For
  <1>3. Fine(y)
    BY <1>1, <1>2, NextItemFine, SkipFine
  <1>4. pass' = [pass EXCEPT ![p] = y]
    BY <1>1 DEF SkipTool, MarkerFails, Fine, Passes
  <1>5. HostTypes'
    BY PassesFine, HostUntouched DEF SkipTool, MarkerFails
  <1> QED BY <1>3, <1>4, <1>5, OneMoves

\* A pass with an installing item at the head is an installing pass.
LEMMA InstallingItem ==
    ASSUME IInv, NEW p \in Procs, NEW do, AtItem(p, do), do # "rm"
    PROVE  /\ ~pass[p].offline /\ pass[p].kind # "uninstall"
           /\ pass[p].man \in Revs /\ pass[p].body \in Revs
  <1>1. /\ Fine(pass[p]) /\ pass[p].pc = "work" /\ pass[p].todo # <<>>
        /\ pass[p].todo \in Seq(Items) /\ Head(pass[p].todo).do = do
    BY PassesFine DEF AtItem, Fine, Passes
  <1>2. ~OnlyRemovals(pass[p].todo)
    BY <1>1, TailIsSeq DEF OnlyRemovals
  <1> QED BY <1>1, <1>2 DEF Fine, Informed, Passes, Revs

LEMMA StepMarker ==
    ASSUME IInv, NEW p \in Procs, Marker(p)
    PROVE  IInv'
  <1> DEFINE f == At(p)[2]
             x == [pass[p] EXCEPT !.todo = Tail(@)]
             y == [x EXCEPT !.owner[f] = For(p)]
  <1>1. /\ pass[p].pc = "work" /\ pass[p].todo # <<>> /\ Fine(pass[p]) /\ pass[p] \in Passes
        /\ pass[p].todo \in Seq(Items) /\ Head(pass[p].todo).do = "marker"
    BY PassesFine DEF Marker, AtItem, Fine, Passes
  <1>2. For(p) \in Tools /\ f \in Files
    BY <1>1, TailIsSeq DEF Items, For, At
  <1>3. Fine(x)
    BY <1>1, NextItemFine
  <1>4. /\ y \in Passes /\ y.todo = x.todo /\ y.pc = x.pc /\ y.kind = x.kind
        /\ y.offline = x.offline /\ y.man = x.man /\ y.body = x.body
    BY <1>2, <1>3 DEF Fine, Passes
  <1>5. Fine(y)
    BY <1>3, <1>4 DEF Fine, Informed, Ordered
  <1>6. pass' = [pass EXCEPT ![p] = y]
    BY <1>1, <1>2 DEF Marker, Passes
  <1>7. Block(For(p), pass[p].body, up) \in Contents
    BY <1>2, InstallingItem, ContentsHave, PassesFine DEF Marker, HostTypes
  <1>8. disk' \in [Locs -> Contents]
    BY <1>7, PutTypes DEF Marker, IInv
  <1>9. HostTypes'
    BY <1>8, PassesFine, HostKept DEF Marker, HostTypes
  <1> QED BY <1>5, <1>6, <1>9, OneMoves
-----------------------------------------------------------------------------
LEMMA StepIInv == IInv /\ [Next]_vars => IInv'
  <1> SUFFICES ASSUME IInv, [Next]_vars PROVE IInv'
    OBVIOUS
  <1>1. ASSUME NEW p \in Procs, Step(p) PROVE IInv'
    BY <1>1, StepPrepare, StepEnd, StepItem, StepSkip, StepMarker DEF Step
  <1>2. ASSUME NEW p \in Procs, Killed(p) PROVE IInv'
    BY <1>2, StepEnd
  <1>3. CASE Down
    BY <1>3, StepEnd
  <1>4. CASE UNCHANGED vars
    BY <1>4, PassesFine, PassesSame DEF vars, HostTypes
  <1> QED BY <1>1, <1>2, <1>3, <1>4, StepWorld, StepBegin DEF Next

\* Every variable keeps its type, and a pass that installs has read its
\* manifest and its SKILL.md (tick, skillinject.go:232-253).
THEOREM TypeCorrect == Spec => []TypeOK
  <1>1. IInv => TypeOK
    BY DEF IInv
  <1> QED BY <1>1, InitIInv, StepIInv, PTL DEF Spec

\* Only a pass that got past its mode check, or one that previews, works on
\* an item that installs.
LEMMA OnlyInstallersInstall ==
    ASSUME IInv, NEW p \in Procs, NEW do, AtItem(p, do), do # "rm", ~Installing(p)
    PROVE  pass[p].kind = "plan"
  BY InstallingItem, PassesFine DEF Installing, AtItem, Fine, Passes, Kinds

\* What a pass that is not installing does to the disk.
LEMMA ShyStep ==
    ASSUME IInv, NEW p \in Procs, Step(p), ~Installing(p), NEW l \in Locs
    PROVE  ~Appears(l)
  <1>1. CASE UNCHANGED disk
    BY <1>1 DEF Appears
  <1>2. ASSUME NEW c, NEW do, AtItem(p, do), do # "rm", Put(p, c) PROVE UNCHANGED disk
    BY <1>2, OnlyInstallersInstall DEF Put
  <1>3. CASE Skill(p) \/ Marker(p) \/ PluginFile(p) \/ Helper(p) \/ Trust(p) \/ Gated(p)
    BY <1>1, <1>2, <1>3 DEF Skill, Marker, PluginFile, Helper, Trust, Gated
  <1>4. CASE RemoveSurface(p)
    BY <1>4, PassesFine DEF RemoveSurface, Put, Appears, HostTypes
  <1>5. CASE \/ ReadMode(p) \/ FetchManifest(p) \/ FetchManifestFails(p) \/ CacheManifest(p)
             \/ FetchEntry(p) \/ FetchEntryFails(p) \/ SkipTool(p) \/ PassOver(p)
             \/ MarkerShared(p) \/ MarkerFails(p) \/ FetchFails(p) \/ Finish(p)
    BY <1>1, <1>5 DEF ReadMode, FetchManifest, FetchManifestFails, CacheManifest, FetchEntry,
       FetchEntryFails, SkipTool, PassOver, MarkerShared, MarkerFails, FetchFails, Finish
  <1> QED BY <1>3, <1>4, <1>5 DEF Step

-----------------------------------------------------------------------------
\* A pass's step moves no other pass, and a previewing pass leaves the
\* surfaces and the cached manifest alone.
LEMMA PlanStep ==
    ASSUME NEW q \in Procs, Step(q) \/ Killed(q), pass \in [Procs -> Passes]
    PROVE  /\ \A p \in Procs \ {q} : pass'[p] = pass[p]
           /\ pass[q].kind = "plan" => UNCHANGED <<disk, cached>>
  <1>1. CASE Skill(q) \/ Marker(q) \/ PluginFile(q) \/ Helper(q) \/ Trust(q) \/ Gated(q)
             \/ RemoveSurface(q)
    BY <1>1 DEF Skill, Marker, PluginFile, Helper, Trust, Gated, RemoveSurface, Put, Advance
  <1>2. CASE CacheManifest(q)
    BY <1>2 DEF CacheManifest
  <1>3. CASE \/ ReadMode(q) \/ FetchManifest(q) \/ FetchManifestFails(q)
             \/ FetchEntry(q) \/ FetchEntryFails(q)
    BY <1>3 DEF ReadMode, FetchManifest, FetchManifestFails, FetchEntry, FetchEntryFails
  <1>4. CASE SkipTool(q) \/ PassOver(q) \/ MarkerShared(q) \/ MarkerFails(q) \/ FetchFails(q)
             \/ Finish(q) \/ Killed(q)
    BY <1>4 DEF SkipTool, PassOver, MarkerShared, MarkerFails, FetchFails, Finish, Killed, Advance
  <1> QED BY <1>1, <1>2, <1>3, <1>4 DEF Step

\* A step of a pass that finds the mode disabled lets it install only if it
\* could before.
LEMMA NoNewInstaller ==
    ASSUME IInv, NEW p \in Procs, Step(p) \/ Killed(p), mode = "disabled", Installing(p)'
    PROVE  Installing(p)
  <1>0. Fine(pass[p]) /\ pass[p] \in Passes /\ pass \in [Procs -> Passes]
    BY PassesFine DEF Fine, IInv, TypeOK
  <1>1. CASE ReadMode(p)
    <2>1. pass[p].kind # "plan" => pass'[p].offline
      BY <1>0, <1>1 DEF ReadMode, Passes
    <2>2. pass'[p].kind = pass[p].kind
      BY <1>0, <1>1 DEF ReadMode, Passes
    <2> QED BY <2>1, <2>2 DEF Installing
  <1>2. CASE FetchManifest(p) \/ CacheManifest(p) \/ FetchEntry(p)
    <2>1. CASE FetchManifest(p)
      <3> DEFINE un == [pass[p] EXCEPT !.pc = "work", !.man = up, !.todo = UninstallWork(up)]
                 ti == [pass[p] EXCEPT !.pc = "cache", !.man = up]
      <3>1. pass'[p] = un \/ pass'[p] = ti
        BY <1>0, <2>1 DEF FetchManifest
      <3>2. /\ un.kind = pass[p].kind /\ un.offline = pass[p].offline
            /\ ti.kind = pass[p].kind /\ ti.offline = pass[p].offline
        BY <1>0 DEF Passes
      <3>3. pass[p].pc = "manifest"
        BY <2>1 DEF FetchManifest
      <3> HIDE DEF un, ti
      <3> QED BY <3>1, <3>2, <3>3 DEF Installing
    <2>2. CASE CacheManifest(p) \/ FetchEntry(p)
      <3>1. /\ pass'[p].kind = pass[p].kind /\ pass'[p].offline = pass[p].offline
            /\ pass[p].pc \in {"cache", "entry"}
        BY <1>0, <2>2 DEF CacheManifest, FetchEntry, Passes
      <3> QED BY <3>1 DEF Installing
    <2> QED BY <1>2, <2>1, <2>2
  <1>3. CASE FetchManifestFails(p) \/ FetchEntryFails(p) \/ Finish(p) \/ Killed(p)
    <2> DEFINE un == [pass[p] EXCEPT !.pc = "work", !.man = cached, !.offline = TRUE,
                                     !.todo = UninstallWork(cached)]
    <2>1. pass'[p] = Idle \/ pass'[p] = un
      BY <1>0, <1>3 DEF FetchManifestFails, FetchEntryFails, Finish, Killed
    <2>2. un.offline
      BY <1>0 DEF Passes
    <2> HIDE DEF un
    <2> QED BY <2>1, <2>2 DEF Installing, Idle
  <1>4. CASE \/ SkipTool(p) \/ PassOver(p) \/ Skill(p) \/ MarkerShared(p) \/ Marker(p)
             \/ MarkerFails(p) \/ PluginFile(p) \/ Helper(p) \/ FetchFails(p) \/ Trust(p)
             \/ Gated(p) \/ RemoveSurface(p)
    <2>1. pass[p].pc = "work"
      BY <1>4 DEF SkipTool, PassOver, Skill, MarkerShared, Marker, MarkerFails, PluginFile,
         Helper, FetchFails, Trust, Gated, RemoveSurface, AtItem
    <2>2. pass'[p].kind = pass[p].kind /\ pass'[p].offline = pass[p].offline
      <3>1. CASE SkipTool(p) \/ MarkerFails(p)
        BY <1>0, <3>1 DEF SkipTool, MarkerFails, Passes
      <3>2. CASE Marker(p)
        BY <1>0, <3>2 DEF Marker, Passes
      <3>3. CASE Advance(p)
        BY <1>0, <3>3 DEF Advance, Passes
      <3>4. Advance(p) \/ SkipTool(p) \/ MarkerFails(p) \/ Marker(p)
        BY <1>4 DEF PassOver, Skill, MarkerShared, PluginFile, Helper, FetchFails, Trust, Gated, RemoveSurface
      <3> QED BY <3>1, <3>2, <3>3, <3>4
    <2> QED BY <2>1, <2>2 DEF Installing
  <1> QED BY <1>1, <1>2, <1>3, <1>4 DEF Step

LEMMA BeginInstallsNothing ==
    ASSUME IInv, NEW q \in Procs, NEW k, Begin(q, k), NEW p \in Procs, Installing(p)'
    PROVE  Installing(p)
  <1>1. pass[p] \in Passes
    BY DEF IInv, TypeOK
  <1>2. CASE p = q
    <2> DEFINE pc0 == IF k = "uninstall" THEN "manifest" ELSE "mode"
               new == [Idle EXCEPT !.kind = k, !.pc = pc0,
                                   !.alone = k = "uninstall" /\ \A x \in Procs : ~Busy(x)]
    <2>1. pass'[p] = new
      BY <1>2 DEF Begin
    <2>2. new.kind = k /\ new.pc = pc0
      BY DEF Idle
    <2> QED BY <2>1, <2>2 DEF Installing
  <1>3. CASE p # q
    <2>1. pass'[p] = [pass[p] EXCEPT !.alone = FALSE]
      BY <1>3 DEF Begin
    <2>2. pass'[p].kind = pass[p].kind /\ pass'[p].pc = pass[p].pc /\ pass'[p].offline = pass[p].offline
      BY <1>1, <2>1 DEF Passes
    <2> QED BY <2>2 DEF Installing
  <1> QED BY <1>2, <1>3

\* While the mode is disabled no further pass gets to install, and with no
\* pass left that was past its mode check nothing appears.
THEOREM OptOut == Spec => OptOutHolds
  <1>1. ASSUME IInv, [Next]_vars, \A p \in Procs : ~Installing(p), NEW l \in Locs
        PROVE  ~Appears(l)
    <2>1. CASE \E x \in Locs : UserEdits(x)
      BY <1>1, <2>1, PassesFine DEF UserEdits, Appears, HostTypes
    <2>2. CASE \E t \in Tools : ToolComesOrGoes(t)
      BY <1>1, <2>2, PassesFine DEF ToolComesOrGoes, Appears, HostTypes
    <2>3. CASE \E p \in Procs : Step(p)
      BY <1>1, <2>3, ShyStep
    <2>4. CASE UNCHANGED disk
      BY <2>4 DEF Appears
    <2>5. ASSUME \/ Publish \/ NetChanges \/ \E m \in UserModes : SetMode(m)
                 \/ \E p \in Procs : Killed(p) \/ \E k \in Commands : Command(p, k)
                 \/ Start \/ CheckMode \/ Ticker \/ Down \/ UNCHANGED vars
          PROVE  UNCHANGED disk
      BY <2>5 DEF Publish, NetChanges, SetMode, Killed, Command, Start, CheckMode, Ticker, Down, vars
    <2> QED BY <1>1, <2>1, <2>2, <2>3, <2>4, <2>5 DEF Next
  <1>2. ASSUME IInv, [Next]_vars, mode = "disabled", NEW p \in Procs, Installing(p)'
        PROVE  Installing(p)
    <2>1. CASE UNCHANGED pass
      BY <1>2, <2>1 DEF Installing
    <2>2. ASSUME NEW q \in Procs, Step(q) \/ Killed(q) PROVE Installing(p)
      <3>1. CASE p = q
        BY <1>2, <2>2, <3>1, NoNewInstaller
      <3>2. CASE p # q
        BY <1>2, <2>2, <3>2, PlanStep DEF IInv, TypeOK, Installing
      <3> QED BY <3>1, <3>2
    <2>3. CASE Start \/ Ticker \/ \E q \in Procs : \E k \in Commands : Command(q, k)
      BY <1>2, <2>3, BeginInstallsNothing DEF Start, Ticker, Command
    <2>4. CASE Down
      BY <1>2, <2>4 DEF Down, Installing, Idle, IInv, TypeOK
    <2>5. ASSUME \/ Publish \/ NetChanges \/ \E m \in UserModes : SetMode(m)
                 \/ \E l \in Locs : UserEdits(l)
                 \/ \E t \in Tools : ToolComesOrGoes(t)
                 \/ CheckMode \/ UNCHANGED vars
          PROVE  UNCHANGED pass
      BY <2>5 DEF Publish, NetChanges, SetMode, UserEdits, ToolComesOrGoes, CheckMode, vars
    <2> QED BY <1>2, <2>1, <2>2, <2>3, <2>4, <2>5 DEF Next
  <1>3. IInv /\ [Next]_vars
        => [mode = "disabled" =>
              /\ \A p \in Procs : Installing(p)' => Installing(p)
              /\ (\A p \in Procs : ~Installing(p)) => \A l \in Locs : ~Appears(l)]_vars
    BY <1>1, <1>2
  <1> QED BY <1>3, InitIInv, StepIInv, PTL DEF Spec, OptOutHolds

\* No step of a preview changes a surface or the cached manifest (Plan,
\* skillinject.go:181-191; the dry-run conditions of tick).
THEOREM PlanLeaves == Spec => PlanLeavesSurfaces
  <1>1. ASSUME IInv, [Next]_vars, NEW p \in Procs, pass[p].kind = "plan", pass'[p] # pass[p]
        PROVE  UNCHANGED <<disk, cached>>
    <2>1. ASSUME NEW q \in Procs, Step(q) \/ Killed(q) PROVE UNCHANGED <<disk, cached>>
      BY <1>1, <2>1, PlanStep DEF IInv, TypeOK
    <2>2. CASE \/ \E q \in Procs : \E k \in Commands : Command(q, k)
               \/ Start \/ CheckMode \/ Ticker \/ Down
      BY <2>2 DEF Command, Start, CheckMode, Ticker, Down
    <2>3. CASE \/ Publish \/ NetChanges \/ \E m \in UserModes : SetMode(m)
               \/ \E l \in Locs : UserEdits(l)
               \/ \E t \in Tools : ToolComesOrGoes(t)
               \/ UNCHANGED vars
      BY <1>1, <2>3 DEF Publish, NetChanges, SetMode, UserEdits, ToolComesOrGoes, vars
    <2> QED BY <1>1, <2>1, <2>2, <2>3 DEF Next
  <1>2. IInv /\ [Next]_vars
        => [\A p \in Procs : pass[p].kind = "plan" /\ pass'[p] # pass[p] /\ pass'[p].pc # "mode"
                              => UNCHANGED <<disk, cached>>]_vars
    BY <1>1
  <1> QED BY <1>2, InitIInv, StepIInv, PTL DEF Spec, PlanLeavesSurfaces
-----------------------------------------------------------------------------
(***************************************************************************)
(* An Uninstall that meets no other pass.  Whatever a revision up to the   *)
(* one it works from manages is on its list, but for forgotten copies; all *)
(* that is on disk was managed by a revision published, and cached, before *)
(* it was written.                                                         *)
(***************************************************************************)
On(l, todo) == \E x \in ToSet(todo) : x.loc = l

LEMMA UninstallCovers ==
    ASSUME NEW r \in Revs
    PROVE  LET m == ManifestAt[r] IN
           /\ \A h \in ToSet(m.helpers) : On(<<"helper", h>>, UninstallWork(r))
           /\ \A t \in ToSet(m.tools) :
                 /\ On(<<"skill", t>>, UninstallWork(r))
                 /\ FileOf[t] # None => On(<<"marker", FileOf[t]>>, UninstallWork(r))
                 /\ \A f \in ToSet(PluginFilesOf(t)) : On(<<"file", f>>, UninstallWork(r))
                 /\ PluginOf[t] # None => On(<<"trust", PluginOf[t]>>, UninstallWork(r))
           /\ \A g \in ToSet(m.gated) \cap Attested : On(<<"gated", g>>, UninstallWork(r))
           /\ \A f \in (ToSet(Builtin.markers) \cup ToSet(m.retired.markers)) \ ActiveFiles(m) :
                 On(<<"marker", f>>, UninstallWork(r))
           /\ \A p \in (ToSet(Builtin.plugins) \cup ToSet(m.retired.plugins)) \ ActivePlugins(m) :
                 /\ On(<<"trust", p>>, UninstallWork(r))
                 /\ \A f \in ToSet(FilesOf[p]) : On(<<"file", f>>, UninstallWork(r))
           /\ \A h \in (ToSet(Builtin.helpers) \cup ToSet(m.retired.helpers)) \ ToSet(m.helpers) :
                 On(<<"helper", h>>, UninstallWork(r))
  <1> DEFINE m == ManifestAt[r]
  <1>1. \A l : Rm(l) \in UninstallItems(r) => On(l, UninstallWork(r))
    BY UninstallWorkHas DEF On, Rm, Item
  <1>2. \A x : x \in RetiredItems(m) => x \in UninstallItems(r)
    BY DEF UninstallItems
  <1>3. \A t \in ToSet(m.tools) : \A x \in ToolRemovals(t) : x \in UninstallItems(r)
    BY DEF UninstallItems
  <1>4. /\ \A h \in ToSet(m.helpers) : Rm(<<"helper", h>>) \in UninstallItems(r)
        /\ \A g \in ToSet(m.gated) \cap Attested : Rm(<<"gated", g>>) \in UninstallItems(r)
    BY DEF UninstallItems
  <1>5. \A t \in Tools :
            /\ Rm(<<"skill", t>>) \in ToolRemovals(t)
            /\ FileOf[t] # None => Rm(<<"marker", FileOf[t]>>) \in ToolRemovals(t)
            /\ \A f \in ToSet(PluginFilesOf(t)) : Rm(<<"file", f>>) \in ToolRemovals(t)
            /\ PluginOf[t] # None => Rm(<<"trust", PluginOf[t]>>) \in ToolRemovals(t)
    BY DEF ToolRemovals
  <1>6. /\ \A f \in (ToSet(Builtin.markers) \cup ToSet(m.retired.markers)) \ ActiveFiles(m) :
              Rm(<<"marker", f>>) \in RetiredItems(m)
        /\ \A p \in (ToSet(Builtin.plugins) \cup ToSet(m.retired.plugins)) \ ActivePlugins(m) :
              Rm(<<"trust", p>>) \in RetiredItems(m) /\ \A f \in ToSet(FilesOf[p]) : Rm(<<"file", f>>) \in RetiredItems(m)
        /\ \A h \in (ToSet(Builtin.helpers) \cup ToSet(m.retired.helpers)) \ ToSet(m.helpers) :
              Rm(<<"helper", h>>) \in RetiredItems(m)
    <2>1. \A p : Rm(<<"trust", p>>) \in PluginRemovals(p) /\ \A f \in ToSet(FilesOf[p]) : Rm(<<"file", f>>) \in PluginRemovals(p)
      BY DEF PluginRemovals
    <2> QED BY <2>1 DEF RetiredItems
  <1>7. ToSet(m.tools) \subseteq Tools
    BY ManifestHas, SeqHas
  <1> HIDE DEF m
  <1>8. \A t \in ToSet(m.tools) :
            /\ On(<<"skill", t>>, UninstallWork(r))
            /\ FileOf[t] # None => On(<<"marker", FileOf[t]>>, UninstallWork(r))
            /\ \A f \in ToSet(PluginFilesOf(t)) : On(<<"file", f>>, UninstallWork(r))
            /\ PluginOf[t] # None => On(<<"trust", PluginOf[t]>>, UninstallWork(r))
    BY <1>1, <1>3, <1>5, <1>7
  <1> QED BY <1>1, <1>2, <1>4, <1>6, <1>8 DEF m

\* The surfaces of revision r, by their kind.
LEMMA ManagedIs ==
    ASSUME NEW r \in Revs, NEW l \in Managed(r)
    PROVE  LET m == ManifestAt[r] IN
           \/ \E h \in ToSet(m.helpers) : l = <<"helper", h>>
           \/ \E g \in ToSet(m.gated) \cap Attested : l = <<"gated", g>>
           \/ \E t \in ToSet(m.tools) :
                 \/ l = <<"skill", t>>
                 \/ FileOf[t] # None /\ l = <<"marker", FileOf[t]>>
                 \/ \E f \in ToSet(PluginFilesOf(t)) : l = <<"file", f>>
                 \/ PluginOf[t] # None /\ l = <<"trust", PluginOf[t]>>
  <1>1. PICK x \in TickItems(r) : x.do # "rm" /\ l = x.loc
    BY TickWorkHas DEF Managed
  <1>2. x \notin RetiredItems(ManifestAt[r])
    BY <1>1 DEF RetiredItems, PluginRemovals, Rm, Item
  <1>3. CASE \E h \in ToSet(ManifestAt[r].helpers) : x = Item("helper", <<"helper", h>>, None)
    BY <1>1, <1>3 DEF Item
  <1>4. CASE \E g \in ToSet(ManifestAt[r].gated) \cap Attested : x = Item("gated", <<"gated", g>>, None)
    BY <1>1, <1>4 DEF Item
  <1>5. ASSUME NEW t \in ToSet(ManifestAt[r].tools), x \in ToolItems(t)
        PROVE  \/ l = <<"skill", t>>
               \/ FileOf[t] # None /\ l = <<"marker", FileOf[t]>>
               \/ \E f \in ToSet(PluginFilesOf(t)) : l = <<"file", f>>
               \/ PluginOf[t] # None /\ l = <<"trust", PluginOf[t]>>
    BY <1>1, <1>5 DEF ToolItems, Item
  <1>6. \/ \E h \in ToSet(ManifestAt[r].helpers) : x = Item("helper", <<"helper", h>>, None)
        \/ \E g \in ToSet(ManifestAt[r].gated) \cap Attested : x = Item("gated", <<"gated", g>>, None)
        \/ \E t \in ToSet(ManifestAt[r].tools) : x \in ToolItems(t)
    BY <1>2 DEF TickItems
  <1> QED BY <1>3, <1>4, <1>5, <1>6

\* Nothing of an earlier revision but forgotten copies escapes Uninstall.
LEMMA Accounted ==
    ASSUME NEW r \in Revs, NEW q \in 1..r, NEW l \in Managed(q)
    PROVE  On(l, UninstallWork(r)) \/ l \in Forgotten(r)
  <1> DEFINE new == ManifestAt[r]
             old == ManifestAt[q]
  <1>1. q \in Revs
    BY DEF Revs
  <1>2. /\ ActiveFiles(old) \ {None}
              \subseteq ActiveFiles(new) \cup ToSet(Builtin.markers) \cup ToSet(new.retired.markers)
        /\ ActivePlugins(old) \ {None}
              \subseteq ActivePlugins(new) \cup ToSet(Builtin.plugins) \cup ToSet(new.retired.plugins)
        /\ ToSet(old.helpers)
              \subseteq ToSet(new.helpers) \cup ToSet(Builtin.helpers) \cup ToSet(new.retired.helpers)
    BY RetirementAssumption
  <1>3. CASE \E h \in ToSet(old.helpers) : l = <<"helper", h>>
    BY <1>2, <1>3, UninstallCovers
  <1>4. CASE \E g \in ToSet(old.gated) \cap Attested : l = <<"gated", g>>
    <2>1. PICK g \in ToSet(old.gated) \cap Attested : l = <<"gated", g>>
      BY <1>4
    <2>2. g \notin ToSet(new.gated) => l \in Forgotten(r)
      BY <2>1 DEF Forgotten
    <2> QED BY <2>1, <2>2, UninstallCovers
  <1>5. ASSUME NEW t \in ToSet(old.tools), l = <<"skill", t>> PROVE On(l, UninstallWork(r)) \/ l \in Forgotten(r)
    <2>1. t \notin ToSet(new.tools) => l \in Forgotten(r)
      BY <1>5 DEF Forgotten
    <2> QED BY <1>5, <2>1, UninstallCovers
  <1>6. ASSUME NEW t \in ToSet(old.tools), FileOf[t] # None, l = <<"marker", FileOf[t]>> PROVE On(l, UninstallWork(r))
    <2>1. FileOf[t] \in ActiveFiles(old) \ {None}
      BY <1>6 DEF ActiveFiles
    <2>2. CASE FileOf[t] \in ActiveFiles(new)
      <3>1. PICK u \in ToSet(new.tools) : FileOf[u] = FileOf[t]
        BY <2>2 DEF ActiveFiles
      <3> QED BY <1>6, <3>1, UninstallCovers
    <2>3. CASE FileOf[t] \notin ActiveFiles(new)
      <3>1. FileOf[t] \in (ToSet(Builtin.markers) \cup ToSet(new.retired.markers)) \ ActiveFiles(new)
        BY <1>2, <2>1, <2>3
      <3> QED BY <1>6, <3>1, UninstallCovers
    <2> QED BY <2>2, <2>3
  <1>7. ASSUME NEW t \in ToSet(old.tools), PluginOf[t] # None,
               l = <<"trust", PluginOf[t]>> \/ \E f \in ToSet(PluginFilesOf(t)) : l = <<"file", f>>
        PROVE  On(l, UninstallWork(r))
    <2>1. PluginOf[t] \in ActivePlugins(old) \ {None}
      BY <1>7 DEF ActivePlugins
    <2>2. CASE PluginOf[t] \in ActivePlugins(new)
      <3>1. PICK u \in ToSet(new.tools) : PluginOf[u] = PluginOf[t]
        BY <2>2 DEF ActivePlugins
      <3>2. PluginFilesOf(u) = PluginFilesOf(t)
        BY <3>1 DEF PluginFilesOf
      <3>3. /\ PluginOf[u] # None => On(<<"trust", PluginOf[u]>>, UninstallWork(r))
            /\ \A f \in ToSet(PluginFilesOf(u)) : On(<<"file", f>>, UninstallWork(r))
        BY <3>1, UninstallCovers
      <3>4. /\ On(<<"trust", PluginOf[t]>>, UninstallWork(r))
            /\ \A f \in ToSet(PluginFilesOf(t)) : On(<<"file", f>>, UninstallWork(r))
        BY <1>7, <3>1, <3>2, <3>3
      <3> QED BY <1>7, <3>4
    <2>3. CASE PluginOf[t] \notin ActivePlugins(new)
      <3>1. PluginOf[t] \in (ToSet(Builtin.plugins) \cup ToSet(new.retired.plugins)) \ ActivePlugins(new)
        BY <1>2, <2>1, <2>3
      <3>2. PluginFilesOf(t) = FilesOf[PluginOf[t]]
        BY <1>7 DEF PluginFilesOf
      <3>3. /\ On(<<"trust", PluginOf[t]>>, UninstallWork(r))
            /\ \A f \in ToSet(FilesOf[PluginOf[t]]) : On(<<"file", f>>, UninstallWork(r))
        BY <3>1, UninstallCovers
      <3> QED BY <1>7, <3>2, <3>3
    <2> QED BY <2>2, <2>3
  <1>8. \A t : PluginOf[t] = None => ToSet(PluginFilesOf(t)) = {}
    BY UnitHas DEF PluginFilesOf
  <1> HIDE DEF new
  <1> QED BY <1>1, <1>3, <1>4, <1>5, <1>6, <1>7, <1>8, ManagedIs
-----------------------------------------------------------------------------
From(l, r) == \E q \in 1..r : l \in Managed(q)

\* What is known was published, and a pass that installs goes over the list
\* of the manifest it read.
Known ==
    /\ cached <= up
    /\ \A p \in Procs :
        /\ pass[p].man <= up
        /\ pass[p].pc = "mode" => pass[p].man = 0
        /\ pass[p].pc = "work" /\ ~pass[p].offline /\ pass[p].kind # "uninstall"
             => ToSet(pass[p].todo) \subseteq ToSet(TickWork(pass[p].man))

\* Without a pilotctl that ticks, what is cached is the latest that was used.
DaemonCaches ==
    /\ pass[Daemon].kind = "tick"
    /\ "tick" \notin Commands =>
         /\ \A p \in Procs \ {Daemon} : pass[p].kind = "tick" => pass[p].pc = "idle"
         /\ pass[Daemon].pc = "cache" => cached <= pass[Daemon].man
         /\ pass[Daemon].pc \in {"entry", "work"} => pass[Daemon].man <= cached

Horizon == IF "tick" \in Commands THEN up ELSE cached
Installed == \A l \in Locs : disk[l] # Absent => From(l, Horizon)

LoneUninstall == \A p \in Procs : pass[p].alone =>
    /\ pass[p].kind = "uninstall" /\ pass[p].pc \in {"manifest", "work"}
    /\ pass[p].pc = "work" => pass[p].man # 0
    /\ \A q \in Procs \ {p} : pass[q].pc = "idle"

\* What a lone Uninstall x has still to do.
Leaves(x, l) == /\ On(l, x.todo) \/ ~On(l, UninstallWork(x.man))
                /\ From(l, x.man) \/ ("tick" \in Commands /\ x.offline)
Removing == \A p \in Procs : pass[p].alone /\ pass[p].pc = "work" =>
                \A l \in Locs : disk[l] # Absent => Leaves(pass[p], l)

UInv == IInv /\ Known /\ DaemonCaches /\ Installed /\ LoneUninstall /\ Removing

LEMMA FromGrows ==
    ASSUME NEW l, NEW a \in Nat, NEW b \in Nat, a <= b, From(l, a)
    PROVE  From(l, b)
  BY DEF From

\* The numbers of revisions that the arguments compare.
LEMMA Numbers ==
    ASSUME IInv
    PROVE  /\ up \in Revs /\ up \in Nat /\ up <= MaxRev /\ cached \in 0..MaxRev /\ cached \in Nat
           /\ \A p \in Procs : pass[p] \in Passes /\ pass[p].man \in 0..MaxRev /\ pass[p].man \in Nat
           /\ Horizon \in Nat
  BY PassesFine DEF HostTypes, Revs, Fine, Passes, Horizon

LEMMA UInvInit == Init => UInv
  <1> SUFFICES ASSUME Init PROVE UInv
    OBVIOUS
  <1>1. \A p \in Procs : pass[p] = Idle
    BY DEF Init
  <1>2. Idle.pc = "idle" /\ Idle.kind = "tick" /\ Idle.man = 0 /\ ~Idle.alone
    BY DEF Idle
  <1>3. Known
    BY <1>1, <1>2 DEF Known, Init
  <1>4. DaemonCaches
    BY <1>1, <1>2 DEF DaemonCaches
  <1>5. Installed
    BY DEF Installed, Init
  <1> QED BY <1>1, <1>2, <1>3, <1>4, <1>5, InitIInv DEF UInv, LoneUninstall, Removing

\* The passes stay as they are and nothing new comes on disk.
LEMMA UWorld ==
    ASSUME UInv, IInv', UNCHANGED <<pass, cached>>, up' >= up,
           \A l \in Locs : disk'[l] # Absent => disk[l] # Absent
    PROVE  UInv'
  <1>1. /\ IInv /\ up \in Nat /\ up' \in Nat /\ cached \in Nat /\ Horizon \in Nat /\ Horizon' \in Nat
        /\ \A p \in Procs : pass[p].man \in Nat
    BY Numbers DEF UInv, IInv, TypeOK, HostTypes, Revs, Horizon
  <1>2. Known'
    BY <1>1 DEF UInv, Known
  <1>3. DaemonCaches'
    BY DEF UInv, DaemonCaches
  <1>4. Installed'
    <2>1. Horizon <= Horizon'
      BY <1>1 DEF Horizon
    <2>2. \A l : From(l, Horizon) => From(l, Horizon')
      BY <1>1, <2>1, FromGrows
    <2> QED BY <2>2 DEF UInv, Installed
  <1>5. LoneUninstall' /\ Removing'
    BY DEF UInv, LoneUninstall, Removing, Leaves
  <1> QED BY <1>2, <1>3, <1>4, <1>5 DEF UInv

\* A pass under way moves to x: what the invariant asks of x, and of what
\* the step caches and writes.
Moves(p, x) ==
    /\ pass[p].pc # "idle" /\ pass' = [pass EXCEPT ![p] = x] /\ UNCHANGED up
    /\ x.kind = pass[p].kind /\ x.pc # "mode"
    /\ x.alone => pass[p].alone /\ x.pc \in {"manifest", "work"}
    /\ cached' <= up /\ x.man <= up
    /\ x.pc = "work" /\ ~x.offline /\ x.kind # "uninstall" => ToSet(x.todo) \subseteq ToSet(TickWork(x.man))
    /\ "tick" \notin Commands =>
         /\ p = Daemon => /\ x.pc = "cache" => cached' <= x.man
                          /\ x.pc \in {"entry", "work"} => x.man <= cached'
         /\ p # Daemon => UNCHANGED cached
         /\ cached <= cached'
    /\ \A l \in Locs : disk'[l] # Absent => disk[l] # Absent \/ From(l, Horizon')
    /\ x.alone /\ x.pc = "work" => x.man # 0 /\ \A l \in Locs : disk'[l] # Absent => Leaves(x, l)

\* No other pass is a lone Uninstall, then.
LEMMA UMoves ==
    ASSUME UInv, IInv', NEW p \in Procs, NEW x, Moves(p, x)
    PROVE  UInv'
  <1> USE DEF Moves
  <1>1. /\ IInv /\ up \in Nat /\ cached \in Nat /\ cached' \in Nat /\ Horizon \in Nat /\ Horizon' \in Nat
        /\ pass \in [Procs -> Passes]
    BY Numbers DEF UInv, IInv, TypeOK, HostTypes, Revs, Horizon
  <1>2. pass'[p] = x /\ \A q \in Procs \ {p} : pass'[q] = pass[q]
    BY <1>1
  <1>3. \A q \in Procs \ {p} : ~pass[q].alone
    BY DEF UInv, LoneUninstall
  <1>4. Known'
    BY <1>1, <1>2 DEF UInv, Known
  <1>5. DaemonCaches'
    BY <1>1, <1>2 DEF UInv, DaemonCaches
  <1>6. Installed'
    <2>1. Horizon <= Horizon'
      BY <1>1 DEF Horizon
    <2>2. \A l : From(l, Horizon) => From(l, Horizon')
      BY <1>1, <2>1, FromGrows
    <2> QED BY <2>2 DEF UInv, Installed
  <1>7. LoneUninstall'
    <2>1. pass[p].alone => pass[p].kind = "uninstall" /\ \A q \in Procs \ {p} : pass[q].pc = "idle"
      BY DEF UInv, LoneUninstall
    <2>2. x.alone => x.kind = "uninstall"
      BY <2>1
    <2> QED BY <1>2, <1>3, <2>1, <2>2 DEF LoneUninstall
  <1>8. Removing'
    BY <1>2, <1>3 DEF Removing, Leaves
  <1> QED BY <1>4, <1>5, <1>6, <1>7, <1>8 DEF UInv

\* A pass ends, however it ends.
LEMMA UEnds ==
    ASSUME UInv, IInv', NEW p \in Procs, pass' = [pass EXCEPT ![p] = Idle], UNCHANGED <<up, disk, cached>>
    PROVE  UInv'
  <1>1. /\ Idle.pc = "idle" /\ Idle.kind = "tick" /\ Idle.man = 0 /\ ~Idle.alone
        /\ pass \in [Procs -> Passes] /\ up \in Nat
    BY Numbers DEF Idle, UInv, IInv, TypeOK
  <1>2. pass'[p] = Idle /\ \A q \in Procs \ {p} : pass'[q] = pass[q]
    BY <1>1
  <1>3. Known'
    BY <1>1, <1>2 DEF UInv, Known
  <1>4. DaemonCaches'
    BY <1>1, <1>2 DEF UInv, DaemonCaches
  <1>5. Installed'
    BY DEF UInv, Installed, Horizon, From
  <1>6. LoneUninstall'
    BY <1>1, <1>2 DEF UInv, LoneUninstall
  <1>7. Removing'
    BY <1>1, <1>2 DEF UInv, Removing, Leaves
  <1> QED BY <1>3, <1>4, <1>5, <1>6, <1>7 DEF UInv

\* A pass begins: it has read nothing, and another is not alone any more.
LEMMA UBegins ==
    ASSUME UInv, IInv', NEW p \in Procs, NEW k \in Kinds, Begin(p, k), UNCHANGED <<up, disk, cached>>,
           IF p = Daemon THEN k = "tick" ELSE k \in Commands
    PROVE  UInv'
  <1> DEFINE new == [Idle EXCEPT !.kind = k, !.pc = IF k = "uninstall" THEN "manifest" ELSE "mode",
                                 !.alone = k = "uninstall" /\ \A x \in Procs : ~Busy(x)]
  <1>1. /\ new.kind = k /\ new.man = 0 /\ new.pc \in {"mode", "manifest"}
        /\ new.alone <=> k = "uninstall" /\ \A x \in Procs : ~Busy(x)
        /\ new.alone => new.pc = "manifest"
    BY DEF Idle
  <1>2. pass'[p] = new /\ \A q \in Procs \ {p} : pass'[q] = [pass[q] EXCEPT !.alone = FALSE]
    BY DEF Begin
  <1> HIDE DEF new
  <1>3. ASSUME NEW q \in Procs \ {p}
        PROVE  /\ ~pass'[q].alone /\ pass'[q].kind = pass[q].kind /\ pass'[q].pc = pass[q].pc
               /\ pass'[q].man = pass[q].man /\ pass'[q].todo = pass[q].todo /\ pass'[q].offline = pass[q].offline
    <2>1. pass[q] \in Passes
      BY Numbers DEF UInv
    <2>2. pass'[q] = [pass[q] EXCEPT !.alone = FALSE]
      BY <1>2
    <2> QED BY <2>1, <2>2 DEF Passes
  <1>4. /\ up \in Nat /\ new.man <= up
    BY <1>1, Numbers DEF UInv
  <1>5. Known'
    BY <1>1, <1>2, <1>3, <1>4 DEF UInv, Known
  <1>6. DaemonCaches'
    <2>1. pass'[Daemon].kind = "tick"
      BY <1>1, <1>2, <1>3 DEF UInv, DaemonCaches
    <2>2. ASSUME "tick" \notin Commands, NEW q \in Procs \ {Daemon}, pass'[q].kind = "tick" PROVE pass'[q].pc = "idle"
      BY <1>1, <1>2, <1>3, <2>2 DEF UInv, DaemonCaches
    <2>3. ASSUME "tick" \notin Commands
          PROVE  /\ pass'[Daemon].pc = "cache" => cached' <= pass'[Daemon].man
                 /\ pass'[Daemon].pc \in {"entry", "work"} => pass'[Daemon].man <= cached'
      BY <1>1, <1>2, <1>3, <2>3 DEF UInv, DaemonCaches
    <2> QED BY <2>1, <2>2, <2>3 DEF DaemonCaches
  <1>7. Installed'
    BY DEF UInv, Installed, Horizon, From
  <1>8. LoneUninstall'
    <2>1. new.alone => \A q \in Procs \ {p} : pass'[q].pc = "idle"
      BY <1>1, <1>3 DEF Busy
    <2> QED BY <1>1, <1>2, <1>3, <2>1 DEF LoneUninstall
  <1>9. Removing'
    BY <1>1, <1>2, <1>3 DEF Removing
  <1> QED BY <1>5, <1>6, <1>7, <1>8, <1>9 DEF UInv

\* An Uninstall that gets its list is at the start of it.
LEMMA UListed ==
    ASSUME UInv, NEW p \in Procs, NEW r \in Revs, NEW x, x.todo = UninstallWork(r), x.man = r,
           Horizon <= r \/ ("tick" \in Commands /\ x.offline), NEW l \in Locs, disk[l] # Absent
    PROVE  Leaves(x, l)
  <1>1. Horizon \in Nat /\ r \in Nat
    BY Numbers DEF UInv, Revs
  <1>2. From(l, Horizon)
    BY DEF UInv, Installed
  <1> QED BY <1>1, <1>2, FromGrows DEF Leaves

LEMMA UPrepares ==
    ASSUME UInv, IInv', NEW p \in Procs,
           ReadMode(p) \/ FetchManifest(p) \/ FetchManifestFails(p) \/ CacheManifest(p) \/ FetchEntry(p)
    PROVE  UInv'
  <1>0. /\ IInv /\ pass[p] \in Passes /\ Ordered(pass[p]) /\ up \in Nat /\ up \in Revs /\ pass[p].man \in Nat
        /\ cached \in Nat /\ cached <= up /\ pass[p].man <= up /\ (cached # 0 => cached \in Revs)
    BY Numbers, PassesFine DEF UInv, Known, Fine, Revs
  <1>1. \A l \in Locs : UNCHANGED disk => (disk'[l] # Absent => disk[l] # Absent)
    OBVIOUS
  <1>2. pass[p].alone => pass[p].kind = "uninstall" /\ pass[p].pc \in {"manifest", "work"}
    BY DEF UInv, LoneUninstall
  <1>3. p = Daemon => pass[p].kind = "tick"
    BY DEF UInv, DaemonCaches
  <1>4. "tick" \notin Commands /\ pass[p].kind = "tick" /\ pass[p].pc # "idle" => p = Daemon
    BY DEF UInv, DaemonCaches
  <1>5. CASE ReadMode(p)
    <2> DEFINE off == [pass[p] EXCEPT !.pc = "work", !.offline = TRUE, !.todo = OfflineWork(cached)]
               on == [pass[p] EXCEPT !.pc = "manifest"]
               x == IF mode = "disabled" /\ pass[p].kind # "plan" THEN off ELSE on
    <2>1. pass[p].pc = "mode" /\ UNCHANGED <<up, disk, cached>> /\ pass' = [pass EXCEPT ![p] = x]
      BY <1>5 DEF ReadMode, env
    <2>2. /\ x.kind = pass[p].kind /\ x.alone = pass[p].alone /\ x.man = pass[p].man /\ x.pc \in {"manifest", "work"}
          /\ x.pc = "work" => x.offline
      BY <1>0 DEF Passes
    <2> HIDE DEF x
    <2>3. ~pass[p].alone /\ pass[p].man = 0
      BY <1>2, <2>1 DEF UInv, Known
    <2>4. Moves(p, x)
      BY <1>0, <2>1, <2>2, <2>3 DEF Moves
    <2> QED BY <2>4, UMoves
  <1>6. CASE FetchManifest(p)
    <2> DEFINE un == [pass[p] EXCEPT !.pc = "work", !.man = up, !.todo = UninstallWork(up)]
               ti == [pass[p] EXCEPT !.pc = "cache", !.man = up]
               x == IF pass[p].kind = "uninstall" THEN un ELSE ti
    <2>1. pass[p].pc = "manifest" /\ UNCHANGED <<up, disk, cached>> /\ pass' = [pass EXCEPT ![p] = x]
      BY <1>6 DEF FetchManifest, env
    <2>2. /\ x.kind = pass[p].kind /\ x.alone = pass[p].alone /\ x.man = up /\ x.offline = pass[p].offline
          /\ IF pass[p].kind = "uninstall" THEN x.pc = "work" /\ x.todo = UninstallWork(up) ELSE x.pc = "cache"
      BY <1>0 DEF Passes
    <2> HIDE DEF x
    <2>3. Horizon <= up
      BY <1>0 DEF Horizon
    <2>4. \A l \in Locs : disk[l] # Absent /\ pass[p].kind = "uninstall" => Leaves(x, l)
      BY <1>0, <2>2, <2>3, UListed
    <2>5. Moves(p, x)
      BY <1>0, <1>2, <1>3, <2>1, <2>2, <2>4 DEF Moves, Revs
    <2> QED BY <2>5, UMoves
  <1>7. CASE FetchManifestFails(p) /\ ~(pass[p].kind = "uninstall" /\ cached # 0)
    BY <1>7, UEnds DEF FetchManifestFails, env
  <1>8. CASE FetchManifestFails(p) /\ pass[p].kind = "uninstall" /\ cached # 0
    <2> DEFINE x == [pass[p] EXCEPT !.pc = "work", !.man = cached, !.offline = TRUE, !.todo = UninstallWork(cached)]
    <2>1. pass[p].pc = "manifest" /\ UNCHANGED <<up, disk, cached>> /\ pass' = [pass EXCEPT ![p] = x]
      BY <1>8 DEF FetchManifestFails, env
    <2>2. /\ x.kind = pass[p].kind /\ x.alone = pass[p].alone /\ x.man = cached /\ x.offline
          /\ x.pc = "work" /\ x.todo = UninstallWork(cached)
      BY <1>0 DEF Passes
    <2> HIDE DEF x
    <2>3. Horizon <= cached \/ "tick" \in Commands
      BY <1>0 DEF Horizon
    <2>4. \A l \in Locs : disk[l] # Absent => Leaves(x, l)
      BY <1>0, <1>8, <2>2, <2>3, UListed
    <2>5. Moves(p, x)
      BY <1>0, <1>3, <1>8, <2>1, <2>2, <2>4 DEF Moves
    <2> QED BY <2>5, UMoves
  <1>9. CASE CacheManifest(p)
    <2> DEFINE x == [pass[p] EXCEPT !.pc = "entry"]
    <2>1. /\ pass[p].pc = "cache" /\ UNCHANGED <<up, disk>> /\ pass' = [pass EXCEPT ![p] = x]
          /\ cached' = IF pass[p].kind = "plan" THEN cached ELSE pass[p].man
      BY <1>9 DEF CacheManifest, env
    <2>2. /\ x.kind = pass[p].kind /\ x.alone = pass[p].alone /\ x.man = pass[p].man /\ x.pc = "entry"
      BY <1>0 DEF Passes
    <2> HIDE DEF x
    <2>3. pass[p].kind \in {"tick", "plan"} /\ ~pass[p].alone
      BY <1>0, <1>2, <2>1 DEF Ordered, Passes, Kinds
    <2>4. "tick" \notin Commands /\ p = Daemon => cached <= pass[p].man
      BY <2>1 DEF UInv, DaemonCaches
    <2>5. "tick" \notin Commands /\ p # Daemon => cached' = cached
      BY <1>4, <2>1, <2>3
    <2>6. Moves(p, x)
      BY <1>0, <1>3, <2>1, <2>2, <2>3, <2>4, <2>5 DEF Moves
    <2> QED BY <2>6, UMoves
  <1>10. CASE FetchEntry(p)
    <2> DEFINE x == [pass[p] EXCEPT !.pc = "work", !.body = up, !.todo = TickWork(pass[p].man)]
    <2>1. /\ pass[p].pc = "entry" /\ UNCHANGED <<up, disk, cached>> /\ pass' = [pass EXCEPT ![p] = x]
      BY <1>10 DEF FetchEntry, env
    <2>2. /\ x.kind = pass[p].kind /\ x.alone = pass[p].alone /\ x.man = pass[p].man /\ x.pc = "work"
          /\ x.todo = TickWork(pass[p].man)
      BY <1>0 DEF Passes
    <2> HIDE DEF x
    <2>3. ~pass[p].alone
      BY <1>2, <2>1
    <2>4. "tick" \notin Commands /\ p = Daemon => pass[p].man <= cached
      BY <2>1 DEF UInv, DaemonCaches
    <2>5. Moves(p, x)
      BY <1>0, <2>1, <2>2, <2>3, <2>4 DEF Moves
    <2> QED BY <2>5, UMoves
  <1> QED BY <1>5, <1>6, <1>7, <1>8, <1>9, <1>10
-----------------------------------------------------------------------------
\* One item: the pass goes on to the next, and at most its location changes.
ItemStep(p) == \/ SkipTool(p) \/ PassOver(p) \/ Skill(p) \/ MarkerShared(p) \/ Marker(p) \/ MarkerFails(p)
               \/ PluginFile(p) \/ Helper(p) \/ FetchFails(p) \/ Trust(p) \/ Gated(p) \/ RemoveSurface(p)

\* An Uninstall's items are removals, and no tool of theirs is skipped.
LEMMA UninstallRemoves ==
    ASSUME IInv, NEW p \in Procs, ItemStep(p), pass[p].kind = "uninstall"
    PROVE  RemoveSurface(p)
  <1>1. /\ pass[p].pc = "work" /\ pass[p].todo # <<>> /\ Fine(pass[p])
        /\ pass[p].todo \in Seq(Items) /\ pass[p].skip \in SUBSET Tools
    BY PassesFine DEF ItemStep, SkipTool, PassOver, Skill, MarkerShared, Marker, MarkerFails, PluginFile, Helper,
       FetchFails, Trust, Gated, RemoveSurface, AtItem, Fine, Passes
  <1>2. Head(pass[p].todo) \in Items /\ Head(pass[p].todo).do = "rm"
    BY <1>1, TailIsSeq DEF Fine, OnlyRemovals
  <1>3. For(p) = None
    BY <1>2 DEF Items, For
  <1> QED BY <1>1, <1>2, <1>3 DEF ItemStep, SkipTool, PassOver, Skill, MarkerShared, Marker, MarkerFails, PluginFile,
       Helper, FetchFails, Trust, Gated, AtItem

\* The items that install are those of a tick or a preview.
LEMMA ItemWrites ==
    ASSUME IInv, NEW p \in Procs, ItemStep(p)
    PROVE  /\ pass[p].pc = "work" /\ pass[p].todo # <<>> /\ UNCHANGED <<up, cached>>
           /\ \A l \in Locs : l # At(p) => disk'[l] = disk[l]
           /\ \A l \in Locs : disk'[l] # Absent => disk[l] # Absent
                                 \/ (l = At(p) /\ Head(pass[p].todo).do # "rm" /\ pass[p].kind = "tick" /\ ~pass[p].offline)
           /\ pass[p].kind = "uninstall" => \A l \in Locs : l = At(p) => disk'[l] = Absent
  <1>0. disk \in [Locs -> Contents] /\ pass[p] \in Passes
    BY PassesFine DEF HostTypes, Fine
  <1>1. CASE SkipTool(p) \/ PassOver(p) \/ MarkerShared(p) \/ MarkerFails(p) \/ FetchFails(p)
    <2>1. pass[p].pc = "work" /\ pass[p].todo # <<>> /\ UNCHANGED <<up, cached, disk>>
      BY <1>1 DEF SkipTool, PassOver, MarkerShared, MarkerFails, FetchFails, AtItem, env
    <2>2. pass[p].kind # "uninstall"
      <3>1. ASSUME pass[p].kind = "uninstall" PROVE FALSE
        <4>1. Fine(pass[p]) /\ pass[p].todo \in Seq(Items) /\ pass[p].skip \in SUBSET Tools
          BY PassesFine DEF Fine, Passes
        <4>2. Head(pass[p].todo) \in Items /\ Head(pass[p].todo).do = "rm"
          BY <2>1, <3>1, <4>1, TailIsSeq DEF Fine, OnlyRemovals
        <4>3. For(p) = None
          BY <4>2 DEF Items, For
        <4> QED BY <1>1, <4>1, <4>2, <4>3 DEF SkipTool, PassOver, MarkerShared, MarkerFails, FetchFails, AtItem
      <3> QED BY <3>1
    <2> QED BY <2>1, <2>2
  <1>2. ASSUME NEW do \in {"skill", "marker", "file", "helper", "trust", "gated"}, NEW c, AtItem(p, do), Put(p, c),
               UNCHANGED <<up, cached>>
        PROVE  /\ pass[p].pc = "work" /\ pass[p].todo # <<>> /\ UNCHANGED <<up, cached>>
               /\ \A l \in Locs : l # At(p) => disk'[l] = disk[l]
               /\ \A l \in Locs : disk'[l] # Absent => disk[l] # Absent
                     \/ (l = At(p) /\ Head(pass[p].todo).do # "rm" /\ pass[p].kind = "tick" /\ ~pass[p].offline)
               /\ pass[p].kind # "uninstall"
    <2>1. ~pass[p].offline /\ pass[p].kind \in {"tick", "plan"}
      BY <1>0, <1>2, InstallingItem DEF Passes, Kinds
    <2>2. pass[p].pc = "work" /\ pass[p].todo # <<>> /\ Head(pass[p].todo).do # "rm"
      BY <1>2 DEF AtItem
    <2>3. \A l \in Locs : l # At(p) => disk'[l] = disk[l]
      BY <1>0, <1>2 DEF Put
    <2>4. pass[p].kind = "plan" => disk' = disk
      BY <1>2 DEF Put
    <2> QED BY <1>2, <2>1, <2>2, <2>3, <2>4
  <1>3. CASE Skill(p) \/ Marker(p) \/ PluginFile(p) \/ Helper(p) \/ Trust(p) \/ Gated(p)
    BY <1>2, <1>3 DEF Skill, Marker, PluginFile, Helper, Trust, Gated, env
  <1>4. CASE RemoveSurface(p)
    <2>1. /\ pass[p].pc = "work" /\ pass[p].todo # <<>> /\ UNCHANGED <<up, cached>>
          /\ disk' = IF pass[p].kind = "plan" THEN disk ELSE [disk EXCEPT ![At(p)] = Absent]
      BY <1>4 DEF RemoveSurface, AtItem, Put, env
    <2>2. pass[p].kind = "uninstall" => disk' = [disk EXCEPT ![At(p)] = Absent]
      BY <2>1
    <2> QED BY <1>0, <2>1, <2>2
  <1> QED BY <1>1, <1>3, <1>4 DEF ItemStep

\* Whatever the item, the pass is the same but for what it has left to do,
\* the tools it skips and the blocks it owns.
LEMMA ItemMoves ==
    ASSUME IInv, NEW p \in Procs, ItemStep(p)
    PROVE  \E x : /\ pass' = [pass EXCEPT ![p] = x]
                  /\ x.todo = Tail(pass[p].todo) /\ x.pc = "work" /\ x.kind = pass[p].kind /\ x.man = pass[p].man
                  /\ x.offline = pass[p].offline /\ x.alone = pass[p].alone /\ x.body = pass[p].body
  <1>0. pass[p] \in Passes /\ pass[p].pc = "work"
    BY PassesFine, ItemWrites DEF Fine
  <1> DEFINE z == [pass[p] EXCEPT !.todo = Tail(@)]
             sk == [pass[p] EXCEPT !.todo = Tail(@), !.skip = @ \cup {For(p)}]
             ow == [pass[p] EXCEPT !.todo = Tail(@), !.owner[At(p)[2]] = For(p)]
  <1>1. pass' = [pass EXCEPT ![p] = z] \/ pass' = [pass EXCEPT ![p] = sk] \/ pass' = [pass EXCEPT ![p] = ow]
    BY DEF ItemStep, SkipTool, PassOver, Skill, MarkerShared, Marker, MarkerFails, PluginFile,
         Helper, FetchFails, Trust, Gated, RemoveSurface, Advance
  <1>2. \A x \in {z, sk, ow} :
            /\ x.todo = Tail(pass[p].todo) /\ x.pc = "work" /\ x.kind = pass[p].kind /\ x.man = pass[p].man
            /\ x.offline = pass[p].offline /\ x.alone = pass[p].alone /\ x.body = pass[p].body
    BY <1>0 DEF Passes
  <1> HIDE DEF z, sk, ow
  <1> QED BY <1>1, <1>2

LEMMA UItems ==
    ASSUME UInv, IInv', NEW p \in Procs, ItemStep(p)
    PROVE  UInv'
  <1>1. PICK x : /\ pass' = [pass EXCEPT ![p] = x]
                 /\ x.todo = Tail(pass[p].todo) /\ x.pc = "work" /\ x.kind = pass[p].kind /\ x.man = pass[p].man
                 /\ x.offline = pass[p].offline /\ x.alone = pass[p].alone
    BY ItemMoves DEF UInv
  <1>2. /\ pass[p].pc = "work" /\ pass[p].todo # <<>> /\ UNCHANGED <<up, cached>>
        /\ \A l \in Locs : l # At(p) => disk'[l] = disk[l]
        /\ \A l \in Locs : disk'[l] # Absent => disk[l] # Absent
                 \/ (l = At(p) /\ Head(pass[p].todo).do # "rm" /\ pass[p].kind = "tick" /\ ~pass[p].offline)
        /\ pass[p].kind = "uninstall" => \A l \in Locs : l = At(p) => disk'[l] = Absent
    BY ItemWrites DEF UInv
  <1>3. /\ IInv /\ up \in Nat /\ cached \in Nat /\ cached <= up /\ pass[p].man \in Nat /\ pass[p].man <= up
        /\ pass[p].man \in 0..MaxRev /\ pass[p].todo \in Seq(Items) /\ Horizon \in Nat
    BY Numbers DEF UInv, Known, Passes
  <1>4. ToSet(pass[p].todo) = {Head(pass[p].todo)} \cup ToSet(Tail(pass[p].todo))
    BY <1>2, <1>3, HeadTailHas
  <1>5. ASSUME NEW l \in Locs, l = At(p), Head(pass[p].todo).do # "rm", pass[p].kind = "tick", ~pass[p].offline
        PROVE  From(l, Horizon')
    <2>1. ToSet(pass[p].todo) \subseteq ToSet(TickWork(pass[p].man))
      BY <1>2, <1>5 DEF UInv, Known
    <2>2. l \in Managed(pass[p].man)
      BY <1>4, <1>5, <2>1 DEF Managed, At
    <2>3. pass[p].man # 0
      BY <1>2, <1>5, PassesFine, <1>3 DEF Fine, Informed
    <2>4. "tick" \notin Commands => pass[p].man <= cached
      BY <1>2, <1>5 DEF UInv, DaemonCaches
    <2>5. pass[p].man \in 1..Horizon' /\ Horizon' \in Nat
      BY <1>2, <1>3, <2>3, <2>4 DEF Horizon
    <2> QED BY <2>2, <2>5 DEF From
  <1>6. ASSUME pass[p].alone, NEW l \in Locs, disk'[l] # Absent PROVE Leaves(x, l)
    <2>1. pass[p].kind = "uninstall"
      BY <1>6 DEF UInv, LoneUninstall
    <2>2. l # At(p) /\ disk[l] # Absent
      BY <1>2, <1>6, <2>1
    <2>3. Leaves(pass[p], l)
      BY <1>2, <1>6, <2>2 DEF UInv, Removing
    <2>4. On(l, pass[p].todo) => On(l, Tail(pass[p].todo))
      BY <1>4, <2>2 DEF On, At
    <2> QED BY <1>1, <2>3, <2>4 DEF Leaves
  <1>7. pass[p].alone => pass[p].man # 0
    BY <1>2 DEF UInv, LoneUninstall
  <1>8. "tick" \notin Commands /\ p = Daemon => pass[p].man <= cached
    BY <1>2 DEF UInv, DaemonCaches
  <1>9. ToSet(x.todo) \subseteq ToSet(pass[p].todo)
    BY <1>1, <1>4
  <1>10. pass[p].kind # "uninstall" /\ ~pass[p].offline => ToSet(pass[p].todo) \subseteq ToSet(TickWork(pass[p].man))
    BY <1>2 DEF UInv, Known
  <1>11. Moves(p, x)
    BY <1>1, <1>2, <1>3, <1>5, <1>6, <1>7, <1>8, <1>9, <1>10 DEF Moves
  <1> QED BY <1>11, UMoves

LEMMA StepUInv == UInv /\ [Next]_vars => UInv'
  <1> SUFFICES ASSUME UInv, [Next]_vars PROVE UInv'
    OBVIOUS
  <1>0. IInv' /\ IInv
    BY StepIInv DEF UInv
  <1>1. up \in Nat /\ disk \in [Locs -> Contents]
    BY <1>0, Numbers, PassesFine DEF HostTypes
  <1>2. ASSUME NEW p \in Procs, Step(p) PROVE UInv'
    <2>1. CASE FetchEntryFails(p) \/ Finish(p)
      BY <1>0, <2>1, UEnds DEF FetchEntryFails, Finish, env
    <2> QED BY <1>0, <1>2, <2>1, UPrepares, UItems DEF Step, ItemStep
  <1>3. ASSUME NEW p \in Procs, Killed(p) PROVE UInv'
    BY <1>0, <1>3, UEnds DEF Killed, env
  <1>4. CASE Down
    BY <1>0, <1>4, UEnds DEF Down, env
  <1>5. CASE Start \/ Ticker
    BY <1>0, <1>5, UBegins DEF Start, Ticker, env, Kinds
  <1>6. ASSUME NEW p \in Procs, NEW k \in Commands, Command(p, k) PROVE UInv'
    BY <1>0, <1>6, UBegins DEF Command, env
  <1>7. CASE Publish \/ NetChanges \/ (\E m \in UserModes : SetMode(m)) \/ CheckMode \/ UNCHANGED vars
    BY <1>0, <1>1, <1>7, UWorld DEF Publish, NetChanges, SetMode, CheckMode, vars, env
  <1>8. ASSUME NEW l \in Locs, UserEdits(l) PROVE UInv'
    BY <1>0, <1>1, <1>8, UWorld DEF UserEdits
  <1>9. ASSUME NEW t \in Tools, ToolComesOrGoes(t) PROVE UInv'
    BY <1>0, <1>1, <1>9, UWorld DEF ToolComesOrGoes
  <1> QED BY <1>2, <1>3, <1>4, <1>5, <1>6, <1>7, <1>8, <1>9 DEF Next

\* An Uninstall that met no other pass, and was not cut short, leaves nothing
\* of any revision behind but forgotten copies (uninstall.go:50-178); offline,
\* with pilotctl ticking too, nor what only later manifests than the cached
\* one manage.
THEOREM UninstallIsClean == Spec => UninstallClean
  <1>1. ASSUME UInv, NEW p \in Procs, pass[p].kind = "uninstall", pass[p].alone, Finish(p),
               NEW l \in Locs, disk[l] # Absent
        PROVE  \/ l \in Forgotten(pass[p].man)
               \/ "tick" \in Commands /\ pass[p].offline /\ l \in Unseen(pass[p].man)
    <2>1. /\ pass[p].pc = "work" /\ pass[p].todo = <<>>
      BY <1>1 DEF Finish
    <2>2. Leaves(pass[p], l)
      BY <1>1, <2>1 DEF UInv, Removing
    <2>3. pass[p].man \in Revs
      BY <1>1, <2>1, Numbers DEF UInv, LoneUninstall, Revs
    <2>4. ~On(l, UninstallWork(pass[p].man))
      BY <2>1, <2>2, UnitHas DEF Leaves, On
    <2>5. From(l, pass[p].man) => l \in Forgotten(pass[p].man)
      BY <2>3, <2>4, Accounted DEF From
    <2>6. ~From(l, pass[p].man) => l \in Unseen(pass[p].man)
      <3>1. From(l, MaxRev)
        BY <1>1, Numbers, FromGrows DEF UInv, Installed, Horizon, Known
      <3>2. ASSUME ~From(l, pass[p].man) PROVE l \in Unseen(pass[p].man)
        <4>1. PICK q \in 1..MaxRev : l \in Managed(q)
          BY <3>1 DEF From
        <4>2. q \in (pass[p].man + 1)..MaxRev
          BY <2>3, <3>2, <4>1 DEF From, Revs
        <4>3. l \notin UNION {Managed(i) : i \in 1..pass[p].man}
          BY <3>2 DEF From
        <4>4. l \in UNION {Managed(i) : i \in (pass[p].man + 1)..MaxRev}
          BY <4>1, <4>2
        <4> QED BY <4>3, <4>4 DEF Unseen
      <3> QED BY <3>2
    <2> QED BY <2>2, <2>5, <2>6 DEF Leaves
  <1>2. UInv /\ [Next]_vars
        => [\A p \in Procs :
             pass[p].kind = "uninstall" /\ pass[p].alone /\ Finish(p)
             => \A l \in Locs : disk[l] # Absent =>
                   \/ l \in Forgotten(pass[p].man)
                   \/ "tick" \in Commands /\ pass[p].offline /\ l \in Unseen(pass[p].man)]_vars
    BY <1>1
  <1> QED BY <1>2, UInvInit, StepUInv, PTL DEF Spec, UninstallClean
-----------------------------------------------------------------------------
(***************************************************************************)
(* A host that is up to date stays so.  The marker blocks of a tick's list *)
(* come in the order of the manifest's tools, so the first tool that is    *)
(* there is the one whose block a pass writes: the one that is on disk.    *)
(***************************************************************************)
MarkerOf(t) == Item("marker", <<"marker", FileOf[t]>>, t)

LEMMA ToolMarkers ==
    ASSUME NEW t \in Tools
    PROVE  /\ FileOf[t] # None => MarkerOf(t) \in ToSet(ToolWork(t))
           /\ \A x \in ToSet(ToolWork(t)) : x.do = "marker" => FileOf[t] # None /\ x = MarkerOf(t)
  BY ToolWorkHas DEF ToolItems, MarkerOf, Item

\* w is a list whose first and last parts have no marker block.
AllInMiddle(w, a, b, c, d) ==
    /\ a \in Seq(Items) /\ b \in Seq(Items) /\ c \in Seq(Items) /\ d \in Seq(Items)
    /\ w = a \o b \o c \o d
    /\ \A x \in ToSet(a) \cup ToSet(c) \cup ToSet(d) : x.do # "marker"

LEMMA InMiddle ==
    ASSUME NEW w, NEW a, NEW b, NEW c, NEW d, AllInMiddle(w, a, b, c, d)
    PROVE  \A k \in 1..Len(w) : w[k].do = "marker" =>
               \E q \in 1..Len(b) : /\ w[k] = b[q]
                                    /\ \A m \in 1..(q - 1) : \E n \in 1..(k - 1) : w[n] = b[m]
  <1> SUFFICES ASSUME NEW k \in 1..Len(w), w[k].do = "marker"
               PROVE  \E q \in 1..Len(b) : /\ w[k] = b[q]
                                           /\ \A m \in 1..(q - 1) : \E n \in 1..(k - 1) : w[n] = b[m]
    OBVIOUS
  <1> USE DEF AllInMiddle
  <1> DEFINE S == Items
  <1>1. a \in Seq(S) /\ b \in Seq(S) /\ c \in Seq(S) /\ d \in Seq(S)
    OBVIOUS
  <1> HIDE DEF S
  <1>2. /\ Len(a) \in Nat /\ Len(b) \in Nat /\ Len(c) \in Nat /\ Len(d) \in Nat
        /\ k \in 1..(Len(a) + Len(b) + Len(c) + Len(d))
    BY <1>1
  <1>3. /\ \A i \in 1..Len(a) : w[i] = a[i]
        /\ \A i \in 1..Len(b) : w[Len(a) + i] = b[i]
        /\ \A i \in 1..Len(c) : w[Len(a) + Len(b) + i] = c[i]
        /\ \A i \in 1..Len(d) : w[Len(a) + Len(b) + Len(c) + i] = d[i]
    BY <1>1
  <1>4. /\ \A i \in 1..Len(a) : a[i] \in ToSet(a)
        /\ \A i \in 1..Len(c) : c[i] \in ToSet(c)
        /\ \A i \in 1..Len(d) : d[i] \in ToSet(d)
    BY <1>1 DEF ToSet
  <1>5. w[k].do = "marker"
    OBVIOUS
  <1>6. k \notin 1..Len(a)
    BY <1>3, <1>4, <1>5
  <1>7. ~(k > Len(a) + Len(b) /\ k <= Len(a) + Len(b) + Len(c))
    <2>1. SUFFICES ASSUME k > Len(a) + Len(b), k <= Len(a) + Len(b) + Len(c) PROVE FALSE
      OBVIOUS
    <2>2. k - (Len(a) + Len(b)) \in 1..Len(c) /\ Len(a) + Len(b) + (k - (Len(a) + Len(b))) = k
      BY <1>2, <2>1
    <2>3. w[k] \in ToSet(c)
      BY <1>3, <1>4, <2>2
    <2> QED BY <1>5, <2>3
  <1>8. ~(k > Len(a) + Len(b) + Len(c))
    <2>1. SUFFICES ASSUME k > Len(a) + Len(b) + Len(c) PROVE FALSE
      OBVIOUS
    <2>2. /\ k - (Len(a) + Len(b) + Len(c)) \in 1..Len(d)
          /\ Len(a) + Len(b) + Len(c) + (k - (Len(a) + Len(b) + Len(c))) = k
      BY <1>2, <2>1
    <2>3. w[k] \in ToSet(d)
      BY <1>3, <1>4, <2>2
    <2> QED BY <1>5, <2>3
  <1>9. k - Len(a) \in 1..Len(b) /\ Len(a) + (k - Len(a)) = k
    BY <1>2, <1>6, <1>7, <1>8
  <1>10. \A m \in 1..((k - Len(a)) - 1) : /\ m \in 1..Len(b) /\ Len(a) + m \in 1..(k - 1)
    BY <1>2, <1>9
  <1>11. w[k] = b[k - Len(a)] /\ \A m \in 1..((k - Len(a)) - 1) : \E n \in 1..(k - 1) : w[n] = b[m]
    BY <1>3, <1>9, <1>10
  <1> QED BY <1>9, <1>11

\* At k of its list, a pass comes to the block of a tool; those before it in
\* the manifest with the same file have had their turn, or have it before k.
InTurn(work, owner, skip, r, k) ==
    LET ts == ManifestAt[r].tools IN
    \E i \in DOMAIN ts :
        /\ FileOf[ts[i]] # None /\ work[k] = MarkerOf(ts[i])
        /\ \A j \in 1..(i - 1) : FileOf[ts[j]] = FileOf[ts[i]] =>
               \/ owner[FileOf[ts[i]]] # None
               \/ ts[j] \in skip
               \/ \E n \in 1..(k - 1) : work[n] = MarkerOf(ts[j])

LEMMA TickOrder ==
    ASSUME NEW r \in Revs, NEW owner, NEW skip,
           NEW k \in 1..Len(TickWork(r)), TickWork(r)[k].do = "marker"
    PROVE  InTurn(TickWork(r), owner, skip, r, k)
  <1> DEFINE m == ManifestAt[r]
             ts == m.tools
             w == TickWork(r)
             b == TickTools(r)
             d == RetiredWork(m)
             bb == [i \in DOMAIN ts |-> ToolWork(ts[i])]
  <1>1. PICK a \in Seq(Items), c \in Seq(Items) :
            /\ w = a \o b \o c \o d
            /\ ToSet(a) = {Item("helper", <<"helper", h>>, None) : h \in ToSet(m.helpers)}
            /\ ToSet(c) = {Item("gated", <<"gated", g>>, None) : g \in ToSet(m.gated) \cap Attested}
    BY TickParts
  <1>2. b \in Seq(Items)
    BY TickToolsHas
  <1>3. d \in Seq(Items) /\ \A x \in ToSet(d) : x.do # "marker"
    BY ManifestHas, RetiredWorkHas DEF RetiredItems, PluginRemovals, Rm, Item
  <1>4. \A x \in ToSet(a) \cup ToSet(c) \cup ToSet(d) : x.do # "marker"
    BY <1>1, <1>3 DEF Item
  <1>5. ts \in Seq(Tools) /\ Len(ts) \in Nat /\ DOMAIN ts = 1..Len(ts) /\ \A i \in 1..Len(ts) : ts[i] \in Tools
    BY ManifestHas, SeqHas
  <1>6. bb \in Seq(Seq(Items)) /\ Len(bb) = Len(ts) /\ b = FlattenSeq(bb)
    <2>1. \A i \in 1..Len(ts) : ToolWork(ts[i]) \in Seq(Items)
      BY <1>5, ToolWorkHas
    <2>2. b = FlattenSeq(bb)
      BY DEF TickTools
    <2>3. bb \in [1..Len(ts) -> Seq(Items)]
      BY <1>5, <2>1
    <2> DEFINE S == Seq(Items)
               n == Len(ts)
    <2>4. bb \in [1..n -> S] /\ n \in Nat
      BY <1>5, <2>3
    <2> HIDE DEF bb, ts, S, n
    <2>5. bb \in Seq(S) /\ Len(bb) = n
      BY <2>4
    <2> QED BY <2>2, <2>5 DEF S, n
  <1>7. \A i \in 1..Len(ts) : bb[i] = ToolWork(ts[i])
    BY <1>5
  <1> HIDE DEF w, b, d, bb, ts
  <1>8. PICK q \in 1..Len(b) : w[k] = b[q] /\ \A p \in 1..(q - 1) : \E n \in 1..(k - 1) : w[n] = b[p]
    <2>1. k \in 1..Len(w) /\ w[k].do = "marker"
      BY DEF w
    <2>2. AllInMiddle(w, a, b, c, d)
      BY <1>1, <1>2, <1>3, <1>4 DEF AllInMiddle
    <2>3. \A p \in 1..Len(w) : w[p].do = "marker" =>
             \E q \in 1..Len(b) : /\ w[p] = b[q]
                                  /\ \A z \in 1..(q - 1) : \E n \in 1..(p - 1) : w[n] = b[z]
      BY <2>2, InMiddle
    <2> QED BY <2>1, <2>3
  <1>9. PICK i \in 1..Len(ts) :
            /\ b[q] \in ToSet(bb[i])
            /\ \A j \in 1..(i - 1) : \A x \in ToSet(bb[j]) : \E p \in 1..(q - 1) : b[p] = x
    <2> DEFINE f == FlattenSeq(bb)
    <2>1. \A p \in 1..Len(f) : \E i \in 1..Len(bb) :
              /\ f[p] \in ToSet(bb[i])
              /\ \A j \in 1..(i - 1) : \A x \in ToSet(bb[j]) : \E n \in 1..(p - 1) : f[n] = x
      BY <1>6, FlattenOrder
    <2>2. b = f
      BY <1>6
    <2> HIDE DEF f
    <2>3. PICK i \in 1..Len(bb) :
              /\ f[q] \in ToSet(bb[i])
              /\ \A j \in 1..(i - 1) : \A x \in ToSet(bb[j]) : \E n \in 1..(q - 1) : f[n] = x
      BY <2>1, <2>2
    <2>4. i \in 1..Len(ts)
      BY <1>6
    <2> QED BY <2>2, <2>3, <2>4
  <1>10. FileOf[ts[i]] # None /\ w[k] = MarkerOf(ts[i])
    <2>1. w[k].do = "marker" /\ w[k] \in ToSet(ToolWork(ts[i])) /\ ts[i] \in Tools
      BY <1>5, <1>7, <1>8, <1>9 DEF w
    <2> QED BY <2>1, ToolMarkers
  <1>11. ASSUME NEW j \in 1..(i - 1), FileOf[ts[j]] = FileOf[ts[i]]
         PROVE  \E n \in 1..(k - 1) : w[n] = MarkerOf(ts[j])
    <2>1. j \in 1..Len(ts) /\ ts[j] \in Tools
      BY <1>5
    <2>2. MarkerOf(ts[j]) \in ToSet(bb[j])
      BY <1>7, <1>10, <1>11, <2>1, ToolMarkers
    <2>3. PICK p \in 1..(q - 1) : b[p] = MarkerOf(ts[j])
      BY <1>9, <2>2
    <2>4. PICK n \in 1..(k - 1) : w[n] = b[p]
      BY <1>8
    <2> QED BY <2>3, <2>4
  <1> QED BY <1>5, <1>10, <1>11 DEF InTurn, ts, w
-----------------------------------------------------------------------------
AllInTurn(x) == x.pc = "work" => \A k \in 1..Len(x.todo) :
                    x.todo[k].do = "marker" => InTurn(x.todo, x.owner, x.skip, x.man, k)

NInv == UInv /\ \A p \in Procs : AllInTurn(pass[p])

\* The pass x goes on as y: its first item has had its turn.
GoesOn(x, y) ==
    /\ Fine(x) /\ x.pc = "work" /\ x.todo # <<>>
    /\ y.todo = Tail(x.todo) /\ y.man = x.man
    /\ \A f \in Files : x.owner[f] # None => y.owner[f] # None
    /\ x.skip \subseteq y.skip
    /\ \A t \in Tools : FileOf[t] # None /\ Head(x.todo) = MarkerOf(t) => y.owner[FileOf[t]] # None \/ t \in y.skip

LEMMA TurnGoesOn ==
    ASSUME NEW x, NEW y, GoesOn(x, y), AllInTurn(x)
    PROVE  AllInTurn(y)
  <1> SUFFICES ASSUME NEW k \in 1..Len(y.todo), y.todo[k].do = "marker"
               PROVE  InTurn(y.todo, y.owner, y.skip, y.man, k)
    BY DEF AllInTurn
  <1>1. /\ x.todo \in Seq(Items) /\ x.todo # <<>> /\ y.todo = Tail(x.todo) /\ y.man = x.man
        /\ x.pc = "work" /\ Fine(x)
    BY DEF GoesOn, Fine, Passes
  <1>2. /\ Len(x.todo) \in Nat /\ Len(y.todo) = Len(x.todo) - 1 /\ Head(x.todo) = x.todo[1]
        /\ \A i \in 1..Len(y.todo) : y.todo[i] = x.todo[i + 1]
    <2> DEFINE S == Items
    <2>1. x.todo \in Seq(S)
      BY <1>1
    <2> HIDE DEF S
    <2> QED BY <1>1, <2>1
  <1>3. k + 1 \in 1..Len(x.todo) /\ x.todo[k + 1].do = "marker"
    BY <1>2
  <1>4. x.man \in Revs
    <2>1. ~OnlyRemovals(x.todo)
      BY <1>1, <1>3 DEF OnlyRemovals
    <2> QED BY <1>1, <2>1 DEF Fine, Informed, Passes, Revs
  <1> DEFINE ts == ManifestAt[x.man].tools
  <1>5. DOMAIN ts = 1..Len(ts) /\ Len(ts) \in Nat /\ \A i \in 1..Len(ts) : ts[i] \in Tools
    BY <1>4, ManifestHas, SeqHas
  <1> HIDE DEF ts
  <1>6. PICK i \in DOMAIN ts :
            /\ FileOf[ts[i]] # None /\ x.todo[k + 1] = MarkerOf(ts[i])
            /\ \A j \in 1..(i - 1) : FileOf[ts[j]] = FileOf[ts[i]] =>
                   \/ x.owner[FileOf[ts[i]]] # None
                   \/ ts[j] \in x.skip
                   \/ \E n \in 1..((k + 1) - 1) : x.todo[n] = MarkerOf(ts[j])
    BY <1>1, <1>3 DEF AllInTurn, InTurn, ts
  <1>7. FileOf[ts[i]] \in Files /\ y.todo[k] = MarkerOf(ts[i])
    BY <1>2, <1>5, <1>6
  <1>8. \A j \in 1..(i - 1) :
            FileOf[ts[j]] = FileOf[ts[i]] /\ y.owner[FileOf[ts[i]]] = None /\ ts[j] \notin y.skip =>
                \E n \in 1..(k - 1) : y.todo[n] = MarkerOf(ts[j])
    <2> SUFFICES ASSUME NEW j \in 1..(i - 1), FileOf[ts[j]] = FileOf[ts[i]], y.owner[FileOf[ts[i]]] = None,
                        ts[j] \notin y.skip
                 PROVE  \E n \in 1..(k - 1) : y.todo[n] = MarkerOf(ts[j])
      OBVIOUS
    <2>1. ts[j] \in Tools
      BY <1>5
    <2>2. PICK n \in 1..((k + 1) - 1) : x.todo[n] = MarkerOf(ts[j])
      BY <1>6, <1>7 DEF GoesOn
    <2>3. n # 1
      BY <1>2, <1>6, <2>1, <2>2 DEF GoesOn
    <2> DEFINE h == n - 1
    <2>4. h \in 1..(k - 1) /\ h \in 1..Len(y.todo) /\ h + 1 = n
      BY <1>2, <2>2, <2>3
    <2> HIDE DEF h
    <2>5. y.todo[h] = MarkerOf(ts[j])
      BY <1>2, <2>2, <2>4
    <2> QED BY <2>4, <2>5
  <1>9. \E h \in DOMAIN ts :
            /\ FileOf[ts[h]] # None /\ y.todo[k] = MarkerOf(ts[h])
            /\ \A j \in 1..(h - 1) : FileOf[ts[j]] = FileOf[ts[h]] =>
                   \/ y.owner[FileOf[ts[h]]] # None
                   \/ ts[j] \in y.skip
                   \/ \E n \in 1..(k - 1) : y.todo[n] = MarkerOf(ts[j])
    BY <1>6, <1>7, <1>8
  <1>10. ts = ManifestAt[y.man].tools
    BY <1>1 DEF ts
  <1> QED BY <1>9, <1>10 DEF InTurn

\* Whatever the item, a block at the head has its turn.
LEMMA ItemTurns ==
    ASSUME IInv, NEW p \in Procs, ItemStep(p)
    PROVE  \E y : pass' = [pass EXCEPT ![p] = y] /\ GoesOn(pass[p], y)
  <1> DEFINE x == pass[p]
             z == [x EXCEPT !.todo = Tail(@)]
             sk == [x EXCEPT !.todo = Tail(@), !.skip = @ \cup {For(p)}]
             ow == [x EXCEPT !.todo = Tail(@), !.owner[At(p)[2]] = For(p)]
  <1>1. Fine(x) /\ x \in Passes /\ x.pc = "work" /\ x.todo # <<>> /\ x.todo \in Seq(Items)
    BY PassesFine, ItemWrites DEF Fine, Passes
  <1>2. Head(x.todo) \in Items
    BY <1>1, TailIsSeq
  <1>3. \A t \in Tools : Head(x.todo) = MarkerOf(t) =>
            Head(x.todo).do = "marker" /\ For(p) = t /\ At(p) = <<"marker", FileOf[t]>>
    BY DEF MarkerOf, Item, For, At
  <1>4. CASE MarkerFails(p) \/ SkipTool(p)
    <2>1. pass' = [pass EXCEPT ![p] = sk]
      BY <1>4 DEF MarkerFails, SkipTool
    <2>2. sk.todo = Tail(x.todo) /\ sk.man = x.man /\ sk.owner = x.owner /\ sk.skip = x.skip \cup {For(p)}
      BY <1>1 DEF Passes
    <2> HIDE DEF sk
    <2>3. \A t \in Tools : Head(x.todo) = MarkerOf(t) => t \in sk.skip
      BY <1>3, <2>2
    <2>4. GoesOn(x, sk)
      BY <1>1, <2>2, <2>3 DEF GoesOn
    <2> QED BY <2>1, <2>4
  <1>5. CASE Marker(p)
    <2>0. Head(x.todo).do = "marker"
      BY <1>5 DEF Marker, AtItem
    <2>1. Head(x.todo).do = "marker" /\ pass' = [pass EXCEPT ![p] = ow]
      <3>1. pass' = [pass EXCEPT ![p].todo = Tail(@), ![p].owner[At(p)[2]] = For(p)]
        BY <1>5 DEF Marker
      <3>2. ow = [x EXCEPT !.todo = Tail(@), !.owner[At(p)[2]] = For(p)]
        OBVIOUS
      <3> HIDE DEF ow
      <3> QED BY <2>0, <3>1, <3>2
    <2>2. For(p) \in Tools /\ At(p)[2] \in Files
      BY <1>2, <2>1 DEF Items, For, At
    <2>3. /\ ow.todo = Tail(x.todo) /\ ow.man = x.man /\ ow.skip = x.skip
          /\ \A f \in Files : ow.owner[f] = IF f = At(p)[2] THEN For(p) ELSE x.owner[f]
      BY <1>1 DEF Passes
    <2> HIDE DEF ow
    <2>4. \A t \in Tools : FileOf[t] # None /\ Head(x.todo) = MarkerOf(t) => ow.owner[FileOf[t]] # None
      BY <1>3, <2>2, <2>3
    <2>5. \A f \in Files : x.owner[f] # None => ow.owner[f] # None
      BY <2>2, <2>3
    <2>6. GoesOn(x, ow)
      BY <1>1, <2>3, <2>4, <2>5 DEF GoesOn
    <2> QED BY <2>1, <2>6
  <1>6. CASE ~(MarkerFails(p) \/ SkipTool(p) \/ Marker(p))
    <2>1. pass' = [pass EXCEPT ![p] = z]
      BY <1>6 DEF ItemStep, PassOver, Skill, MarkerShared, PluginFile, Helper, FetchFails, Trust, Gated,
           RemoveSurface, Advance
    <2>2. z.todo = Tail(x.todo) /\ z.man = x.man /\ z.owner = x.owner /\ z.skip = x.skip
      BY <1>1 DEF Passes
    <2>3. Head(x.todo).do = "marker" => PassOver(p) \/ MarkerShared(p)
      BY <1>6 DEF ItemStep, Skill, PluginFile, Helper, FetchFails, Trust, Gated, RemoveSurface, AtItem
    <2>4. PassOver(p) => For(p) \in x.skip
      BY DEF PassOver
    <2>5. MarkerShared(p) => x.owner[At(p)[2]] # None
      BY DEF MarkerShared
    <2>6. \A t \in Tools : FileOf[t] # None /\ Head(x.todo) = MarkerOf(t) => x.owner[FileOf[t]] # None \/ t \in x.skip
      <3>1. ASSUME NEW t \in Tools, Head(x.todo) = MarkerOf(t) PROVE x.owner[FileOf[t]] # None \/ t \in x.skip
        <4>1. At(p)[2] = FileOf[t] /\ For(p) = t
          BY <1>3, <3>1
        <4> QED BY <1>3, <2>3, <2>4, <2>5, <3>1, <4>1
      <3> QED BY <3>1
    <2> HIDE DEF z
    <2>7. GoesOn(x, z)
      BY <1>1, <2>2, <2>6 DEF GoesOn
    <2> QED BY <2>1, <2>7
  <1> QED BY <1>4, <1>5, <1>6

LEMMA NInvInit == Init => NInv
  BY UInvInit DEF Init, NInv, AllInTurn, Idle

LEMMA RemovalsInTurn ==
    ASSUME NEW x, OnlyRemovals(x.todo), x.todo \in Seq(Items)
    PROVE  AllInTurn(x)
  BY DEF AllInTurn, OnlyRemovals

LEMMA StepNInv == NInv /\ [Next]_vars => NInv'
  <1> SUFFICES ASSUME NInv, [Next]_vars PROVE NInv'
    OBVIOUS
  <1>1. UInv' /\ UInv /\ IInv /\ IInv'
    BY StepUInv DEF NInv, UInv
  <1>2. /\ pass \in [Procs -> Passes] /\ \A p \in Procs : Fine(pass[p]) /\ AllInTurn(pass[p])
        /\ pass' \in [Procs -> Passes] /\ \A p \in Procs : Fine(pass'[p])
    <2>1. pass \in [Procs -> Passes] /\ pass' \in [Procs -> Passes]
      BY <1>1 DEF IInv, TypeOK
    <2>2. \A p \in Procs : Fine(pass'[p])
      BY <1>1 DEF IInv, TypeOK, RemovalsOnly, Fine, Informed, Ordered, OnlyRemovals, Passes
    <2> QED BY <1>1, <2>1, <2>2, PassesFine DEF NInv
  <1> SUFFICES \A q \in Procs : AllInTurn(pass'[q])
    BY <1>1 DEF NInv, AllInTurn, InTurn
  <1>3. ASSUME NEW p \in Procs, NEW x, pass' = [pass EXCEPT ![p] = x], x.pc # "work" \/ AllInTurn(x)
        PROVE  \A q \in Procs : AllInTurn(pass'[q])
    <2>1. AllInTurn(x)
      BY <1>3 DEF AllInTurn
    <2>2. \A q \in Procs : pass'[q] = x \/ pass'[q] = pass[q]
      BY <1>2, <1>3
    <2> QED BY <1>2, <2>1, <2>2
  <1>4. ASSUME NEW p \in Procs, ItemStep(p) PROVE \A q \in Procs : AllInTurn(pass'[q])
    <2>1. PICK y : pass' = [pass EXCEPT ![p] = y] /\ GoesOn(pass[p], y)
      BY <1>1, <1>4, ItemTurns
    <2>2. AllInTurn(y)
      BY <1>2, <2>1, TurnGoesOn
    <2> QED BY <1>3, <2>1, <2>2
  <1>5. ASSUME NEW p \in Procs, FetchEntry(p) PROVE \A q \in Procs : AllInTurn(pass'[q])
    <2> DEFINE x == [pass[p] EXCEPT !.pc = "work", !.body = up, !.todo = TickWork(pass[p].man)]
    <2>1. pass[p].pc = "entry" /\ pass' = [pass EXCEPT ![p] = x]
      BY <1>5 DEF FetchEntry
    <2>2. x.todo = TickWork(pass[p].man) /\ x.man = pass[p].man
      BY <1>2 DEF Passes
    <2>3. pass[p].man \in Revs
      BY <1>2, <2>1 DEF Fine, Ordered, Passes, Revs
    <2> HIDE DEF x
    <2>4. AllInTurn(x)
      BY <2>2, <2>3, TickOrder DEF AllInTurn
    <2> QED BY <1>3, <2>1, <2>4
  <1>6. ASSUME NEW p \in Procs, ReadMode(p) \/ FetchManifest(p) \/ FetchManifestFails(p)
        PROVE  \A q \in Procs : AllInTurn(pass'[q])
    <2>1. /\ pass' = [pass EXCEPT ![p] = pass'[p]]
          /\ pass'[p].pc = "work" => pass'[p].offline \/ pass'[p].kind = "uninstall"
      <3>1. \E x : pass' = [pass EXCEPT ![p] = x]
        BY <1>6 DEF ReadMode, FetchManifest, FetchManifestFails
      <3>2. pass[p] \in Passes
        BY <1>2
      <3>3. CASE ReadMode(p)
        BY <1>2, <3>1, <3>2, <3>3 DEF ReadMode, Passes
      <3>4. CASE FetchManifest(p)
        BY <1>2, <3>1, <3>2, <3>4 DEF FetchManifest, Passes
      <3>5. CASE FetchManifestFails(p)
        BY <1>2, <3>1, <3>2, <3>5 DEF FetchManifestFails, Passes, Idle
      <3> QED BY <1>6, <3>3, <3>4, <3>5
    <2>2. pass'[p].pc = "work" => OnlyRemovals(pass'[p].todo) /\ pass'[p].todo \in Seq(Items)
      BY <1>2, <2>1 DEF Fine, Passes
    <2>3. pass'[p].pc # "work" \/ AllInTurn(pass'[p])
      BY <2>2, RemovalsInTurn
    <2> QED BY <1>3, <2>1, <2>3
  <1>7. ASSUME NEW p \in Procs, CacheManifest(p) PROVE \A q \in Procs : AllInTurn(pass'[q])
    <2>1. pass' = [pass EXCEPT ![p] = [pass[p] EXCEPT !.pc = "entry"]] /\ [pass[p] EXCEPT !.pc = "entry"].pc # "work"
      BY <1>2, <1>7 DEF CacheManifest, Passes
    <2> QED BY <1>3, <2>1
  <1>8. ASSUME NEW p \in Procs, FetchEntryFails(p) \/ Finish(p) \/ Killed(p)
        PROVE  \A q \in Procs : AllInTurn(pass'[q])
    <2>1. pass' = [pass EXCEPT ![p] = Idle] /\ Idle.pc # "work"
      BY <1>8 DEF FetchEntryFails, Finish, Killed, Idle
    <2> QED BY <1>3, <2>1
  <1>9. CASE Down
    <2>1. pass' = [pass EXCEPT ![Daemon] = Idle] /\ Idle.pc # "work"
      BY <1>9 DEF Down, Idle
    <2> QED BY <1>3, <2>1
  <1>10. ASSUME NEW p \in Procs, NEW k \in Kinds, Begin(p, k) PROVE \A q \in Procs : AllInTurn(pass'[q])
    <2>1. pass'[p].pc # "work"
      BY <1>10 DEF Begin, Idle
    <2>2. ASSUME NEW q \in Procs \ {p}
          PROVE  /\ pass'[q].pc = pass[q].pc /\ pass'[q].todo = pass[q].todo /\ pass'[q].owner = pass[q].owner
                 /\ pass'[q].skip = pass[q].skip /\ pass'[q].man = pass[q].man
      <3>1. pass'[q] = [pass[q] EXCEPT !.alone = FALSE] /\ pass[q] \in Passes
        BY <1>2, <1>10 DEF Begin
      <3> QED BY <3>1 DEF Passes
    <2> QED BY <1>2, <2>1, <2>2 DEF AllInTurn
  <1>11. CASE Start \/ Ticker
    BY <1>10, <1>11 DEF Start, Ticker, Kinds
  <1>12. ASSUME NEW p \in Procs, NEW k \in Commands, Command(p, k) PROVE \A q \in Procs : AllInTurn(pass'[q])
    BY <1>10, <1>12 DEF Command
  <1>13. CASE UNCHANGED pass
    BY <1>2, <1>13
  <1>14. ASSUME NEW p \in Procs, Step(p) PROVE \A q \in Procs : AllInTurn(pass'[q])
    BY <1>4, <1>5, <1>6, <1>7, <1>8, <1>14 DEF Step, ItemStep
  <1>15. \/ \E p \in Procs : Step(p) \/ Killed(p) \/ \E k \in Commands : Command(p, k)
         \/ Start \/ Ticker \/ Down
         \/ UNCHANGED pass
    BY DEF Next, vars, Publish, NetChanges, SetMode, UserEdits, ToolComesOrGoes, CheckMode
  <1> QED BY <1>8, <1>9, <1>11, <1>12, <1>13, <1>14, <1>15
-----------------------------------------------------------------------------
\* A tick's items by what they do.
LEMMA TickItemIs ==
    ASSUME NEW r \in Revs, NEW x \in TickItems(r)
    PROVE  LET m == ManifestAt[r] IN
           /\ x.do = "helper" => \E h \in ToSet(m.helpers) : x.loc = <<"helper", h>>
           /\ x.do = "gated" => \E g \in ToSet(m.gated) \cap Attested : x.loc = <<"gated", g>>
           /\ x.do = "skill" => x.tool \in ToSet(m.tools) /\ x.loc = <<"skill", x.tool>>
           /\ x.do = "file" => /\ x.tool \in ToSet(m.tools) /\ FileOf[x.tool] # None
                               /\ \E f \in ToSet(PluginFilesOf(x.tool)) : x.loc = <<"file", f>>
           /\ x.do = "trust" => /\ x.tool \in ToSet(m.tools) /\ FileOf[x.tool] # None
                                /\ PluginOf[x.tool] # None /\ x.loc = <<"trust", PluginOf[x.tool]>>
           /\ x.do = "rm" => x \in RetiredItems(m)
  <1> DEFINE m == ManifestAt[r]
  <1>1. \A y \in RetiredItems(m) : y.do = "rm"
    BY DEF RetiredItems, PluginRemovals, Rm, Item
  <1>2. CASE x \in RetiredItems(m)
    BY <1>1, <1>2
  <1>3. ASSUME NEW t \in ToSet(m.tools), x \in ToolItems(t)
        PROVE  /\ x.do \in {"skill", "marker", "file", "trust"} /\ x.tool = t
               /\ x.do = "skill" => x.loc = <<"skill", x.tool>>
               /\ x.do = "file" => FileOf[t] # None /\ \E f \in ToSet(PluginFilesOf(t)) : x.loc = <<"file", f>>
               /\ x.do = "trust" => FileOf[t] # None /\ PluginOf[t] # None /\ x.loc = <<"trust", PluginOf[t]>>
    BY <1>3 DEF ToolItems, Item
  <1>4. CASE \E h \in ToSet(m.helpers) : x = Item("helper", <<"helper", h>>, None)
    BY <1>4 DEF Item
  <1>5. CASE \E g \in ToSet(m.gated) \cap Attested : x = Item("gated", <<"gated", g>>, None)
    BY <1>5 DEF Item
  <1>6. \/ x \in RetiredItems(m)
        \/ \E h \in ToSet(m.helpers) : x = Item("helper", <<"helper", h>>, None)
        \/ \E g \in ToSet(m.gated) \cap Attested : x = Item("gated", <<"gated", g>>, None)
        \/ \E t \in ToSet(m.tools) : x \in ToolItems(t)
    BY DEF TickItems
  <1>7. CASE \E t \in ToSet(m.tools) : x \in ToolItems(t)
    BY <1>3, <1>7
  <1> QED BY <1>2, <1>4, <1>5, <1>6, <1>7

\* A host that is up to date, by the kinds of its surfaces.
LEMMA UpToDateIs ==
    ASSUME UpToDate, up \in Revs
    PROVE  LET m == ManifestAt[up] IN
           /\ \A h \in ToSet(m.helpers) : disk[<<"helper", h>>] = Copy(up)
           /\ \A g \in ToSet(m.gated) \cap Attested : disk[<<"gated", g>>] = Copy(up)
           /\ \A t \in ToSet(m.tools) \cap root :
                 /\ disk[<<"skill", t>>] = Copy(up)
                 /\ FileOf[t] # None /\ PluginOf[t] # None =>
                        /\ \A f \in ToSet(PluginFilesOf(t)) : disk[<<"file", f>>] = Copy(up)
                        /\ disk[<<"trust", PluginOf[t]>>] = Trusted
           /\ \A f \in Files : OwnerOf(f, up) # None => disk[<<"marker", f>>] = Block(OwnerOf(f, up), up, up)
           /\ \A x \in RetiredItems(m) : disk[x.loc] = Absent
  <1> DEFINE m == ManifestAt[up]
             D == ({"helper"} \X ToSet(m.helpers))
                  \cup ({"skill"} \X Present(up))
                  \cup ({"marker"} \X {f \in Files : OwnerOf(f, up) # None})
                  \cup ({"file"} \X UNION {ToSet(PluginFilesOf(t)) : t \in Equipped(up)})
                  \cup ({"trust"} \X {PluginOf[t] : t \in Equipped(up)})
                  \cup ({"gated"} \X (ToSet(m.gated) \cap Attested))
             content(l) == CASE l[1] = "marker" -> Block(OwnerOf(l[2], up), up, up)
                             [] l[1] = "trust" -> Trusted
                             [] OTHER -> Copy(up)
  <1>1. \A l \in D : disk[l] = content(l)
    <2>1. Wanted(up) = [l \in D |-> content(l)]
      BY DEF Wanted
    <2> HIDE DEF D, content
    <2> QED BY <2>1 DEF UpToDate
  <1>2. /\ \A z : content(<<"marker", z>>) = Block(OwnerOf(z, up), up, up)
        /\ \A z : content(<<"trust", z>>) = Trusted
        /\ \A k \in {"helper", "skill", "file", "gated"} : \A z : content(<<k, z>>) = Copy(up)
    OBVIOUS
  <1>3. /\ \A h \in ToSet(m.helpers) : <<"helper", h>> \in D
        /\ \A g \in ToSet(m.gated) \cap Attested : <<"gated", g>> \in D
        /\ \A f \in Files : OwnerOf(f, up) # None => <<"marker", f>> \in D
    OBVIOUS
  <1>4. ASSUME NEW t \in ToSet(m.tools) \cap root
        PROVE  /\ <<"skill", t>> \in D
               /\ FileOf[t] # None /\ PluginOf[t] # None =>
                      (\A f \in ToSet(PluginFilesOf(t)) : <<"file", f>> \in D) /\ <<"trust", PluginOf[t]>> \in D
    <2>1. t \in Present(up) /\ (FileOf[t] # None /\ PluginOf[t] # None => t \in Equipped(up))
      BY DEF Present, Equipped
    <2> QED BY <2>1
  <1>5. \A x \in RetiredItems(m) : disk[x.loc] = Absent
    <2>1. ToSet(RetiredWork(m)) = RetiredItems(m)
      BY ManifestHas, RetiredWorkHas
    <2> QED BY <2>1 DEF UpToDate, Retired
  <1> HIDE DEF D, content, m
  <1>6. \A t \in ToSet(m.tools) \cap root :
            /\ disk[<<"skill", t>>] = Copy(up)
            /\ FileOf[t] # None /\ PluginOf[t] # None =>
                   /\ \A f \in ToSet(PluginFilesOf(t)) : disk[<<"file", f>>] = Copy(up)
                   /\ disk[<<"trust", PluginOf[t]>>] = Trusted
    BY <1>1, <1>2, <1>4
  <1>7. \A f \in Files : OwnerOf(f, up) # None => disk[<<"marker", f>>] = Block(OwnerOf(f, up), up, up)
    BY <1>1, <1>2, <1>3
  <1>8. /\ \A h \in ToSet(m.helpers) : disk[<<"helper", h>>] = Copy(up)
        /\ \A g \in ToSet(m.gated) \cap Attested : disk[<<"gated", g>>] = Copy(up)
    BY <1>1, <1>2, <1>3
  <1> QED BY <1>5, <1>6, <1>7, <1>8 DEF m

\* The tool whose block a pass is about to write is the file's owner, when
\* those before it that had their turn without a block are not there.
LEMMA InTurnOwns ==
    ASSUME NEW r \in Revs, NEW work, NEW owner, NEW skip, InTurn(work, owner, skip, r, 1),
           skip \cap root = {}, owner[work[1].loc[2]] = None, work[1].tool \in root
    PROVE  LET f == work[1].loc[2] IN
           work[1].loc = <<"marker", f>> /\ f \in Files /\ OwnerOf(f, r) = work[1].tool /\ work[1].tool # None
  <1> DEFINE ts == ManifestAt[r].tools
  <1>1. DOMAIN ts = 1..Len(ts) /\ Len(ts) \in Nat /\ \A i \in 1..Len(ts) : ts[i] \in Tools
    BY ManifestHas, SeqHas
  <1> HIDE DEF ts
  <1>2. PICK i \in DOMAIN ts :
            /\ FileOf[ts[i]] # None /\ work[1] = MarkerOf(ts[i])
            /\ \A j \in 1..(i - 1) : FileOf[ts[j]] = FileOf[ts[i]] =>
                   \/ owner[FileOf[ts[i]]] # None
                   \/ ts[j] \in skip
                   \/ \E n \in 1..(1 - 1) : work[n] = MarkerOf(ts[j])
    BY DEF InTurn, ts
  <1> DEFINE f == FileOf[ts[i]]
             users == {j \in DOMAIN ts : ts[j] \in root /\ FileOf[ts[j]] = f}
  <1>3. work[1].loc = <<"marker", f>> /\ work[1].tool = ts[i] /\ work[1].loc[2] = f
    BY <1>2 DEF MarkerOf, Item
  <1>4. ts[i] \in Tools /\ f \in Files /\ i \in users
    BY <1>1, <1>2, <1>3
  <1>5. ASSUME NEW j \in users PROVE i <= j
    <2>1. SUFFICES ASSUME j < i PROVE FALSE
      BY <1>1, <1>4
    <2>2. j \in 1..(i - 1) /\ ts[j] \in root /\ FileOf[ts[j]] = FileOf[ts[i]]
      BY <1>1, <1>5, <2>1
    <2>3. ts[j] \in skip
      BY <1>2, <1>3, <2>2
    <2> QED BY <2>2, <2>3
  <1>6. users \subseteq Nat
    BY <1>1
  <1> HIDE DEF users
  <1>7. (CHOOSE k \in users : \A j \in users : k <= j) = i
    <2> DEFINE c == CHOOSE k \in users : \A j \in users : k <= j
    <2>1. c \in users /\ \A j \in users : c <= j
      BY <1>4, <1>5
    <2> HIDE DEF c
    <2>2. c <= i /\ i <= c /\ c \in Nat /\ i \in Nat
      BY <1>4, <1>5, <1>6, <2>1
    <2>3. c = i
      BY <2>2
    <2> QED BY <2>3 DEF c
  <1>8. OwnerOf(f, r) = ts[i]
    <2>1. OwnerOf(f, r) = IF users = {} THEN None ELSE ts[CHOOSE k \in users : \A j \in users : k <= j]
      BY DEF OwnerOf, users, ts
    <2> QED BY <1>4, <1>7, <2>1
  <1> HIDE DEF f
  <1> QED BY <1>3, <1>4, <1>8

Calm == UpToDate /\ net /\ mode # "disabled" /\ (\A p \in Procs : InStep(p)) /\ edits' = edits

\* What an item writes is there already.
LEMMA ItemRewrites ==
    ASSUME NInv, Calm, NEW p \in Procs, ItemStep(p)
    PROVE  disk' = disk
  <1> DEFINE x == pass[p]
             h == Head(x.todo)
             m == ManifestAt[up]
  <1>1. /\ UInv /\ IInv /\ Fine(x) /\ x \in Passes /\ x.pc = "work" /\ x.todo # <<>> /\ x.todo \in Seq(Items)
        /\ disk \in [Locs -> Contents] /\ up \in Revs /\ AllInTurn(x)
    BY ItemWrites, PassesFine, Numbers DEF NInv, UInv, Fine, Passes, HostTypes
  <1>2. CASE x.kind = "plan"
    BY <1>2 DEF ItemStep, SkipTool, PassOver, Skill, MarkerShared, Marker, MarkerFails, PluginFile, Helper, FetchFails,
       Trust, Gated, RemoveSurface, Put
  <1>3. CASE x.kind # "plan"
    <2>1. /\ x.kind = "tick" /\ ~x.offline /\ x.man \in {0, up} /\ x.body \in {0, up}
          /\ x.skip \cap root = {}
          /\ For(p) \notin x.skip \cup root \cup {None} => h.do = "skill"
      BY <1>1, <1>3 DEF Calm, InStep
    <2>2. x.man = up /\ x.body = up
      BY <1>1, <2>1 DEF Fine, Informed
    <2>3. h \in TickItems(up)
      <3>1. ToSet(x.todo) \subseteq ToSet(TickWork(up))
        BY <1>1, <2>1, <2>2 DEF UInv, Known
      <3>2. h \in ToSet(x.todo)
        BY <1>1, HeadTailHas
      <3> QED BY <1>1, <3>1, <3>2, TickWorkHas
    <2> HIDE DEF h, x
    <2>4. ASSUME NEW do, NEW c, AtItem(p, do), disk[h.loc] = c, Put(p, c) PROVE disk' = disk
      BY <1>1, <2>4 DEF Put, At, h, x
    <2>5. ASSUME NEW do, AtItem(p, do), do \in {"file", "trust", "marker"} PROVE h.do = do /\ (h.tool # None => h.tool \in root)
      BY <2>1, <2>5 DEF AtItem, For, h, x
    <2>6. CASE Skill(p)
      <3>1. AtItem(p, "skill") /\ h.tool \in root /\ Put(p, Copy(up))
        BY <2>2, <2>6 DEF Skill, For, h, x
      <3>2. h.do = "skill"
        BY <3>1 DEF AtItem, h, x
      <3>3. h.tool \in ToSet(m.tools) \cap root /\ h.loc = <<"skill", h.tool>>
        BY <1>1, <2>3, <3>1, <3>2, TickItemIs
      <3>4. disk[h.loc] = Copy(up)
        BY <1>1, <3>3, UpToDateIs DEF Calm
      <3> QED BY <2>4, <3>1, <3>4
    <2>7. CASE Helper(p)
      <3>1. AtItem(p, "helper") /\ Put(p, Copy(up))
        BY <2>2, <2>7 DEF Helper, x
      <3>2. h.do = "helper"
        BY <3>1 DEF AtItem, h, x
      <3>3. \E g \in ToSet(m.helpers) : h.loc = <<"helper", g>>
        BY <1>1, <2>3, <3>2, TickItemIs
      <3>4. disk[h.loc] = Copy(up)
        BY <1>1, <3>3, UpToDateIs DEF Calm
      <3> QED BY <2>4, <3>1, <3>4
    <2>8. CASE Gated(p)
      <3>1. AtItem(p, "gated") /\ Put(p, Copy(up))
        BY <2>2, <2>8 DEF Gated, x
      <3>2. h.do = "gated"
        BY <3>1 DEF AtItem, h, x
      <3>3. \E g \in ToSet(m.gated) \cap Attested : h.loc = <<"gated", g>>
        BY <1>1, <2>3, <3>2, TickItemIs
      <3>4. disk[h.loc] = Copy(up)
        BY <1>1, <3>3, UpToDateIs DEF Calm
      <3> QED BY <2>4, <3>1, <3>4
    <2>9. CASE RemoveSurface(p)
      <3>1. AtItem(p, "rm") /\ Put(p, Absent)
        BY <2>2, <2>9 DEF RemoveSurface, x
      <3>2. h.do = "rm"
        BY <3>1 DEF AtItem, h, x
      <3>3. h \in RetiredItems(m)
        BY <1>1, <2>3, <3>2, TickItemIs
      <3>4. disk[h.loc] = Absent
        BY <1>1, <3>3, UpToDateIs DEF Calm
      <3> QED BY <2>4, <3>1, <3>4
    <2>10. \A t \in ToSet(m.tools) : t # None
      BY <1>1, ManifestHas, SeqHas
    <2>11. CASE PluginFile(p)
      <3>1. AtItem(p, "file") /\ Put(p, Copy(up)) /\ h.do = "file"
        BY <2>11 DEF PluginFile, AtItem, h, x
      <3>2. PICK f \in ToSet(PluginFilesOf(h.tool)) : h.loc = <<"file", f>>
        BY <1>1, <2>3, <3>1, TickItemIs
      <3>3. h.tool \in ToSet(m.tools) \cap root /\ FileOf[h.tool] # None
        BY <1>1, <2>3, <2>5, <2>10, <3>1, TickItemIs
      <3>4. PluginOf[h.tool] # None
        BY <3>2, UnitHas DEF PluginFilesOf
      <3>5. \A g \in ToSet(PluginFilesOf(h.tool)) : disk[<<"file", g>>] = Copy(up)
        BY <1>1, <3>3, <3>4, UpToDateIs DEF Calm
      <3>6. disk[h.loc] = Copy(up)
        BY <3>2, <3>5
      <3> QED BY <2>4, <3>1, <3>6
    <2>12. CASE Trust(p)
      <3>1. AtItem(p, "trust") /\ Put(p, Trusted) /\ h.do = "trust"
        BY <2>12 DEF Trust, AtItem, h, x
      <3>2. /\ h.tool \in ToSet(m.tools) \cap root /\ FileOf[h.tool] # None /\ PluginOf[h.tool] # None
            /\ h.loc = <<"trust", PluginOf[h.tool]>>
        BY <1>1, <2>3, <2>5, <2>10, <3>1, TickItemIs
      <3>3. disk[h.loc] = Trusted
        BY <1>1, <3>2, UpToDateIs DEF Calm
      <3> QED BY <2>4, <3>1, <3>3
    <2>13. CASE Marker(p)
      <3>1. /\ AtItem(p, "marker") /\ Put(p, Block(h.tool, up, up)) /\ h.do = "marker"
            /\ x.owner[h.loc[2]] = None
        BY <2>2, <2>13 DEF Marker, AtItem, For, At, h, x
      <3>2. h = x.todo[1] /\ 1 \in 1..Len(x.todo) /\ h \in Items
        BY <1>1, TailIsSeq DEF h
      <3>3. InTurn(x.todo, x.owner, x.skip, up, 1)
        BY <1>1, <2>2, <3>1, <3>2 DEF AllInTurn
      <3>4. h.tool \in Tools
        BY <3>1, <3>2 DEF Items
      <3>5. h.tool \in root
        BY <2>5, <3>1, <3>4
      <3>6. /\ h.loc = <<"marker", h.loc[2]>> /\ h.loc[2] \in Files
            /\ OwnerOf(h.loc[2], up) = h.tool /\ h.tool # None
        BY <1>1, <2>1, <3>1, <3>2, <3>3, <3>5, InTurnOwns
      <3>7. disk[h.loc] = Block(h.tool, up, up)
        BY <1>1, <3>6, UpToDateIs DEF Calm
      <3> QED BY <2>4, <3>1, <3>7
    <2>14. CASE SkipTool(p) \/ PassOver(p) \/ MarkerShared(p) \/ MarkerFails(p) \/ FetchFails(p)
      BY <2>14 DEF SkipTool, PassOver, MarkerShared, MarkerFails, FetchFails
    <2> QED BY <2>6, <2>7, <2>8, <2>9, <2>11, <2>12, <2>13, <2>14 DEF ItemStep
  <1> QED BY <1>2, <1>3

LEMMA CalmStep ==
    ASSUME NInv, [Next]_vars, Calm
    PROVE  UNCHANGED disk
  <1>1. edits \in Nat
    BY PassesFine DEF NInv, UInv, HostTypes
  <1>2. ASSUME NEW p \in Procs, Step(p) PROVE disk' = disk
    BY <1>2, ItemRewrites DEF Step, ItemStep, ReadMode, FetchManifest, FetchManifestFails, CacheManifest, FetchEntry,
       FetchEntryFails, Finish
  <1>3. ASSUME NEW l \in Locs, UserEdits(l) PROVE FALSE
    BY <1>1, <1>3 DEF UserEdits, Calm
  <1>4. ASSUME NEW t \in Tools, ToolComesOrGoes(t) PROVE FALSE
    BY <1>1, <1>4 DEF ToolComesOrGoes, Calm
  <1> QED BY <1>2, <1>3, <1>4 DEF Next, vars, Publish, NetChanges, SetMode, Killed, Command, Start, CheckMode, Ticker, Down

\* Once everything is up to date, passes leave it alone, whatever tools share
\* a heartbeat file and whatever the retired lists say (reconcile.go:110-379).
THEOREM NothingChurns == Spec => NoChurn
  <1>1. NInv /\ [Next]_vars
        => [UpToDate /\ net /\ mode # "disabled" /\ (\A p \in Procs : InStep(p)) /\ edits' = edits
            => UNCHANGED disk]_vars
    BY CalmStep DEF Calm
  <1> QED BY <1>1, NInvInit, StepNInv, PTL DEF Spec, NoChurn
=============================================================================

------------------------------- MODULE Layers -------------------------------
(***************************************************************************)
(* apply_layer of oci_cache.rs: the entries of a layer's tar archive are   *)
(* applied one by one, in the order of the archive, to the tree the layers *)
(* below left.                                                             *)
(*                                                                         *)
(* A tree is a function from paths, sequences of names, to "dir", "link"   *)
(* for a symbolic link, or the content of a file.  Where an entry leads    *)
(* through a symbolic link, or a removal fails, which the code ignores,    *)
(* the tree is not followed any further.                                   *)
(***************************************************************************)
EXTENDS Naturals, Sequences, SequencesExt

VARIABLES
  lower,     \* the tree that the layers below left
  layer,     \* the entries of the archive
  tree,      \* dest
  applied,   \* entries applied
  failed,    \* one could not be: no image is made of it
  astray     \* one led through a symbolic link, or did not remove all that it should

layerVars == <<lower, layer, tree, applied, failed, astray>>

Tree(t) == \A p \in DOMAIN t : Len(p) > 1 => Front(p) \in DOMAIN t /\ t[Front(p)] = "dir"

\* A marker has the path of what it is about: the directory, or the name that goes.  A hard
\* link's content is that of the file it is to.
Brings(e) == e.kind \in {"add", "hard"}
Entries(Paths, Contents) ==
  {e \in [kind : {"add", "hard", "named", "opaque"}, path : Paths, content : Contents] :
     /\ ~Brings(e) => e.content = "dir"
     /\ e.kind = "hard" => e.content # "dir"
     /\ e.kind # "opaque" => e.path # << >>}

LayerInit(t, entries) ==
  /\ lower = t /\ tree = t /\ layer = entries /\ applied = 0
  /\ failed = FALSE /\ astray = FALSE

\* One tree over another.
Over(t, u) == [p \in DOMAIN t \cup DOMAIN u |-> IF p \in DOMAIN t THEN t[p] ELSE u[p]]

Without(t, paths) == [p \in DOMAIN t \ paths |-> t[p]]
Below(t, dir) == {p \in DOMAIN t : IsStrictPrefix(dir, p)}
Parents(path) == {SubSeq(path, 1, n) : n \in 1 .. Len(path) - 1}

\* A directory on the way is a link, or that of a marker is, or a directory is to be where
\* there is one.
Linked(t, e) ==
  \/ \E p \in Parents(e.path) \cap DOMAIN t : t[p] = "link"
  \/ e.kind \in {"add", "opaque"} /\ e.content = "dir" /\ e.path \in DOMAIN t /\ t[e.path] = "link"

\* A directory on the way, or the directory of a marker, is a file; or one of a file and a
\* directory would replace the other, or a hard link would replace anything.
Fails(t, e) ==
  CASE e.kind = "opaque" -> e.path \in DOMAIN t /\ t[e.path] # "dir"
    [] e.kind = "named"  -> FALSE
    [] OTHER -> \/ \E p \in Parents(e.path) \cap DOMAIN t : t[p] # "dir"
                \/ /\ e.path \in DOMAIN t
                   /\ e.kind = "hard" \/ (t[e.path] = "dir") # (e.content = "dir")

\* tar's unpack_in: directories on the way are made, and a file replaces a file,
\* links included.
unpack_in(t, e) == Over([p \in {e.path} |-> e.content], Over(t, [p \in Parents(e.path) |-> "dir"]))

\* Mutant: what is below a sibling of the marker stays.
OpaqueOneLevel(t, e) == Without(t, {p \in Below(t, e.path) : Len(p) = Len(e.path) + 1 /\ t[p] # "dir"})

\* .wh..wh..opq: the directory is emptied, when there is one.
opaque(t, e) == Without(t, Below(t, e.path))

\* .wh.<name>: the file or the directory of that name goes, when there is one.
named(t, e) == Without(t, {e.path} \cup Below(t, e.path))

apply_entry(t, e) ==
  CASE e.kind = "opaque" -> opaque(t, e)
    [] e.kind = "named"  -> named(t, e)
    [] OTHER             -> unpack_in(t, e)

\* One turn of the loop.  A hard link fails, too, when the file it is to is gone.
apply_layer ==
  LET e == layer[applied + 1]
  IN  /\ ~failed /\ ~astray /\ applied < Len(layer)
      /\ \/ Linked(tree, e) /\ astray' = TRUE /\ UNCHANGED failed
         \/ ~Brings(e) /\ ~Fails(tree, e) /\ astray' = TRUE /\ UNCHANGED failed   \* .ok()
         \/ /\ ~Linked(tree, e) /\ UNCHANGED astray
            /\ failed' \in {Fails(tree, e), Fails(tree, e) \/ e.kind = "hard"}
      /\ IF failed' \/ astray' THEN UNCHANGED <<tree, applied>>
         ELSE tree' = apply_entry(tree, e) /\ applied' = applied + 1
      /\ UNCHANGED <<lower, layer>>

-----------------------------------------------------------------------------
(* The image specification: whiteouts hide what the layers below have, and *)
(* nothing of their own layer.                                             *)

Hides(e, p) ==
  \/ e.kind = "named" /\ IsPrefix(e.path, p)
  \/ e.kind = "opaque" /\ IsStrictPrefix(e.path, p)

\* What a tree and the first n entries of a layer make together.
Overlay(t, entries, n) ==
  LET adds == {i \in 1 .. n : Brings(entries[i])}
      last(p) == CHOOSE i \in adds : entries[i].path = p /\ \A j \in adds : entries[j].path = p => j <= i
  IN  Over([p \in {entries[i].path : i \in adds} |-> entries[last(p)].content],
           Over(Without(t, {p \in DOMAIN t : \E i \in 1 .. n : Hides(entries[i], p)}),
                [p \in UNION {Parents(entries[i].path) : i \in adds} |-> "dir"]))

\* An entry brings a path: it, or a directory on the way to it.
On(e, p) == Brings(e) /\ p \in {e.path} \cup Parents(e.path)

\* A marker comes after an entry of its own layer that brings what it hides; and an entry
\* that brings it comes after every such marker.
Behind(entries, n, p) ==
  \E j \in 1 .. n : Hides(entries[j], p) /\ \E i \in 1 .. j - 1 : On(entries[i], p)
BroughtAgain(entries, n, p) ==
  \E i \in 1 .. n : On(entries[i], p) /\ \A j \in i + 1 .. n : ~Hides(entries[j], p)

\* At a path, a tree is what the first n entries make of another; but the code has a marker
\* take away what its own layer brought before it, where the specification keeps that.
AsLayered(u, t, entries, n, p) ==
  LET o == Overlay(t, entries, n)
  IN  IF Behind(entries, n, p) THEN p \in DOMAIN u <=> BroughtAgain(entries, n, p)
      ELSE (p \in DOMAIN u <=> p \in DOMAIN o) /\ (p \in DOMAIN u => u[p] = o[p])

\* Something that is a directory for one of them is a file for another, or a marker's
\* directory is a file.
Clash(t, entries) ==
  \E p \in DOMAIN t \cup {entries[i].path : i \in DOMAIN entries} :
    /\ \/ p \in DOMAIN t /\ t[p] = "dir"
       \/ \E i \in DOMAIN entries : \/ IsStrictPrefix(p, entries[i].path)
                                    \/ p = entries[i].path /\ entries[i].content = "dir"
    /\ \/ p \in DOMAIN t /\ t[p] # "dir"
       \/ \E i \in DOMAIN entries : p = entries[i].path /\ entries[i].content # "dir"

\* A layer is applied to what the layers below left as the image specification has it,
\* whole directories gone and what the layer brings itself kept, but for paths that a marker
\* hides which comes after what its own layer brings there; it fails only where a file and a
\* directory are in each other's way, or at a hard link.  This is said of the tree as far as
\* no entry leads through a symbolic link and every removal succeeds (apply_layer).
ImagesFlattened ==
  ~astray =>
    IF failed THEN Clash(lower, layer) \/ layer[applied + 1].kind = "hard"
    ELSE /\ Tree(tree)
         /\ \A p \in DOMAIN tree \cup DOMAIN Overlay(lower, layer, applied) : AsLayered(tree, lower, layer, applied, p)
=============================================================================

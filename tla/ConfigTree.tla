------------------------------ MODULE ConfigTree ------------------------------
(***************************************************************************)
(* How internal/config/config.go writes a configuration back into the YAML *)
(* document it came from: SaveConfigPreserveComments merges the document   *)
(* rendered from the configuration into the tree of the file, so that      *)
(* comments, order and unknown keys stay.                                  *)
(*                                                                         *)
(* A node is a scalar, a mapping or a sequence.  The order of a mapping,   *)
(* styles and comments are left out; a scalar is its text, of which        *)
(* "false", "0", "" and "null" are the zero values.                        *)
(***************************************************************************)
EXTENDS Naturals, FiniteSets, Sequences, SequencesExt

Scalar(v) == [val |-> v]
Mapping(f) == [map |-> f]
Sequence(s) == [seq |-> s]
Null == Scalar("null")

IsScalar(n) == "val" \in DOMAIN n
IsMapping(n) == "map" \in DOMAIN n
IsSequence(n) == "seq" \in DOMAIN n

-----------------------------------------------------------------------------
(* A document is no deeper than this: the root, a section, a list, an        *)
(* entry, a mapping in it, a list in that, and its scalars.                  *)
MaxDepth == 6

Children(n) == IF IsMapping(n) THEN Range(n.map) ELSE IF IsSequence(n) THEN Range(n.seq) ELSE {}

\* A node and those below it: the domain of what recurses through a tree.
Nodes(n) ==
    FoldLeft(LAMBDA above, i : above \cup UNION {Children(x) : x \in above}, {n},
             [i \in 1..MaxDepth |-> i])

Paths == Seq(STRING)

-----------------------------------------------------------------------------
(* What is not worth a new key *)

isZeroValueNode(n) ==
    \A x \in Nodes(n) : IsScalar(x) => x.val \in {"", "0", "false", "null"}

isKnownDefaultValue(path, n) ==
    \/ isZeroValueNode(n)
    \/ path = <<"error-logs-max-files">> /\ n = Scalar("10")

EmptyCollection(n) == IF IsMapping(n) THEN DOMAIN n.map = {} ELSE IsSequence(n) /\ n.seq = <<>>

pruneKnownDefaultsInNewNode(path, node) ==
    LET prune[p \in Paths, n \in Nodes(node)] ==
          CASE IsMapping(n) ->
                 LET pruned == [k \in DOMAIN n.map |-> prune[Append(p, k), n.map[k]]]
                     kept == {k \in DOMAIN n.map : /\ ~isKnownDefaultValue(Append(p, k), n.map[k])
                                                   /\ ~EmptyCollection(pruned[k])}
                 IN Mapping(Restrict(pruned, kept))
            [] IsSequence(n) -> Sequence([i \in DOMAIN n.seq |-> prune[p, n.seq[i]]])
            [] OTHER -> n
    IN prune[path, node]

-----------------------------------------------------------------------------
(* Which element of the file's list an element of the configuration's is.    *)

\* The keys that name an element, and for one without them its scalars in the
\* order in which they are rendered.
IdentityKeys == <<"name", "api-key", "upstream-api-key", "from", "base-url">>

Named(n) == {i \in DOMAIN IdentityKeys :
                /\ IdentityKeys[i] \in DOMAIN n.map
                /\ IsScalar(n.map[IdentityKeys[i]]) /\ n.map[IdentityKeys[i]].val # ""}

sequenceElementIdentity(n) ==
    IF Named(n) = {} THEN <<>>
    ELSE LET k == IdentityKeys[Min(Named(n))] IN <<k, n.map[k].val>>

SameElement(a, b) ==
    \/ /\ IsMapping(a) /\ IsMapping(b)
       /\ sequenceElementIdentity(b) # <<>>
       /\ sequenceElementIdentity(a) = sequenceElementIdentity(b)
    \/ IsScalar(a) /\ IsScalar(b) /\ b.val # "" /\ a = b

\* The index of target's element in original, 0 for none.
matchSequenceElement(original, used, target) ==
    LET free == DOMAIN original \ used
        same == {i \in free : SameElement(original[i], target)}
        equal == {i \in free : original[i] = target}
    IN IF same # {} THEN Min(same) ELSE IF equal # {} THEN Min(equal) ELSE 0

reorderSequenceForMerge(dst, src) ==
    FoldLeft(LAMBDA found, n : Append(found, matchSequenceElement(dst, Range(found), n)), <<>>, src)

-----------------------------------------------------------------------------
(* The merge *)

\* Mappings m without the keys that the rendered one does not have.
pruneMissingMapKeys(dst, src) == Mapping(Restrict(dst.map, DOMAIN dst.map \cap DOMAIN src.map))

(* In these "merge" is the recursion: merge[dst, src, path] is what          *)
(* mergeNodePreserve makes of the nodes at a path.                           *)

mergeMappingPreserve(merge, dst, src, path) ==
    LET candidate == [k \in DOMAIN src \ DOMAIN dst |->
                         pruneKnownDefaultsInNewNode(Append(path, k), src[k])]
        new == {k \in DOMAIN candidate : ~isKnownDefaultValue(Append(path, k), candidate[k])}
    IN [k \in DOMAIN dst \cup new |->
           IF k \in new THEN candidate[k]
           ELSE IF k \in DOMAIN src THEN merge[dst[k], src[k], Append(path, k)]
           ELSE dst[k]]

(* Mutant: an element's keys are left as they are. *)
mergedElementUnpruned(merged, src) == merged

\* An element of a list, once merged: its keys are those that are rendered.
mergedElement(merged, src) ==
    IF IsMapping(merged) /\ IsMapping(src) THEN pruneMissingMapKeys(merged, src) ELSE merged

mergeSequence(merge, dst, src, path) ==
    LET found == reorderSequenceForMerge(dst, src)
    IN [i \in DOMAIN src |->
           IF found[i] = 0 THEN src[i]
           ELSE mergedElement(merge[dst[found[i]], src[i], path], src[i])]

mergeNodePreserve(original, generated, path) ==
    LET merge[dst \in Nodes(original), src \in Nodes(generated), p \in Paths] ==
          CASE IsMapping(src) ->
                 Mapping(IF IsMapping(dst) THEN mergeMappingPreserve(merge, dst.map, src.map, p)
                         ELSE src.map)
            [] IsSequence(src) ->
                 IF dst = Null /\ src.seq = <<>> THEN dst
                 ELSE Sequence(mergeSequence(merge, IF IsSequence(dst) THEN dst.seq ELSE <<>>,
                                             src.seq, p))
            [] OTHER -> src
    IN merge[original, generated, path]

\* The mappings whose keys a user may delete: what is not rendered goes.
pruneMappingToGeneratedKeys(root, generated, key) ==
    CASE key \notin DOMAIN root -> root
      [] key \in DOMAIN root /\ key \notin DOMAIN generated ->
           IF key = "oauth-model-alias" THEN [root EXCEPT ![key] = Mapping(<<>>)]
           ELSE Restrict(root, DOMAIN root \ {key})
      [] OTHER ->
           [root EXCEPT ![key] = IF IsMapping(@) /\ IsMapping(generated[key])
                                 THEN pruneMissingMapKeys(@, generated[key])
                                 ELSE generated[key]]

\* The file's document after the configuration has been saved into it.
SaveConfigPreserveComments(original, generated) ==
    LET excluded == pruneMappingToGeneratedKeys(original.map, generated.map, "oauth-excluded-models")
        pruned == pruneMappingToGeneratedKeys(excluded, generated.map, "oauth-model-alias")
    IN mergeNodePreserve(Mapping(pruned), generated, <<>>)
=============================================================================

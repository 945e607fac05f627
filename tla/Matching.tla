------------------------------ MODULE Matching ------------------------------
(***************************************************************************)
(* How two media are compared (perceptual.py and av_fingerprint.py), from  *)
(* what the signal processing yields: the transform coefficients and the   *)
(* grey pixels of a picture, the coefficients of the frames of a video,    *)
(* the band energies of a sound, and the blocks of a file.                 *)
(*                                                                         *)
(* A hash is the set of its bits that are one.  A similarity is a fraction *)
(* <<part, whole>>; a match percentage is a number of tenths of a percent, *)
(* to which the code rounds it.  Embeddings are compared by the constant   *)
(* Cosine, in percent.                                                     *)
(***************************************************************************)
EXTENDS Integers, Sequences, FiniteSets, FiniteSetsExt, Functions

CONSTANTS
    Media,      \* the media there are
    Raw,        \* Raw[m]: what decoding medium m yields
    Bit,        \* the bits of a perceptual hash, one for each coefficient
    Mean,       \* the coefficient of the mean, left out of the hash
    Band,       \* the bits of one sound print
    Cosine,     \* Cosine[e][f]: the cosine of two embeddings, in percent
    Nothing,    \* stands for a picture that cannot be decoded
    MaxFrames,  \* MAX_FRAMES
    MaxSound,   \* AUDIO_MAX_SECONDS, in windows of the transform
    MinFrames,  \* MIN_FRAME_OVERLAP
    MinSounds   \* MIN_AUDIO_OVERLAP

ASSUME MatchingAssumption ==
    /\ IsFiniteSet(Bit) /\ Mean \in Bit
    /\ Cardinality(Bit) % 2 = 0
    /\ IsFiniteSet(Band) /\ Band # {} /\ Band \subseteq Nat
    /\ {MaxFrames, MaxSound} \subseteq Nat
    /\ MinFrames \in Nat \ {0}
    /\ MinSounds \in Nat \ {0}
    /\ \A m \in Media :
          /\ Raw[m].frames \in Seq([Bit -> Int])
          /\ Raw[m].sound \in Seq(Seq(Int))
          /\ Raw[m].blocks \in Seq(UNION {Range(Raw[n].blocks) : n \in Media})
          /\ Raw[m].picture # Nothing =>
                /\ Raw[m].picture.coeffs \in [Bit -> Int]
                /\ Raw[m].picture.pixels \in Seq(Seq(Int))
                /\ \A n \in Media : Raw[n].picture # Nothing =>
                      Cosine[Raw[m].picture.embedding]
                            [Raw[n].picture.embedding] \in -100 .. 100

-----------------------------------------------------------------------------
(* phash: the coefficients above the median.  There is an odd number of    *)
(* them, so more than half of them are smaller.                            *)
PHash(coeffs) ==
    LET used == Bit \ {Mean}
        Smaller(b) == {c \in used : coeffs[c] < coeffs[b]}
    IN  {b \in used : 2 * Cardinality(Smaller(b)) > Cardinality(used)}

(* dhash: the pixels brighter than their left neighbour.                   *)
DHash(pixels) ==
    UNION {{<<r, c>> : c \in {c \in 2 .. Len(pixels[r]) :
                                 pixels[r][c] > pixels[r][c - 1]}}
              : r \in DOMAIN pixels}

First(s, most) == SubSeq(s, 1, Min({Len(s), most}))

(* extract_frame_hashes: none when the frames cannot be decoded.           *)
FrameHashes(frames) ==
    LET sampled == First(frames, MaxFrames)
    IN  [n \in DOMAIN sampled |-> PHash(sampled[n])]

(* extract_audio_pcm and audio_fingerprint_bits: whether the step from a   *)
(* band to the next has grown since the window before.                     *)
SoundPrints(energies) ==
    LET heard == First(energies, MaxSound)
        Step(n, b) == heard[n][b] - heard[n][b + 1]
    IN  [n \in 1 .. Len(heard) - 1 |->
            {b \in Band : Step(n + 1, b) > Step(n, b)}]

(* chunk_fingerprints: hashes of windows of two strides each.              *)
Chunks(blocks) ==
    IF Len(blocks) <= 2
    THEN {blocks}
    ELSE {SubSeq(blocks, n, n + 1) : n \in 1 .. Len(blocks) - 1}

(* fingerprint_av_bytes: a video with or without sound, or a sound.        *)
AVFingerprint(raw) ==
    LET frames == FrameHashes(raw.frames)
        sounds == SoundPrints(raw.sound)
    IN  [kind   |-> CASE frames # <<>> -> "video"
                      [] frames = <<>> /\ sounds # <<>> -> "audio"
                      [] OTHER -> "none",
         frames |-> frames,
         sounds |-> sounds]

(* fingerprint_media: a picture, or else what can be seen or heard, or     *)
(* else only bytes.                                                        *)
Fingerprint(raw) ==
    LET av == AVFingerprint(raw)
        print == [kind |-> "binary", picture |-> Nothing, frames |-> <<>>,
                  sounds |-> <<>>, chunks |-> Chunks(raw.blocks)]
    IN  CASE raw.picture # Nothing ->
                [print EXCEPT
                    !.kind = "image",
                    !.picture = [phash     |-> PHash(raw.picture.coeffs),
                                 dhash     |-> DHash(raw.picture.pixels),
                                 embedding |-> raw.picture.embedding]]
          [] raw.picture = Nothing /\ av.kind # "none" ->
                [print EXCEPT !.kind = av.kind, !.frames = av.frames,
                              !.sounds = av.sounds]
          [] OTHER -> print

-----------------------------------------------------------------------------
Less(f, g) == f[1] * g[2] < g[1] * f[2]
Rounded(f) == (2 * 1000 * f[1] + f[2]) \div (2 * f[2])

(* The scale on which one half, the similarity of unrelated hashes, is 0.  *)
Rescaled(f) == <<Max({0, 2 * f[1] - f[2]}), f[2]>>

(* hash_similarity, with the number of bits that agree as its part.        *)
Agreeing(h, k, bits) == Cardinality(bits) - Cardinality(SymDiff(h, k))
Similarity(h, k) == <<Agreeing(h, k, Bit), Cardinality(Bit)>>

(* The combined score of _match_images and _best_image_registration.       *)
ImageScore(a, b) ==
    LET whole == Cardinality(Bit)
        p == Rescaled(Similarity(a.phash, b.phash))[1]
        d == Rescaled(Similarity(a.dhash, b.dhash))[1]
        e == Max({0, Cosine[a.embedding][b.embedding] - 40})
    IN  <<60 * (45 * p + 20 * d) + 35 * e * whole, 100 * 60 * whole>>

(* _match_image_to_frames: the frame that is most like the picture.        *)
FrameGrab(picture, frames) ==
    Rescaled(<<Max({Agreeing(picture.phash, f, Bit) : f \in Range(frames)}),
               Cardinality(Bit)>>)

(* chunk_similarity.                                                       *)
ChunkScore(a, b) == <<Cardinality(a \cap b), Cardinality(a \cup b)>>

-----------------------------------------------------------------------------
(* Two sequences laid over each other: at offset k the element n of a lies *)
(* over the element n + k of b.                                            *)

Overlap(a, b, k) == {n \in DOMAIN a : n + k \in DOMAIN b}

Aligned(a, b, k, bits) ==
    LET over == Overlap(a, b, k)
    IN  <<Cardinality({x \in over \X bits :
                          x[2] \in a[x[1]] <=> x[2] \in b[x[1] + k]}),
          Cardinality(over) * Cardinality(bits)>>

(* A fault: the range of offsets ends one too early.                       *)
OffsetsShort(a, b, least) ==
    {k \in -(Len(a) - least) .. Len(b) - least - 1 :
        Cardinality(Overlap(a, b, k)) >= least}

(* The offsets at which enough of both lies over each other.               *)
Offsets(a, b, least) ==
    {k \in -(Len(a) - least) .. Len(b) - least :
        Cardinality(Overlap(a, b, k)) >= least}

(* The best similarity among the offsets ks.                               *)
BestAligned(a, b, ks, bits) ==
    IF ks = {} THEN <<0, 1>>
    ELSE LET parts == {Aligned(a, b, k, bits) : k \in ks}
         IN  CHOOSE f \in parts : \A g \in parts : ~Less(f, g)

(* match_frame_sequences.                                                  *)
FramesScore(a, b) ==
    Rescaled(BestAligned(a, b, Offsets(a, b, MinFrames), Bit))

(* Every fourth offset, from the first.                                    *)
Coarse(a, b) ==
    {k \in Offsets(a, b, MinSounds) : (k + Len(a) - MinSounds) % 4 = 0}

(* The offset the coarse search settles on: the first of the best, or 0    *)
(* when none has a bit in common.                                          *)
CoarseBest(a, b) ==
    LET Part(k) == Aligned(a, b, k, Band)
        best == {k \in Coarse(a, b) :
                    /\ Part(k)[1] > 0
                    /\ \A l \in Coarse(a, b) : ~Less(Part(k), Part(l))}
    IN  IF best = {} THEN 0 ELSE Min(best)

(* match_audio_bits: coarse, then every offset less than four away.        *)
SoundsScore(a, b) ==
    LET near == CoarseBest(a, b) - 3 .. CoarseBest(a, b) + 3
    IN  Rescaled(BestAligned(a, b, Offsets(a, b, MinSounds) \cap near, Band))

(* match_av: the channels together, each rounded before.                   *)
Together(v, s) ==
    IF v > 0 /\ s > 0
    THEN Rounded(<<8 * Max({v, s}) + 2 * Min({v, s}), 10 * 1000>>)
    ELSE Max({v, s})

-----------------------------------------------------------------------------
(* match_percentage.                                                       *)
MatchPercentage(a, b) ==
    CASE a.kind = "image" /\ b.kind = "image" ->
            Rounded(ImageScore(a.picture, b.picture))
      [] a.kind = "image" /\ b.frames # <<>> ->
            Rounded(FrameGrab(a.picture, b.frames))
      [] b.kind = "image" /\ a.frames # <<>> ->
            Rounded(FrameGrab(b.picture, a.frames))
      [] a.kind \in {"video", "audio"} /\ b.kind \in {"video", "audio"} ->
            Together(Rounded(FramesScore(a.frames, b.frames)),
                     Rounded(SoundsScore(a.sounds, b.sounds)))
      [] OTHER -> Rounded(ChunkScore(a.chunks, b.chunks))

Hashes == [m \in Media |-> Fingerprint(Raw[m])]
Score == [m \in Media |-> [n \in Media |-> MatchPercentage(Hashes[m], Hashes[n])]]
=============================================================================

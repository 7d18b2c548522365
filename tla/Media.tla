------------------------------- MODULE Media -------------------------------
(***************************************************************************)
(* The plugins for sound: video_audio_extractor and whisper_transcriber.   *)
(*                                                                         *)
(* The demuxer, the decoder, the resampler and the endpoint are external:  *)
(* a file is the packets it holds, a packet the frames it decodes to, an   *)
(* exchange with the endpoint as in Enrichers.  A sound is counted in      *)
(* frames; seconds are a pair (n, d) for n/d.                              *)
(***************************************************************************)
EXTENDS Documents

\* What a packet adds: nothing when it is of another track or corrupt.
PacketFrames(p, track) == IF p.track = track /\ p.state = "ok" THEN p.frames ELSE 0
Fatal(p, track) == p.state = "unreadable" \/ (p.track = track /\ p.state = "fatal")

\* The packets in order, until the limit, an error or the end of the file.
ReadPackets(packets, track, max_frames) ==
  FoldLeft(LAMBDA a, p : IF a.over THEN a
                         ELSE IF Fatal(p, track) THEN [a EXCEPT !.over = TRUE, !.err = TRUE]
                         ELSE LET frames == a.frames + PacketFrames(p, track)
                              IN [a EXCEPT !.frames = frames, !.over = p.track = track /\ frames > 0 /\ \E m \in max_frames : frames >= m],
           [frames |-> 0, over |-> FALSE, err |-> FALSE], packets)

\* declared is the rate in the container, rate the one of the decoded sound.
decode(stop, file, cfg) ==
  LET track == IF cfg.track = {} THEN file.default_track ELSE cfg.track \cap file.tracks
      max_frames == {m * Opt(file.declared, 48) : m \in cfg.max_duration_secs}
      all == ReadPackets(file.packets, Only(track), max_frames)
      kept == IF \E m \in cfg.max_duration_secs : all.frames > m * file.rate THEN Only(cfg.max_duration_secs) * file.rate ELSE all.frames
  IN IF ~file.readable \/ track = {} \/ ~file.decoder THEN Err("NonRetryable")
     ELSE IF stop <= 2 THEN Err("Cancelled")
     ELSE IF all.err \/ all.frames = 0 THEN Err("NonRetryable")
     ELSE Ok([frames |-> kept, channels |-> file.channels, rate |-> file.rate])

downmix_to_mono(sound) == [sound EXCEPT !.channels = 1]

\* rubato keeps the length of the sound; the same rate is left alone.
resample(sound, rate) == IF sound.rate = rate THEN sound ELSE [sound EXCEPT !.rate = rate, !.frames = (@ * rate) \div sound.rate]

\* A WAV file: its chunks, each with the length it declares and the bytes that are there.
PCM == 1
IEEE_FLOAT == 3
EXTENSIBLE == 65534
Chunk(id, declared, held) == [id |-> id, declared |-> declared, held |-> held, format |-> 0, inner |-> 0, byte_rate |-> 0]
encode_wav(sound) ==
  [riff |-> TRUE, chunks |-> <<[Chunk("fmt", 16, 16) EXCEPT !.format = PCM, !.byte_rate = sound.rate * sound.channels * 2],
                               Chunk("data", sound.frames * sound.channels * 2, sound.frames * sound.channels * 2)>>]

video_execute(stop, input, cfg) ==
  LET blob == into_bytes(input)
      decoded == decode(stop, blob.ok.data, cfg)
      mixed == IF cfg.mono THEN downmix_to_mono(decoded.ok) ELSE decoded.ok
      name == Opt(filename_id_stem(blob.ok.filename), <<"audio">>)
  IN IF ~IsOk(blob) THEN blob
     ELSE IF blob.ok.mime \notin {"audio", "video"} \/ blob.ok.size = 0 THEN Err("InvalidInput")
     ELSE IF stop <= 1 THEN Err("Cancelled")
     ELSE IF ~IsOk(decoded) THEN decoded
     ELSE IF stop <= 4 THEN Err("Cancelled")
     ELSE Ok([wav |-> encode_wav(resample(mixed, cfg.sample_rate)), mime |-> "audio/wav", filename |-> name,
              audio_seconds |-> <<decoded.ok.frames, decoded.ok.rate>>])

-----------------------------------------------------------------------------
(* whisper_transcriber *)

Held(c) == IF c.declared < c.held THEN c.declared ELSE c.held
Uncompressed(c) == c.format \in {PCM, IEEE_FLOAT} \/ (c.format = EXTENSIBLE /\ Held(c) >= 26 /\ c.inner \in {PCM, IEEE_FLOAT})

\* The length of an uncompressed WAV, from its header; the last chunk of a kind counts.
wav_duration_secs(wav) ==
  LET fmts == SelectSeq(wav.chunks, LAMBDA c : c.id = "fmt" /\ Held(c) >= 16)
      data == SelectSeq(wav.chunks, LAMBDA c : c.id = "data")
  IN IF ~wav.riff \/ (\E i \in DOMAIN fmts : ~Uncompressed(fmts[i])) \/ fmts = <<>> \/ data = <<>> \/ fmts[Len(fmts)].byte_rate = 0 THEN {}
     ELSE {<<Held(data[Len(data)]), fmts[Len(fmts)].byte_rate>>}

\* The seconds the endpoint reports, else the header's, else none: the request is counted.
transcription_usage(duration, wav) ==
  [external_requests |-> 1, audio_seconds |-> IF duration # {} THEN duration ELSE wav_duration_secs(wav)]
NoSeconds == [external_requests |-> 0, audio_seconds |-> {}]

env_var(env, names) == LET set == SelectSeq(names, LAMBDA n : Get(env, n) \ {""} # {}) IN IF set = <<>> THEN {} ELSE Get(env, set[1])
audio_from_env(env) ==
  IF env_var(env, <<"TRANSCRIBE_API_KEY", "LLM_API_KEY">>) = {} THEN {}
  ELSE {[api_key |-> Only(env_var(env, <<"TRANSCRIBE_API_KEY", "LLM_API_KEY">>)),
         base_url |-> Opt(env_var(env, <<"TRANSCRIBE_BASE_URL", "LLM_BASE_URL">>), "openai.com")]}

post_transcription(r) ==
  IF ~r.sent \/ (r.status \notin 200..299 /\ (r.status = 429 \/ r.status \in 500..599)) THEN Err("Retryable")
  ELSE IF r.status \notin 200..299 \/ r.body = {} THEN Err("NonRetryable") ELSE Ok(Only(r.body))

join_segments(segments) == FlattenSeq(Map(LAMBDA s : Opt(s.text, <<>>), segments))

\* The extension goes, the folders stay; no name at all gives a fresh id.
base_id(blob) == sanitize_id(Opt({IF n.dir = <<>> THEN n.stem ELSE n.dir \o <<"/">> \o n.stem : n \in blob.filename}, <<>>))

segment_documents(base, segments) ==
  [i \in DOMAIN segments |->
     Document(sanitize_id(base \o <<"_t", ToString(i - 1)>>), {}, Opt(segments[i].text, <<>>),
              InsertAll(Map(LAMBDA n : KV(<<"start">>, Num(n)), SetToSeq(segments[i].start)) \o Map(LAMBDA n : KV(<<"end">>, Num(n)), SetToSeq(segments[i].end))))]

\* The result and what is metered: the endpoint was paid, whatever its answer is worth.
audio_execute(stop, input, cfg, world) ==
  LET blob == into_bytes(input)
      body == post_transcription(world.reply)
      text == IF body.ok.text \in {{}, {<<>>}} THEN join_segments(body.ok.segments) ELSE Only(body.ok.text)
      docs == IF cfg.segment_documents /\ body.ok.segments # <<>> THEN segment_documents(base_id(blob.ok), body.ok.segments)
              ELSE <<with_id(base_id(blob.ok), text)>>
      refused(e) == [result |-> Err(e), usage |-> NoSeconds]
  IN IF audio_from_env(world.env) = {} THEN refused("InvalidConfig")
     ELSE IF ~IsOk(blob) THEN refused(blob.err)
     ELSE IF blob.ok.mime \notin {"audio", "video"} \/ blob.ok.size = 0 THEN refused("InvalidInput")
     ELSE IF blob.ok.size > cfg.max_bytes THEN refused("NonRetryable")
     ELSE IF stop <= 1 THEN refused("Cancelled")
     ELSE IF ~IsOk(body) THEN refused(body.err)
     ELSE [result |-> IF text = <<>> /\ body.ok.segments = <<>> THEN Err("NonRetryable") ELSE Ok(docs),
           usage |-> transcription_usage(body.ok.duration, blob.ok.data)]
=============================================================================

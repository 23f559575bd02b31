------------------------------ MODULE PartsEon ------------------------------
(***************************************************************************)
(* The chips of EON that the SPI-NOR driver knows, in the order of the     *)
(* vendors' tables: the first entry that matches an id is the one taken.   *)
(***************************************************************************)
EXTENDS SpiNorPart

\* Opcodes of their own.
en25p05_erase_opcodes == {Sector(32, \hd8)}

eon_parts_1 == <<
  NoSfdp("EN25P05", <<\h1c, \h20, \h10>>, 64, {}, NV, 50, [erase3 |-> en25p05_erase_opcodes, wp |-> "wpr_2bp_all"]),
  NoSfdp("EN25F05", <<\h1c, \h31, \h10>>, 64, S4_32, NV, 75, [wp |-> "en25f05_wpr"]),
  NoSfdp("EN25P10", <<\h1c, \h20, \h11>>, 128, {}, NV, 50, [erase3 |-> en25p05_erase_opcodes,
      wp |-> "wpr_2bp_up_ratio"]),
  Meta("EN25F10(meta)", <<\h1c, \h31, \h11>>, 128, S4_32, NV, 75, [fix |-> "en25f10"]),
  NoSfdp("EN25F10", <<\h1c, \h31, \h11>>, 128, S4_32, NV, 75, [wp |-> "en25f05_wpr"]),
  NoSfdp("EN25F10A", <<\h1c, \h31, \h11>>, 128, S4_32_64, NV, 86, [qe |-> "DONT_CARE", qpi |-> "38H_FFH",
      r |-> X2 \cup QPI, p |-> {"1_1_4", "4_4_4"}, wp |-> "wpr_3bp_tb"]),
  Meta("EN25S10(meta)", <<\h1c, \h38, \h11>>, 128, S4_32, NV, 75, [fix |-> "en25s10"]),
  NoSfdp("EN25S10", <<\h1c, \h38, \h11>>, 128, S4_32, NV, 75, [wp |-> "en25s10_wpr"]),
  NoSfdp("EN25S10A", <<\h1c, \h38, \h11>>, 128, S4_32_64, NV, 104, [qe |-> "DONT_CARE", qpi |-> "38H_FFH",
      r |-> X2 \cup QPI, p |-> {"1_1_4", "4_4_4"}, wp |-> "wpr_3bp_tb"]),
  NoSfdp("EN25E10", <<\h1c, \h42, \h11>>, 128, S4_32_64, NV, 86, [r |-> {"1_1_2"}, wp |-> "en25e10_wpr"]),
  NoSfdp("EN25P20", <<\h1c, \h20, \h12>>, 256, S64, NV, 50, [wp |-> "wpr_2bp_up_ratio"]),
  Meta("EN25F20(meta)", <<\h1c, \h31, \h12>>, 256, S4_32, NV, 75, [fix |-> "en25f20"]),
  NoSfdp("EN25F20", <<\h1c, \h31, \h12>>, 256, S4_64, NV, 75, [wp |-> "en25f05_wpr"]),
  NoSfdp("EN25F20A", <<\h1c, \h31, \h12>>, 256, S4_32_64, NV, 86, [qe |-> "DONT_CARE", qpi |-> "38H_FFH",
      r |-> X2 \cup QPI, p |-> {"1_1_4", "4_4_4"}, wp |-> "wpr_3bp_tb"]) >>

eon_parts_2 == <<
  Meta("EN25S20(meta)", <<\h1c, \h38, \h12>>, 256, S4_64, NV, 75, [fix |-> "en25s20"]),
  NoSfdp("EN25S20", <<\h1c, \h38, \h12>>, 256, S4_64, NV, 75, [wp |-> "en25s10_wpr"]),
  NoSfdp("EN25S20A", <<\h1c, \h38, \h12>>, 256, S4_32_64, NV, 104, [qe |-> "DONT_CARE", qpi |-> "38H_FFH",
      r |-> X2 \cup QPI, p |-> {"1_1_4", "4_4_4"}, wp |-> "en25s20a_wpr"]),
  NoSfdp("EN25P40", <<\h1c, \h20, \h13>>, 512, S64, NV, 50, [wp |-> "wpr_3bp_up"]),
  Meta("EN25Q40(meta)", <<\h1c, \h30, \h13>>, 512, S4_64, NV, 80, [qe |-> "DONT_CARE", qpi |-> "38H_FFH",
      r |-> X2 \cup {"1_4_4", "4_4_4"}, p |-> {"4_4_4"}, fix |-> "en25q40"]),
  NoSfdp("EN25Q40", <<\h1c, \h30, \h13>>, 512, S4_64, NV, 100, [qe |-> "DONT_CARE", qpi |-> "38H_FFH",
      r |-> X2 \cup {"1_4_4", "4_4_4"}, p |-> {"4_4_4"}, dual |-> 80, quad |-> 80, wp |-> "en25q40_wpr"]),
  NoSfdp("EN25Q40A", <<\h1c, \h30, \h13>>, 512, S4_32_64, NV, 104, [qe |-> "DONT_CARE", qpi |-> "38H_FFH",
      r |-> X2 \cup {"1_4_4", "4_4_4"}, p |-> {"1_1_4", "4_4_4"}, wp |-> "en25f40a_wpr"]),
  NoSfdp("EN25Q40B", <<\h1c, \h30, \h13>>, 512, S4_32_64, NV50, 86, [qe |-> "DONT_CARE", qpi |-> "38H_FFH",
      r |-> X2 \cup QPI, p |-> {"1_1_4", "4_4_4"}, wp |-> "wpr_3bp_tb_sec_cmp", wpacc |-> "eon_sr1_sr4"]),
  Meta("EN25F40(meta)", <<\h1c, \h31, \h13>>, 512, S4_32, NV, 75, [fix |-> "en25f40"]),
  NoSfdp("EN25F40", <<\h1c, \h31, \h13>>, 512, S4_64, NV, 75, [wp |-> "wpr_3bp_up"]),
  NoSfdp("EN25F40A", <<\h1c, \h31, \h13>>, 512, S4_32_64, NV, 104, [qe |-> "DONT_CARE", qpi |-> "38H_FFH",
      r |-> X2 \cup {"1_4_4", "4_4_4"}, p |-> {"1_1_4", "4_4_4"}, wp |-> "en25f40a_wpr"]),
  Meta("EN25S40(meta)", <<\h1c, \h38, \h13>>, 512, S4_64, NV, 75, [r |-> X2, dual |-> 50, fix |-> "en25s40"]),
  NoSfdp("EN25S40", <<\h1c, \h38, \h13>>, 512, S4_64, NV, 75, [r |-> X2, dual |-> 50, wp |-> "en25s10_wpr"]) >>

eon_parts_3 == <<
  NoSfdp("EN25S40A", <<\h1c, \h38, \h13>>, 512, S4_32_64, NV, 104, [qe |-> "DONT_CARE", qpi |-> "38H_FFH",
      r |-> X2 \cup QPI, p |-> {"1_1_4", "4_4_4"}, wp |-> "en25f40a_wpr"]),
  NoSfdp("EN25E40", <<\h1c, \h42, \h13>>, 512, S4_32_64, NV, 86, [r |-> {"1_1_2"}, wp |-> "en25q40_wpr"]),
  NoSfdp("EN25P80", <<\h1c, \h20, \h14>>, 1024, S64, NV, 50, [wp |-> "wpr_3bp_up"]),
  Meta("EN25Q80", <<\h1c, \h30, \h14>>, 1024, S4_64, NV, 80, [qe |-> "DONT_CARE", qpi |-> "38H_FFH",
      r |-> X2 \cup {"1_4_4", "4_4_4"}, p |-> {"4_4_4"}]),
  NoSfdp("EN25Q80A", <<\h1c, \h30, \h14>>, 1024, S4_64, NV, 100, [qe |-> "DONT_CARE", qpi |-> "38H_FFH",
      r |-> X2 \cup {"1_4_4", "4_4_4"}, p |-> {"4_4_4"}, dual |-> 80, quad |-> 80, wp |-> "en25q40_wpr"]),
  NoSfdp("EN25Q80B", <<\h1c, \h30, \h14>>, 1024, S4_32_64, NV, 104, [qe |-> "DONT_CARE", qpi |-> "38H_FFH",
      r |-> X2 \cup QPI, p |-> {"4_4_4"}, wp |-> "en25q80b_wpr"]),
  NoSfdp("EN25Q80C", <<\h1c, \h30, \h14>>, 1024, S4_32_64, NV50, 86, [qe |-> "DONT_CARE", qpi |-> "38H_FFH",
      r |-> X2 \cup QPI, p |-> {"1_1_4", "4_4_4"}, wp |-> "wpr_3bp_tb_sec_cmp", wpacc |-> "eon_sr1_sr4"]),
  NoSfdp("EN25F80", <<\h1c, \h31, \h14>>, 1024, S4_64, NV, 75, [wp |-> "en25q40_wpr"]),
  Meta("EN25S80(meta)", <<\h1c, \h38, \h14>>, 1024, S4_64, NV, 75, [r |-> X2, dual |-> 50]),
  NoSfdp("EN25S80", <<\h1c, \h38, \h14>>, 1024, S4_64, NV, 75, [r |-> X2, dual |-> 50, wp |-> "wpr_3bp_up"]),
  NoSfdp("EN25S80A", <<\h1c, \h38, \h14>>, 1024, S4_64, NV, 104, [qe |-> "DONT_CARE", qpi |-> "38H_FFH",
      r |-> X2 \cup {"1_4_4", "4_4_4"}, p |-> {"4_4_4"}, wp |-> "en25s40a_wpr"]),
  NoSfdp("EN25S80B", <<\h1c, \h38, \h14>>, 1024, S4_32_64, NV, 104, [qe |-> "DONT_CARE", qpi |-> "38H_FFH",
      r |-> X2 \cup QPI, p |-> {"1_1_4", "4_4_4"}, dc |-> "en25s80b", dcacc |-> "eon_sr3_dc5_4",
      fix |-> "en25qh16b_wpr_4bp_cmp"]) >>

eon_parts_4 == <<
  NoSfdp("EN25P16", <<\h1c, \h20, \h15>>, 2048, S64, NV, 50, [wp |-> "wpr_3bp_up"]),
  Meta("EN25Q16(meta)", <<\h1c, \h30, \h15>>, 2048, S4_64, NV, 80, [qe |-> "DONT_CARE", r |-> X2 \cup {"1_4_4"}]),
  NoSfdp("EN25Q16", <<\h1c, \h30, \h15>>, 2048, S4_64, NV, 80, [qe |-> "DONT_CARE", r |-> X2 \cup {"1_4_4"},
      wp |-> "en25q16_wpr"]),
  NoSfdp("EN25Q16A", <<\h1c, \h30, \h15>>, 2048, S4_64, NV, 80, [qe |-> "DONT_CARE", qpi |-> "38H_FFH",
      r |-> X2 \cup {"1_4_4", "4_4_4"}, p |-> {"4_4_4"}, wp |-> "en25q16a_wpr"]),
  NoSfdp("EN25F16", <<\h1c, \h31, \h15>>, 2048, S4_64, NV, 75, [wp |-> "wpr_3bp_up"]),
  Meta("EN25S16(meta)", <<\h1c, \h38, \h15>>, 2048, S4_32_64, NV, 104, [qe |-> "DONT_CARE", qpi |-> "38H_FFH",
      r |-> X2 \cup {"1_4_4", "4_4_4"}, p |-> {"4_4_4"}, quad |-> 80]),
  NoSfdp("EN25S16", <<\h1c, \h38, \h15>>, 2048, S4_32_64, NV, 104, [qe |-> "DONT_CARE", qpi |-> "38H_FFH",
      r |-> X2 \cup {"1_4_4", "4_4_4"}, p |-> {"4_4_4"}, quad |-> 80, wp |-> "en25q16a_wpr"]),
  NoSfdp("EN25S16A", <<\h1c, \h38, \h15>>, 2048, S4_32_64, NV, 104, [qe |-> "DONT_CARE", qpi |-> "38H_FFH",
      r |-> X2 \cup {"1_4_4", "4_4_4"}, p |-> {"1_1_4", "4_4_4"}, wp |-> "wpr_3bp_tb"]),
  NoSfdp("EN25S16B", <<\h1c, \h38, \h15>>, 2048, S4_32_64, NV, 104, [qe |-> "DONT_CARE", qpi |-> "38H_FFH",
      r |-> X2 \cup QPI, p |-> {"1_1_4", "4_4_4"}, dc |-> "en25s80b", dcacc |-> "eon_sr3_dc5_4",
      fix |-> "en25qh16b_wpr_4bp_cmp"]),
  NoSfdp("EN25QE16A", <<\h1c, \h41, \h15>>, 2048, S4_32_64, NV50, 104, [qe |-> "SR2_BIT1", r |-> X2 \cup X4,
      p |-> {"1_1_4"}, wp |-> "wpr_3bp_tb_sec_cmp", dc |-> "en25qe16a", dcacc |-> "eon_sr3_dc7"]),
  NoSfdp("EN25SE16A", <<\h1c, \h48, \h15>>, 2048, S4_32_64, NV50, 80, [qe |-> "SR2_BIT1", r |-> X2 \cup X4,
      p |-> {"1_1_4"}, wp |-> "wpr_3bp_tb_sec_cmp", dc |-> "en25qe16a", dcacc |-> "eon_sr3_dc7"]) >>

eon_parts_5 == <<
  NoSfdp("EN25QW16A", <<\h1c, \h61, \h15>>, 2048, S4_32_64, NV50, 80, [qe |-> "SR2_BIT1", r |-> X2 \cup X4,
      p |-> {"1_1_4"}, wp |-> "wpr_3bp_tb_sec_cmp", dc |-> "en25qe16a", dcacc |-> "eon_sr3_dc7"]),
  Meta("EN25QH16", <<\h1c, \h70, \h15>>, 2048, S4_64, NV, 104, [qe |-> "DONT_CARE", qpi |-> "38H_FFH",
      r |-> X2 \cup {"1_4_4", "4_4_4"}, p |-> {"4_4_4"}, dual |-> 80, quad |-> 80, fix |-> "en25qh16"]),
  NoSfdp("EN25QH16A", <<\h1c, \h70, \h15>>, 2048, S4_64, NV, 104, [qe |-> "DONT_CARE", qpi |-> "38H_FFH",
      r |-> X2 \cup {"1_4_4", "4_4_4"}, p |-> {"4_4_4"}, dual |-> 80, quad |-> 80, wp |-> "wpr_3bp_tb"]),
  NoSfdp("EN25QH16B", <<\h1c, \h70, \h15>>, 2048, S4_32_64, NV50, 104, [qe |-> "DONT_CARE", qpi |-> "38H_FFH",
      r |-> X2 \cup QPI, p |-> {"1_1_4", "4_4_4"}, dual |-> 86, quad |-> 86, dc |-> "en25s80b",
      dcacc |-> "eon_sr3_dc5_4", fix |-> "en25qh16b_wpr_4bp_cmp"]),
  NoSfdp("EN25P32", <<\h1c, \h20, \h16>>, 4096, S64, NV, 75, [wp |-> "wpr_3bp_up"]),
  Meta("EN25Q32(meta)", <<\h1c, \h30, \h16>>, 4096, S4_64, NV, 104, [qe |-> "DONT_CARE", qpi |-> "38H_FFH",
      r |-> X2 \cup {"1_4_4", "4_4_4"}, p |-> {"4_4_4"}, dual |-> 80, quad |-> 50, wp |-> "en25q32b_wpr",
      fix |-> "en25q32"]),
  NoSfdp("EN25Q32B", <<\h1c, \h30, \h16>>, 4096, S4_64, NV, 104, [qe |-> "DONT_CARE", qpi |-> "38H_FFH",
      r |-> X2 \cup {"1_4_4", "4_4_4"}, p |-> {"4_4_4"}, dual |-> 80, quad |-> 50, wp |-> "en25q32b_wpr"]),
  NoSfdp("EN25Q32C", <<\h1c, \h30, \h16>>, 4096, S4_32_64, NV50, 104, [qe |-> "DONT_CARE", qpi |-> "38H_FFH",
      r |-> X2 \cup QPI, p |-> {"1_1_4", "4_4_4"}, wp |-> "en25q32b_wpr"]),
  NoSfdp("EN25Q32", <<\h1c, \h33, \h16>>, 4096, S4_64, NV, 100, [qe |-> "DONT_CARE", r |-> X2 \cup {"1_4_4"},
      dual |-> 80, quad |-> 80, wp |-> "wpr_3bp_up"]),
  Meta("EN25S32(meta)", <<\h1c, \h38, \h16>>, 4096, S4_64, NV, 104, [qe |-> "DONT_CARE", qpi |-> "38H_FFH",
      r |-> X2 \cup {"1_4_4", "4_4_4"}, p |-> {"4_4_4"}, quad |-> 80, fix |-> "en25s32"]),
  NoSfdp("EN25S32", <<\h1c, \h38, \h16>>, 4096, S4_64, NV, 104, [qe |-> "DONT_CARE", qpi |-> "38H_FFH",
      r |-> X2 \cup {"1_4_4", "4_4_4"}, p |-> {"4_4_4"}, quad |-> 80, wp |-> "en25q32b_wpr"]) >>

eon_parts_6 == <<
  NoSfdp("EN25S32A", <<\h1c, \h38, \h16>>, 4096, S4_32_64, NV, 104, [qe |-> "DONT_CARE", qpi |-> "38H_FFH",
      r |-> X2 \cup QPI, p |-> {"1_1_4", "4_4_4"}, wp |-> "wpr_3bp_tb_sec_cmp", wpacc |-> "eon_sr1_sr4",
      dc |-> "en25s80b", dcacc |-> "eon_sr3_dc5_4"]),
  NoSfdp("EN25QE32A", <<\h1c, \h41, \h16>>, 4096, S4_32_64, NV50, 104, [qe |-> "SR2_BIT1", r |-> X2 \cup X4,
      p |-> {"1_1_4"}, wp |-> "wpr_3bp_tb_sec_cmp", dc |-> "en25qe16a", dcacc |-> "eon_sr3_dc7"]),
  NoSfdp("EN25SE32A", <<\h1c, \h48, \h16>>, 4096, S4_32_64, NV50, 80, [qe |-> "SR2_BIT1", r |-> X2 \cup X4,
      p |-> {"1_1_4"}, wp |-> "wpr_3bp_tb_sec_cmp", dc |-> "en25qe16a", dcacc |-> "eon_sr3_dc7"]),
  NoSfdp("EN25QW32A", <<\h1c, \h61, \h16>>, 4096, S4_32_64, NV50, 80, [qe |-> "SR2_BIT1", r |-> X2 \cup X4,
      p |-> {"1_1_4"}, wp |-> "wpr_3bp_tb_sec_cmp", dc |-> "en25qe16a", dcacc |-> "eon_sr3_dc7"]),
  Meta("EN25QA32", <<\h1c, \h60, \h16>>, 4096, S4_32_64, NV, 104, [qe |-> "DONT_CARE", qpi |-> "38H_FFH",
      r |-> X2 \cup {"1_4_4", "4_4_4"}, p |-> {"1_1_4", "4_4_4"}, fix |-> "en25qa32"]),
  NoSfdp("EN25QA32A", <<\h1c, \h60, \h16>>, 4096, S4_32_64, NV, 104, [qe |-> "DONT_CARE", qpi |-> "38H_FFH",
      r |-> X2 \cup {"1_4_4", "4_4_4"}, p |-> {"1_1_4", "4_4_4"}, wp |-> "wpr_3bp_tb"]),
  NoSfdp("EN25QA32B", <<\h1c, \h60, \h16>>, 4096, S4_32_64, NV50, 104, [qe |-> "DONT_CARE", qpi |-> "38H_FFH",
      r |-> X2 \cup QPI, p |-> {"1_1_4", "4_4_4"}, fix |-> "en25qa32b_wpr_4bp_tbl"]),
  Meta("EN25QH32", <<\h1c, \h70, \h16>>, 4096, S4_32_64, NV, 104, [qe |-> "DONT_CARE", qpi |-> "38H_FFH",
      r |-> X2 \cup {"1_4_4", "4_4_4"}, p |-> {"1_1_4", "4_4_4"}, fix |-> "en25qh32"]),
  NoSfdp("EN25QH32A", <<\h1c, \h70, \h16>>, 4096, S4_32_64, NV, 104, [qe |-> "DONT_CARE", qpi |-> "38H_FFH",
      r |-> X2 \cup {"1_4_4", "4_4_4"}, p |-> {"1_1_4", "4_4_4"}, wp |-> "wpr_3bp_tb"]),
  NoSfdp("EN25QH32B", <<\h1c, \h70, \h16>>, 4096, S4_32_64, NV50, 104, [qe |-> "DONT_CARE", qpi |-> "38H_FFH",
      r |-> X2 \cup QPI, p |-> {"1_1_4", "4_4_4"}, dc |-> "en25s80b", dcacc |-> "eon_sr3_dc5_4",
      fix |-> "en25qa32b_wpr_4bp_tbl"]) >>

eon_parts_7 == <<
  NoSfdp("EN25P64", <<\h1c, \h20, \h17>>, 8192, S64, NV, 75, [wp |-> "wpr_3bp_up_ratio"]),
  NoSfdp("EN25Q64", <<\h1c, \h30, \h17>>, 8192, S4_64, NV, 104, [qe |-> "DONT_CARE", qpi |-> "38H_FFH",
      r |-> X2 \cup {"1_4_4", "4_4_4"}, p |-> {"4_4_4"}, dual |-> 80, quad |-> 50, wp |-> "en25q32b_wpr"]),
  Meta("EN25S64(meta)", <<\h1c, \h38, \h17>>, 8192, S4_64, NV, 104, [qe |-> "DONT_CARE", qpi |-> "38H_FFH",
      r |-> X2 \cup {"1_4_4", "4_4_4"}, p |-> {"4_4_4"}, quad |-> 80, fix |-> "en25s64"]),
  NoSfdp("EN25S64", <<\h1c, \h38, \h17>>, 8192, S4_64, NV, 104, [qe |-> "DONT_CARE", qpi |-> "38H_FFH",
      r |-> X2 \cup {"1_4_4", "4_4_4"}, p |-> {"4_4_4"}, quad |-> 80, wp |-> "en25s64_wpr"]),
  NoSfdp("EN25S64A", <<\h1c, \h38, \h17>>, 8192, S4_32_64, NV, 104, [qe |-> "DONT_CARE", qpi |-> "38H_FFH",
      r |-> X2 \cup {"1_4_4", "4_4_4"}, p |-> {"1_1_4", "4_4_4"}, dc |-> "en25s80b", dcacc |-> "eon_sr3_dc5_4",
      fix |-> "en25qa64a_wpr_4bp_tbl"]),
  NoSfdp("EN25QA64A", <<\h1c, \h60, \h17>>, 8192, S4_32_64, NV50, 104, [qe |-> "DONT_CARE", qpi |-> "38H_FFH",
      r |-> X2 \cup QPI, p |-> {"1_1_4", "4_4_4"}, dc |-> "en25s80b", dcacc |-> "eon_sr3_dc5_4",
      fix |-> "en25qa64a_wpr_4bp_tbl"]),
  Meta("EN25QH64(meta)", <<\h1c, \h70, \h17>>, 8192, S4_64, NV, 104, [qe |-> "DONT_CARE", qpi |-> "38H_FFH",
      r |-> X2 \cup {"1_4_4", "4_4_4"}, p |-> {"4_4_4"}, dual |-> 80, quad |-> 50, fix |-> "en25qh64"]),
  NoSfdp("EN25QH64", <<\h1c, \h70, \h17>>, 8192, S4_64, NV, 104, [qe |-> "DONT_CARE", qpi |-> "38H_FFH",
      r |-> X2 \cup {"1_4_4", "4_4_4"}, p |-> {"4_4_4"}, dual |-> 80, quad |-> 50, wp |-> "wpr_3bp_tb"]),
  NoSfdp("EN25QH64A", <<\h1c, \h70, \h17>>, 8192, S4_32_64, NV50, 104, [qe |-> "DONT_CARE", qpi |-> "38H_FFH",
      r |-> X2 \cup QPI, p |-> {"1_1_4", "4_4_4"}, dc |-> "en25s80b", dcacc |-> "eon_sr3_dc5_4",
      fix |-> "en25qa64a_wpr_4bp_tbl"]),
  Sfdp("EN25QX64A", <<\h1c, \h71, \h17>>, 8192, 104, [wp |-> "wpr_3bp_tb_sec_cmp_ratio"]) >>

eon_parts_8 == <<
  NoSfdp("EN25Q128", <<\h1c, \h30, \h18>>, 16384, S4_64, NV, 104, [qe |-> "DONT_CARE", qpi |-> "38H_FFH",
      r |-> X2 \cup {"1_4_4", "4_4_4"}, p |-> {"4_4_4"}, dual |-> 80, quad |-> 50, wp |-> "en25q32b_wpr"]),
  NoSfdp("EN25QA128A", <<\h1c, \h60, \h18>>, 16384, S4_32_64, NV50, 104, [qe |-> "DONT_CARE", qpi |-> "38H_FFH",
      r |-> X2 \cup QPI, p |-> {"1_1_4", "4_4_4"}, dc |-> "en25s80b", dcacc |-> "eon_sr3_dc5_4",
      fix |-> "en25qa128a_wpr_4bp_tbl"]),
  Meta("EN25QH128(meta)", <<\h1c, \h70, \h18>>, 16384, S4_64, NV, 104, [qe |-> "DONT_CARE", qpi |-> "38H_FFH",
      r |-> X2 \cup {"1_4_4", "4_4_4"}, p |-> {"4_4_4"}, dual |-> 80, quad |-> 50, fix |-> "en25qh128"]),
  NoSfdp("EN25QH128", <<\h1c, \h70, \h18>>, 16384, S4_64, NV, 104, [qe |-> "DONT_CARE", qpi |-> "38H_FFH",
      r |-> X2 \cup {"1_4_4", "4_4_4"}, p |-> {"4_4_4"}, dual |-> 80, quad |-> 50, wp |-> "wpr_3bp_tb"]),
  NoSfdp("EN25QH128A", <<\h1c, \h70, \h18>>, 16384, S4_32_64, NV50, 104, [qe |-> "DONT_CARE", qpi |-> "38H_FFH",
      r |-> X2 \cup QPI, p |-> {"1_1_4", "4_4_4"}, dc |-> "en25s80b", dcacc |-> "eon_sr3_dc5_4",
      fix |-> "en25qa128a_wpr_4bp_tbl"]),
  NoSfdp("EN25QX128A", <<\h1c, \h71, \h17>>, 8192, S4_32_64, NV50, 104, [qe |-> "SR2_BIT1", qpi |-> "38H_FFH",
      r |-> X2 \cup QPI, p |-> {"1_1_4", "4_4_4"}, wp |-> "wpr_3bp_tb_sec_cmp_ratio"]),
  Sfdp("EN25SX128A", <<\h1c, \h78, \h17>>, 8192, 104, [wp |-> "wpr_3bp_tb_sec_cmp_ratio"]),
  Meta("EN25QH256(meta)", <<\h1c, \h70, \h19>>, 32768, S4_64, NV, 104, [vf |-> {"HIGH_BANK_LATCH"},
      qe |-> "DONT_CARE", qpi |-> "38H_FFH", a4b |-> {"B7H_E9H"}, r |-> X2 \cup {"1_4_4", "4_4_4"}, p |-> {"4_4_4"},
      fix |-> "en25qh256"]),
  NoSfdp("EN25QH256", <<\h1c, \h70, \h19>>, 32768, S4_64, NV, 104, [vf |-> {"HIGH_BANK_LATCH"}, qe |-> "DONT_CARE",
      qpi |-> "38H_FFH", a4b |-> {"B7H_E9H"}, r |-> X2 \cup {"1_4_4", "4_4_4"}, p |-> {"4_4_4"},
      wp |-> "wpr_3bp_tb"]),
  Sfdp("EN25QH256A", <<\h1c, \h70, \h19>>, 32768, 104, [wp |-> "wpr_4bp_tb_cmp", wpacc |-> "eon_sr1_sr4",
      dc |-> "en25s80b", dcacc |-> "eon_sr3_dc5_4"]),
  Sfdp("EN25QX256A", <<\h1c, \h71, \h19>>, 32768, 104, [wp |-> "wpr_4bp_tb_cmp"]) >>

eon_parts_9 == <<
  Sfdp("EN35QX512A", <<\h1c, \h71, \h20>>, 65536, 104, [wp |-> "wpr_4bp_tb_cmp"]) >>

eon_parts ==
  eon_parts_1 \o eon_parts_2 \o eon_parts_3 \o eon_parts_4 \o 
    eon_parts_5 \o eon_parts_6 \o eon_parts_7 \o eon_parts_8 \o 
    eon_parts_9
=============================================================================

---------------------------- MODULE PartsMicron -----------------------------
(***************************************************************************)
(* The chips of Micron and Spansion that the SPI-NOR driver knows, in the  *)
(* order of the vendors' tables: the first entry that matches an id is the *)
(* one taken.                                                              *)
(***************************************************************************)
EXTENDS SpiNorPart

\* Opcodes of their own, where 0 is a page of 256 bytes.
m25p_erase_32k_opcodes == {Sector(32, \hd8)}
m45pe_erase_page_opcodes == {Sector(0, \hdb), Sector(64, \hd8)}
m25pe_erase_page_opcodes == {Sector(0, \hdb), Sector(4, \h20), Sector(64, \hd8)}

s25flxp_erase_opcodes == {Sector(4, \h20), Sector(8, \h40), Sector(64, \hd8)}
s25flxs_erase_opcodes == {Sector(4, \h20), Sector(64, \hd8)}
s25flxs_erase_4b_opcodes == {Sector(4, \h21), Sector(64, \hdc)}
s25flxxd_erase_32k_opcodes == {Sector(32, \hd8)}

s25fxs_id_mask == <<\hff, \hff, \hff, 0, 0, \hff>>

micron_parts_1 == <<
  NoSfdp("M25P05A", <<\h20, \h20, \h10>>, 64, S32, NV, 25, [erase3 |-> m25p_erase_32k_opcodes,
      wp |-> "wpr_2bp_all"]),
  NoSfdp("M25P10A", <<\h20, \h20, \h11>>, 128, S32, NV, 40, [erase3 |-> m25p_erase_32k_opcodes,
      wp |-> "wpr_2bp_up_ratio"]),
  NoSfdp("M45PE10", <<\h20, \h40, \h11>>, 128, {}, NV, 50, [erase3 |-> m45pe_erase_page_opcodes]),
  NoSfdp("M25PE10", <<\h20, \h80, \h11>>, 128, {}, NV, 50, [erase3 |-> m25pe_erase_page_opcodes,
      wp |-> "wpr_2bp_up"]),
  NoSfdp("M25P20", <<\h20, \h20, \h12>>, 256, S64, NV, 25, [wp |-> "wpr_2bp_up"]),
  NoSfdp("M45PE20", <<\h20, \h40, \h12>>, 256, {}, NV, 50, [erase3 |-> m45pe_erase_page_opcodes]),
  NoSfdp("M25PE20", <<\h20, \h80, \h12>>, 256, {}, NV, 50, [erase3 |-> m25pe_erase_page_opcodes,
      wp |-> "wpr_2bp_up"]),
  NoSfdp("M25P40", <<\h20, \h20, \h13>>, 512, S64, NV, 25, [wp |-> "wpr_3bp_up"]),
  NoSfdp("M45PE40", <<\h20, \h40, \h13>>, 512, {}, NV, 50, [erase3 |-> m45pe_erase_page_opcodes]),
  NoSfdp("M25PE40", <<\h20, \h80, \h13>>, 512, {}, NV, 50, [erase3 |-> m25pe_erase_page_opcodes,
      wp |-> "wpr_3bp_up"]),
  NoSfdp("M25P80", <<\h20, \h20, \h14>>, 1024, S64, NV, 25, [wp |-> "wpr_3bp_up"]),
  NoSfdp("M45PE80", <<\h20, \h40, \h14>>, 1024, {}, NV, 50, [erase3 |-> m45pe_erase_page_opcodes]),
  NoSfdp("M25PX80", <<\h20, \h71, \h14>>, 1024, S4_64, NV, 50, [r |-> {"1_1_2"}, p |-> {"1_1_2"},
      wp |-> "wpr_3bp_tb"]),
  NoSfdp("M25PE80", <<\h20, \h80, \h14>>, 1024, {}, NV, 50, [erase3 |-> m25pe_erase_page_opcodes,
      wp |-> "wpr_3bp_up"]),
  NoSfdp("M25P16", <<\h20, \h20, \h15>>, 2048, S64, NV, 25, [wp |-> "wpr_3bp_up"]),
  NoSfdp("M45PE16", <<\h20, \h40, \h15>>, 2048, {}, NV, 50, [erase3 |-> m45pe_erase_page_opcodes]) >>

micron_parts_2 == <<
  NoSfdp("M25PX16", <<\h20, \h71, \h15>>, 2048, S4_64, NV, 50, [r |-> {"1_1_2"}, p |-> {"1_1_2"},
      wp |-> "wpr_3bp_tb"]),
  NoSfdp("M25PE16", <<\h20, \h80, \h15>>, 2048, {}, NV, 50, [erase3 |-> m25pe_erase_page_opcodes,
      wp |-> "wpr_3bp_up"]),
  NoSfdp("N25Q016Ax3", <<\h20, \hba, \h15>>, 2048, S4_64, NV, 108, [qe |-> "NVCR_BIT4", qpi |-> "VENDOR",
      r |-> DPI \cup QPI, p |-> DPI \cup {"1_1_4", "4_4_4"}, wp |-> "wpr_3bp_tb", dc |-> "n25q016",
      dcacc |-> "micron_vcr"]),
  NoSfdp("N25Q016Ax1", <<\h20, \hbb, \h15>>, 2048, S4_64, NV, 108, [qe |-> "NVCR_BIT4", qpi |-> "VENDOR",
      r |-> DPI \cup QPI, p |-> DPI \cup {"1_1_4", "4_4_4"}, wp |-> "wpr_3bp_tb", dc |-> "n25q016",
      dcacc |-> "micron_vcr"]),
  NoSfdp("M25P32", <<\h20, \h20, \h16>>, 4096, S64, NV, 50, [wp |-> "wpr_3bp_up"]),
  NoSfdp("M25PX32", <<\h20, \h71, \h16>>, 4096, S4_64, NV, 50, [r |-> {"1_1_2"}, p |-> {"1_1_2"},
      wp |-> "wpr_3bp_tb"]),
  NoSfdp("N25Q032Ax3", <<\h20, \hba, \h16>>, 4096, S4_64, NV, 108, [qe |-> "NVCR_BIT4", qpi |-> "VENDOR",
      r |-> DPI \cup QPI, p |-> DPI \cup {"1_1_4", "4_4_4"}, wp |-> "wpr_3bp_tb", dc |-> "n25q016",
      dcacc |-> "micron_vcr"]),
  NoSfdp("N25Q032Ax1", <<\h20, \hbb, \h16>>, 4096, S4_64, NV, 108, [qe |-> "NVCR_BIT4", qpi |-> "VENDOR",
      r |-> DPI \cup QPI, p |-> DPI \cup {"1_1_4", "4_4_4"}, wp |-> "wpr_3bp_tb", dc |-> "n25q016",
      dcacc |-> "micron_vcr"]),
  NoSfdp("M25P64", <<\h20, \h20, \h17>>, 8192, S64, NV, 50, [wp |-> "wpr_3bp_up_ratio"]),
  NoSfdp("M25PX64", <<\h20, \h71, \h17>>, 8192, S4_64, NV, 50, [r |-> {"1_1_2"}, p |-> {"1_1_2"},
      wp |-> "wpr_3bp_tb_ratio"]),
  NoSfdp("N25Q064Ax3", <<\h20, \hba, \h17>>, 8192, S4_64, NV, 108, [qe |-> "NVCR_BIT4", qpi |-> "VENDOR",
      r |-> DPI \cup QPI, p |-> DPI \cup {"1_1_4", "4_4_4"}, wp |-> "micron_wpr_4bp_tb", dc |-> "n25q064_3v",
      dcacc |-> "micron_vcr"]) >>

micron_parts_3 == <<
  NoSfdp("N25Q064Ax1", <<\h20, \hbb, \h17>>, 8192, S4_64, NV, 108, [qe |-> "NVCR_BIT4", qpi |-> "VENDOR",
      r |-> DPI \cup QPI, p |-> DPI \cup {"1_1_4", "4_4_4"}, wp |-> "micron_wpr_4bp_tb", dc |-> "n25q016",
      dcacc |-> "micron_vcr"]),
  NoSfdp("M25P128", <<\h20, \h20, \h18>>, 16384, S256, NV, 50, [wp |-> "wpr_3bp_up_ratio"]),
  NoSfdp("N25Q128Ax3", <<\h20, \hba, \h18>>, 16384, S4_64, NV, 108, [qe |-> "NVCR_BIT4", qpi |-> "VENDOR",
      r |-> DPI \cup QPI, p |-> DPI \cup {"1_1_4", "4_4_4"}, wp |-> "micron_wpr_4bp_tb", fix |-> "n25q128ax3",
      dc |-> "n25q016", dcacc |-> "micron_vcr"]),
  Sfdp("MT25QL128ABA", <<\h20, \hba, \h18>>, 16384, 133, [alias |-> {"MT25QL128ABB"}, quad |-> 130,
      wp |-> "micron_wpr_4bp_tb", dc |-> "mt25ql128", dcacc |-> "micron_vcr"]),
  NoSfdp("N25Q128Ax1", <<\h20, \hbb, \h18>>, 16384, S4_64, NV, 108, [qe |-> "NVCR_BIT4", qpi |-> "VENDOR",
      r |-> DPI \cup QPI, p |-> DPI \cup {"1_1_4", "4_4_4"}, wp |-> "micron_wpr_4bp_tb", fix |-> "n25q128ax1",
      dc |-> "n25q016", dcacc |-> "micron_vcr"]),
  Sfdp("MT25QU128ABA", <<\h20, \hbb, \h18>>, 16384, 166, [alias |-> {"MT25QU128ABB"}, quad |-> 145,
      wp |-> "micron_wpr_4bp_tb", dc |-> "mt25qu128", dcacc |-> "micron_vcr"]),
  NoSfdp("N25Q256Ax3", <<\h20, \hba, \h19>>, 32768, S4_64, NV, 108, [qe |-> "NVCR_BIT4", qpi |-> "VENDOR",
      a4b |-> {"WREN_B7H_E9H", "EAR", "OPCODE"}, r |-> DPI \cup QPI, p |-> DPI \cup {"1_1_4", "4_4_4"},
      wp |-> "micron_wpr_4bp_tb", fix |-> "n25q256ax3", dc |-> "n25q016", dcacc |-> "micron_vcr"]),
  Sfdp("MT25QL256ABA", <<\h20, \hba, \h19>>, 32768, 133, [wp |-> "micron_wpr_4bp_tb", dc |-> "mt25ql256",
      dcacc |-> "micron_vcr"]),
  NoSfdp("N25Q256Ax1", <<\h20, \hbb, \h19>>, 32768, S4_64, NV, 108, [qe |-> "NVCR_BIT4", qpi |-> "VENDOR",
      a4b |-> {"WREN_B7H_E9H", "EAR", "OPCODE"}, r |-> DPI \cup QPI, p |-> DPI \cup {"1_1_4", "4_4_4"},
      wp |-> "micron_wpr_4bp_tb", fix |-> "n25q256ax1", dc |-> "n25q016", dcacc |-> "micron_vcr"]),
  Sfdp("MT25QU256ABA", <<\h20, \hbb, \h19>>, 32768, 166, [quad |-> 156, wp |-> "micron_wpr_4bp_tb",
      dc |-> "mt25qu256", dcacc |-> "micron_vcr"]) >>

micron_parts_4 == <<
  NoSfdp("N25Q512Ax3", <<\h20, \hba, \h20>>, 65536, S4_64, NV, 108, [qe |-> "NVCR_BIT4", qpi |-> "VENDOR",
      a4b |-> {"WREN_B7H_E9H", "EAR", "OPCODE"}, r |-> DPI \cup QPI, p |-> DPI \cup {"1_1_4", "4_4_4"},
      wp |-> "micron_wpr_4bp_tb", fix |-> "n25q512ax3", dc |-> "n25q016", dcacc |-> "micron_vcr"]),
  Sfdp("MT25QL512ABB", <<\h20, \hba, \h20>>, 65536, 133, [quad |-> 108, wp |-> "micron_wpr_4bp_tb",
      dc |-> "mt25ql512", dcacc |-> "micron_vcr"]),
  NoSfdp("N25Q512Ax1", <<\h20, \hbb, \h20>>, 65536, S4_64, NV, 108, [qe |-> "NVCR_BIT4", qpi |-> "VENDOR",
      a4b |-> {"WREN_B7H_E9H", "EAR", "OPCODE"}, r |-> DPI \cup QPI, p |-> DPI \cup {"1_1_4", "4_4_4"},
      wp |-> "micron_wpr_4bp_tb", fix |-> "n25q512ax1", dc |-> "n25q016", dcacc |-> "micron_vcr"]),
  Sfdp("MT25QU512ABB", <<\h20, \hbb, \h20>>, 65536, 166, [quad |-> 133, wp |-> "micron_wpr_4bp_tb",
      dc |-> "mt25qu512", dcacc |-> "micron_vcr"]),
  NoSfdp("N25Q00AAx3", <<\h20, \hba, \h21>>, 131072, S4_64, NV, 108, [qe |-> "NVCR_BIT4", qpi |-> "VENDOR",
      a4b |-> {"WREN_B7H_E9H", "EAR", "OPCODE"}, r |-> DPI \cup QPI, p |-> DPI \cup {"1_1_4", "4_4_4"},
      wp |-> "micron_wpr_4bp_tb", fix |-> "n25q00aax3", dc |-> "n25q016", dcacc |-> "micron_vcr"]),
  Sfdp("MT25QL01GBBB", <<\h20, \hba, \h21>>, 131072, 133, [quad |-> 108, wp |-> "micron_wpr_4bp_tb",
      dc |-> "mt25ql512", dcacc |-> "micron_vcr"]),
  NoSfdp("N25Q00AAx1", <<\h20, \hbb, \h21>>, 131072, S4_64, NV, 108, [qe |-> "NVCR_BIT4", qpi |-> "VENDOR",
      a4b |-> {"WREN_B7H_E9H", "EAR", "OPCODE"}, r |-> DPI \cup QPI, p |-> DPI \cup {"1_1_4", "4_4_4"},
      wp |-> "micron_wpr_4bp_tb", fix |-> "n25q00aax1", dc |-> "n25q016", dcacc |-> "micron_vcr"]),
  Sfdp("MT25QU01GBBB", <<\h20, \hbb, \h21>>, 131072, 166, [quad |-> 150, wp |-> "micron_wpr_4bp_tb",
      dc |-> "mt25qu01g", dcacc |-> "micron_vcr"]),
  Sfdp("MT25QL02GCBB", <<\h20, \hba, \h22>>, 262144, 133, [quad |-> 108, wp |-> "micron_wpr_4bp_tb",
      dc |-> "mt25ql512", dcacc |-> "micron_vcr"]),
  Sfdp("MT25QU02GCBB", <<\h20, \hbb, \h22>>, 262144, 166, [quad |-> 133, wp |-> "micron_wpr_4bp_tb",
      dc |-> "mt25qu512", dcacc |-> "micron_vcr"]) >>

micron_parts ==
  micron_parts_1 \o micron_parts_2 \o micron_parts_3 \o micron_parts_4

spansion_parts_1 == <<
  Entry("S25FL001D", NoId, 128, S32 \cup NV \cup Bypass, {"1_1_1"}, 25, [
      erase3 |-> s25flxxd_erase_32k_opcodes, wp |-> "wpr_2bp_up_ratio"]),
  Entry("S25FL002D", NoId, 256, S64 \cup NV \cup Bypass, {"1_1_1"}, 25, [
      wp |-> "wpr_2bp_up_ratio"]),
  Entry("S25FL004D", NoId, 512, S64 \cup NV \cup Bypass, {"1_1_1"}, 25, [
      wp |-> "wpr_3bp_up"]),
  Entry("S25FL004A", <<\h01, \h02, \h12>>, 512, S64 \cup NV \cup Bypass, {"1_1_1"}, 50, [
      alias |-> {"S25FL040A0LxxI00"}, wp |-> "wpr_3bp_up"]),
  Entry("S25FL040A0LxxI01", <<\h01, \h02, \h25>>, 512, {"NO_OP"}, {}, 0, Plain),
  Entry("S25FL040A0LxxI02", <<\h01, \h02, \h26>>, 512, {"NO_OP"}, {}, 0, Plain),
  Entry("S25FL204K", <<\h01, \h40, \h13>>, 512, S4_64 \cup NV \cup Bypass, {"1_1_1"}, 85, [
      r |-> {"1_1_2"}, wp |-> "s25fl2xk_wpr_4bp"]),
  Entry("S25FL008A", <<\h01, \h02, \h13>>, 1024, S64 \cup NV \cup Bypass, {"1_1_1"}, 50, [
      wp |-> "wpr_3bp_up"]),
  Entry("S25FL208K", <<\h01, \h40, \h14>>, 1024, S4_64 \cup NV \cup Bypass, {"1_1_1"}, 76, [
      r |-> {"1_1_2"}, wp |-> "s25fl2xk_wpr_4bp"]),
  Entry("S25FL016A", <<\h01, \h02, \h14>>, 2048, S64 \cup NV \cup Bypass, {"1_1_1"}, 50, [
      wp |-> "wpr_3bp_up"]),
  Entry("S25FLx16K", <<\h01, \h40, \h15>>, 2048, S4_64 \cup NV \cup BypassMeta, {"1_1_1"}, 65, [
      r |-> {"1_1_2"}, fix |-> "s25flx16k"]),
  Entry("S25FL116K", <<\h01, \h40, \h15>>, 2048, S4_64 \cup NV50 \cup Bypass, {"1_1_1"}, 104, [
      qe |-> "SR2_BIT1_WR_SR1", r |-> X2 \cup X4, wp |-> "wpr_3bp_tb_sec_cmp", dc |-> "s25fl1xxk",
      dcacc |-> "spansion_sr3_dc3_0", fix |-> "s25fl1xk", ops |-> "s25fl1xk"]),
  Entry("S25FL216K", <<\h01, \h40, \h15>>, 2048, S4_64 \cup NV \cup Bypass, {"1_1_1"}, 65, [
      r |-> {"1_1_2"}, wp |-> "s25fl216k_wpr_4bp"]),
  Entry("S25FL032P", <<\h01, \h02, \h15, \h4d>>, 4096, NV \cup Bypass, {"1_1_1"}, 108, [
      qe |-> "SR2_BIT1_WR_SR1", r |-> X2 \cup X4, p |-> {"1_1_4"}, erase3 |-> s25flxp_erase_opcodes, dual |-> 80,
      quad |-> 80, fix |-> "s25flxp"]),
  Entry("S25FL032A", <<\h01, \h02, \h15>>, 4096, S64 \cup NV \cup Bypass, {"1_1_1"}, 50, [
      wp |-> "wpr_3bp_up"]) >>

spansion_parts_2 == <<
  Entry("S25FL132K", <<\h01, \h40, \h16>>, 4096, S4_64 \cup NV50 \cup Bypass, {"1_1_1"}, 104, [
      qe |-> "SR2_BIT1_WR_SR1", r |-> X2 \cup X4, wp |-> "wpr_3bp_tb_sec_cmp", dc |-> "s25fl1xxk",
      dcacc |-> "spansion_sr3_dc3_0", fix |-> "s25fl1xk", ops |-> "s25fl1xk"]),
  Entry("S25FL064P", <<\h01, \h02, \h16, \h4d>>, 8192, NV \cup Bypass, {"1_1_1"}, 108, [
      qe |-> "SR2_BIT1_WR_SR1", r |-> X2 \cup X4, p |-> {"1_1_4"}, erase3 |-> s25flxp_erase_opcodes, dual |-> 80,
      quad |-> 80, fix |-> "s25flxp"]),
  Entry("S25FL064A", <<\h01, \h02, \h16>>, 8192, S64 \cup NV \cup Bypass, {"1_1_1"}, 50, [
      wp |-> "wpr_3bp_up_ratio"]),
  Entry("S25FL164K", <<\h01, \h40, \h17>>, 8192, S4_64 \cup NV50 \cup Bypass, {"1_1_1"}, 104, [
      qe |-> "SR2_BIT1_WR_SR1", r |-> X2 \cup X4, wp |-> "wpr_3bp_tb_sec_cmp_ratio", dc |-> "s25fl1xxk",
      dcacc |-> "spansion_sr3_dc3_0", fix |-> "s25fl1xk", ops |-> "s25fl1xk"]),
  Sfdp("S25FL064L", <<\h01, \h60, \h17>>, 8192, 108, [wp |-> "wpr_3bp_tb_sec_cmp_ratio", dc |-> "s25fl064l",
      dcacc |-> "spansion_cr3_dc3_0"]),
  Sfdp("S25FS064S", <<\h01, \h20, \h17, \h4d, \h00, \h81>>, 8192, 133, [mask |-> s25fxs_id_mask, dc |-> "s25fsxxs",
      dcacc |-> "spansion_cr2v_dc3_0", fix |-> "s25fsxs", ops |-> "s25fsxs"]),
  Entry("S25FL128P0XxFI01", <<\h01, \h20, \h18, \h03, \h00>>, 16384, S256 \cup NV \cup Bypass, {"1_1_1"}, 104, [
      wp |-> "wpr_3bp_up_ratio"]),
  Entry("S25FL128P0XxFI00", <<\h01, \h20, \h18, \h03, \h01>>, 16384, S64 \cup NV \cup Bypass, {"1_1_1"}, 104, [
      wp |-> "s25fl128p00_wpr_4bp_up"]),
  Entry("S25FL-S 128Mb, 256KB sector", <<\h01, \h20, \h18, \h4d, \h00, \h80>>, 16384, S256 \cup NV \cup BypassMeta, {"1_1_1"}, 80, [
      qe |-> "SR2_BIT1_WR_SR1", page |-> 512, r |-> X2 \cup X4, p |-> {"1_1_4"}, fix |-> "s25flxs_256k_model"]),
  Entry("S25FL-S 128Mb, hybrid sectors", <<\h01, \h20, \h18, \h4d, \h01, \h80>>, 16384, S64 \cup NV \cup BypassMeta, {"1_1_1"}, 80, [
      qe |-> "SR2_BIT1_WR_SR1", r |-> X2 \cup X4, p |-> {"1_1_4"}, fix |-> "s25flxs_model"]),
  Entry("S25FL128Sxxxxxx1", <<\h01, \h20, \h18, \h4d, \h00, \h80>>, 16384, S256 \cup NV \cup Bypass, {"1_1_1"}, 133, [
      qe |-> "SR2_BIT1_WR_SR1", page |-> 512, r |-> X2 \cup X4, p |-> {"1_1_4"}, dual |-> 104, quad |-> 104,
      dc |-> "s25flxxs", dcacc |-> "spansion_cr1_dc7_6", ops |-> "s25flxs", fix |-> "s25flxs"]),
  Entry("S25FL128Sxxxxxx0", <<\h01, \h20, \h18, \h4d, \h01, \h80>>, 16384, NV \cup Bypass, {"1_1_1"}, 133, [
      qe |-> "SR2_BIT1_WR_SR1", r |-> X2 \cup X4, p |-> {"1_1_4"}, erase3 |-> s25flxs_erase_opcodes, dual |-> 104,
      quad |-> 104, dc |-> "s25flxxs", dcacc |-> "spansion_cr1_dc7_6", ops |-> "s25flxs", fix |-> "s25flxs"]) >>

spansion_parts_3 == <<
  Sfdp("S25FS128S", <<\h01, \h20, \h18, \h4d, \h00, \h81>>, 16384, 133, [mask |-> s25fxs_id_mask, dc |-> "s25fsxxs",
      dcacc |-> "spansion_cr2v_dc3_0", fix |-> "s25fsxs", ops |-> "s25fsxs"]),
  Entry("S25FL129P0Xxxx01", <<\h01, \h20, \h18, \h4d, \h00>>, 16384, S256 \cup NV \cup Bypass, {"1_1_1"}, 108, [
      qe |-> "SR2_BIT1_WR_SR1", r |-> X2 \cup X4, p |-> {"1_1_4"}, dual |-> 80, quad |-> 80, fix |-> "s25flxp"]),
  Entry("S25FL129P0Xxxx00", <<\h01, \h20, \h18, \h4d, \h01>>, 16384, NV \cup Bypass, {"1_1_1"}, 108, [
      qe |-> "SR2_BIT1_WR_SR1", r |-> X2 \cup X4, p |-> {"1_1_4"}, erase3 |-> s25flxs_erase_opcodes, dual |-> 80,
      quad |-> 80, fix |-> "s25flxp"]),
  Sfdp("S25FL127S", <<\h01, \h20, \h18, \h4d>>, 16384, 108, [dual |-> 104, quad |-> 104, ops |-> "s25flxs",
      dc |-> "s25fl127s", dcacc |-> "spansion_cr1_dc7_6", fix |-> "s25fl127s"]),
  Sfdp("S25FL128L", <<\h01, \h60, \h18>>, 16384, 133, [wp |-> "wpr_3bp_tb_sec_cmp_ratio", dc |-> "s25fl128l",
      dcacc |-> "spansion_cr3_dc3_0"]),
  Entry("S25FL256Sxxxxxx1", <<\h01, \h02, \h19, \h4d, \h00, \h80>>, 32768, S256 \cup NV \cup Bypass, {"1_1_1"}, 133, [
      qe |-> "SR2_BIT1_WR_SR1", page |-> 512, a4b |-> {"BANK", "OPCODE"}, r |-> X2 \cup X4, p |-> {"1_1_4"},
      dual |-> 104, quad |-> 104, dc |-> "s25flxxs", dcacc |-> "spansion_cr1_dc7_6", ops |-> "s25flxs",
      fix |-> "s25flxs"]),
  Entry("S25FL256Sxxxxxx0", <<\h01, \h02, \h19, \h4d, \h01, \h80>>, 32768, NV \cup Bypass, {"1_1_1"}, 133, [
      qe |-> "SR2_BIT1_WR_SR1", a4b |-> {"BANK", "OPCODE"}, r |-> X2 \cup X4, p |-> {"1_1_4"},
      erase3 |-> s25flxs_erase_opcodes, erase4 |-> s25flxs_erase_4b_opcodes, dual |-> 104, quad |-> 104,
      dc |-> "s25flxxs", dcacc |-> "spansion_cr1_dc7_6", ops |-> "s25flxs", fix |-> "s25flxs"]),
  Sfdp("S25FL256L", <<\h01, \h60, \h19>>, 32768, 133, [wp |-> "wpr_4bp_tb_cmp", dc |-> "s25fl128l",
      dcacc |-> "spansion_cr3_dc3_0"]),
  Sfdp("S25FS256S", <<\h01, \h02, \h19, \h4d, \h00, \h81>>, 32768, 133, [mask |-> s25fxs_id_mask, dc |-> "s25fsxxs",
      dcacc |-> "spansion_cr2v_dc3_0", fix |-> "s25fsxs", ops |-> "s25fsxs"]),
  Sfdp("S25FS512S", <<\h01, \h02, \h20, \h4d, \h00, \h81>>, 65536, 133, [mask |-> s25fxs_id_mask, dc |-> "s25fsxxs",
      dcacc |-> "spansion_cr2v_dc3_0", fix |-> "s25fsxs", ops |-> "s25fsxs"]),
  Entry("S25FL512S", <<\h01, \h02, \h20, \h00, \h00, \h80>>, 65536, {"BYPASS_VENDOR_FIXUPS"}, {}, 133, [
      mask |-> s25fxs_id_mask, dual |-> 104, quad |-> 104, dc |-> "s25flxxs", dcacc |-> "spansion_cr1_dc7_6",
      ops |-> "s25flxs", fix |-> "s25fl512s"]) >>

spansion_parts ==
  spansion_parts_1 \o spansion_parts_2 \o spansion_parts_3
=============================================================================

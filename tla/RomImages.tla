----------------------------- MODULE RomImages ------------------------------
(***************************************************************************)
(* The ROMs of the KD11-EA's two boards, as kd11ea/roms/rom_images.h lists *)
(* them.  A four-bit ROM is packed seven entries to a number, the first    *)
(* entry leftmost (the last number is padded); an eight-bit PROM has one   *)
(* byte to a number.  Of the control store's 1024 entries the upper half,  *)
(* with MPC 09, is never addressed and is left out.                        *)
(***************************************************************************)
EXTENDS Integers, Sequences

\* Entry a of a four-bit ROM.
Nibble(rom, a) == (rom[a \div 7 + 1] \div 16^(6 - (a % 7))) % 16

\* The control store (M8266).
E97Ucode == <<
  \h1011102, \h0110000, \h0100000, \h0001000, \h0000101, \h1002001, \h0000010,
  \h1110011, \h1111001, \h0100100, \h2111001, \h0001000, \h0000200, \h0000100,
  \h1000000, \h0000000, \h0111001, \h0011100, \h1002900, \h6009019, \hC0000F8,
  \h0100190, \h1990A01, \h1960000, \h9002100, \h000A900, \h002E029, \h0B10022,
  \h20069A9, \hA000000, \h410000A, \h940A090, \h2010001, \h0E01020, \h00EE100,
  \hE0E0201, \h00B2011, \h0100000, \h1100110, \h0000000, \h0100000, \h0001000,
  \h0101110, \h0002011, \h0000111, \h1110000, \h1000000, \h1110000, \h0000100,
  \h0000000, \h0000000, \h0000100, \h0000201, \h1001011, \h1110000, \h0104040,
  \h0900404, \h0009A00, \h009A000, \h0008000, \h0000200, \h0200001, \h9F10102,
  \h0000000, \h1000000, \h0100000, \h0035900, \h0001100, \h2200000, \h0010017,
  \hEFDD003, \h0A00000, \h0100000, \h0000000>>
E98Ucode == <<
  \hC8A8AF8, \h8C890BC, \h8C888B8, \h888CB8B, \h8888C88, \hFC8C88F, \hDB88C80,
  \hCCC8BCC, \hCCCCCCC, \h8888F88, \hCCCFD8F, \hFC8C888, \hBC88888, \h8888C8C,
  \hCC88C88, \hCCC88C8, \h0CCCC8C, \h88CCCB8, \hC88488C, \h9888888, \h48888C8,
  \h888C88C, \h8888884, \h4888888, \h888888C, \h8888880, \h8888888, \hC884888,
  \hC888888, \h88CC888, \h8C4A888, \h8888888, \h8888888, \h8888888, \h8888888,
  \h888888C, \h8888B88, \h88888B4, \h888888B, \h8BBC888, \hB8BB8DC, \h8FCFFB8,
  \hCFB8FF8, \h888C8CC, \h8CC8CCC, \hCC888F8, \hFFC88C8, \h8FF8888, \h8888F88,
  \h8888888, \hB8C8CC8, \h8B8CCCC, \hCC8CC8C, \hC88FCCC, \hCCCBC88, \h8088488,
  \h8888888, \h8888888, \h8888888, \h8C88888, \h8888888, \h848888A, \h88C8F88,
  \h8888888, \h8888888, \h8888888, \h8888888, \h8C8C8C8, \h4888888, \h8C8B888,
  \h8888888, \h88C8888, \h8C88888, \h8000000>>
E99Ucode == <<
  \h5565655, \h6555555, \h5555555, \h1545555, \h4458555, \h5515455, \h5444585,
  \h5554455, \h5555555, \h5555564, \h5555555, \h5545555, \h4558455, \h5885555,
  \h5554586, \h5558854, \h5555545, \h4655554, \h5595755, \h6208855, \h6480955,
  \h4755755, \h5574752, \h556E543, \h5662545, \hE447775, \h8037627, \h5607755,
  \h5646777, \h7755011, \h0555427, \h784287C, \h5588274, \h6758628, \h5576047,
  \h7476565, \h7576555, \h5553455, \h5558565, \h4555448, \h5555555, \h4555546,
  \h5545555, \h8445455, \h4558555, \h5564454, \h5555855, \h5555484, \h5855545,
  \h4555555, \h4855554, \h5445555, \h5585585, \h5845555, \h5554587, \h0558505,
  \h4745058, \h5647766, \h457748A, \h5555B45, \h4145585, \h5554559, \h7655555,
  \h748A535, \h8D54754, \h5065466, \h8577746, \h6555854, \h5775645, \h4504505,
  \h7566857, \h4754545, \h6565555, \h5000000>>
E100Ucode == <<
  \h0000000, \hF0000F0, \h000000F, \h0000000, \h0000000, \h0000000, \h0000000,
  \h0000000, \h0000000, \h000F000, \h0000000, \h0000000, \h0000000, \h0000000,
  \h00F00F0, \h0000000, \h0000000, \h00000F0, \h00100F0, \h0F02031, \h0000008,
  \hF0F0010, \h4120021, \h0104F00, \h2900100, \h0000050, \h0003000, \h0102000,
  \h0200000, \h0F00000, \h200F070, \h0202002, \h010F101, \h9C00F70, \h32C0000,
  \hE0E0000, \hF030F00, \hF0020F0, \h00F0000, \h0000000, \h0000000, \h000000F,
  \h0000000, \h0000000, \h0000000, \h0000000, \h0000000, \h0000000, \h000000F,
  \h000000F, \h0000000, \hF000000, \h0000000, \h0000000, \h0000005, \h0003030,
  \h0000303, \h0000000, \h0000000, \h000AFF0, \h0300400, \h00000A0, \h2000004,
  \h0000000, \h0F1FF00, \h0001090, \h0000000, \h0000000, \h0000000, \h0000000,
  \hC033000, \hF000000, \h0000110, \hD000000>>
E103Ucode == <<
  \hE8CCCCC, \hCCCCCCC, \hCCCCCCC, \hCCCECCC, \hCCCCCCC, \hCDCCCCC, \hCCCCCCC,
  \hCCCCCCC, \hCCCCCCC, \hCCCCCCC, \hCCCCCCC, \hCCC8CCC, \hCCCCCCC, \hCCCCCCC,
  \hCCCCCCC, \hCCCCCCC, \hCCCCCCC, \hCCCCCCC, \hCCCCC8C, \hCCCCCCC, \hCCCCCDC,
  \hCCCCC4C, \hCCCCCCC, \hC4CCCCC, \h4CCCCCC, \hCCCCCCC, \hCCCCCCC, \hCCCCC44,
  \hCCCCCCC, \hCCCCCCC, \hCC4CCCC, \hCCCCCCC, \hCCCCCCC, \hCC8CCCC, \hCCCCCC4,
  \hCCCC4CC, \hCCCCCCC, \hCCCCCCC, \hCC8CCCC, \hCCCCCCC, \hCCCCCCC, \hCCCCCCC,
  \hCCCCCCC, \hCCCCCCC, \hCCCCCCC, \hCCCCCCC, \hCCCCCCC, \hCCCCCCC, \hCCCCCCC,
  \hCCCCCCC, \hCCCCCCC, \hCCCCCCC, \hCCCCCCC, \hCCCCCCC, \hCCCCCCC, \hCCCCCCC,
  \hCCCCCCC, \hC4444CC, \hCCCCCCC, \hCCCCCCC, \hCCCC4CC, \hCCCCCCC, \h4CDCCC4,
  \hCCCCCCC, \hCCCCCCC, \hCCCCCCC, \hCCCCCCC, \hCCC8CCC, \hCCCC44C, \hCCCCCCC,
  \hCCCCCCC, \hCCCCCCC, \hCCCCCCC, \hC000000>>
E104Ucode == <<
  \h3838308, \h0348068, \hBB8AAAA, \h8A035AA, \h00A838B, \h8388034, \h8A00BB0,
  \h3335A33, \h3333003, \h0388800, \h8B348B0, \h0B00AAA, \h50A805A, \hA48A338,
  \hB870880, \h4884880, \h03334A3, \hA03333A, \h3303330, \h0333877, \h4A83033,
  \h3138370, \h7710333, \h37333A0, \h7103703, \h3003330, \h8333033, \h0330377,
  \h03A3333, \h3380044, \h3312003, \h3301830, \h7430333, \h1333238, \h3333301,
  \h3031713, \h3333AB8, \hB775A20, \h8B28B3A, \h0AA8AA8, \hAAAAA00, \h08888A0,
  \h00AB888, \h80A3033, \h0888333, \h333A08A, \h880188B, \hB88808A, \hA8AA0A3,
  \h0AAAAA3, \hA88388A, \h2A08B88, \h8088383, \h3800033, \h333A883, \h3303033,
  \h0300333, \h3111103, \hA333A80, \h3033333, \h0003783, \h3330333, \h1333037,
  \h0080303, \h3370330, \h3307013, \h83333A0, \h0830380, \h3303110, \hA03A333,
  \h3300833, \h0380303, \h1310333, \h3000000>>
E105Ucode == <<
  \h0505055, \h8955505, \h0080000, \h5080000, \h8805850, \h5255805, \h5088005,
  \h8880085, \h8888558, \h9858528, \h5095505, \h5085000, \h0505800, \h0550505,
  \h0508582, \h5545558, \h5888508, \h0288850, \h8940055, \h7000400, \h0050425,
  \h0055004, \h0008084, \h0000008, \h00A0085, \h0080005, \h5000900, \h4080000,
  \h5000000, \h0045844, \h4905880, \h0590408, \h0508400, \h0045004, \h0800490,
  \h0800009, \h0400004, \h0000055, \h4055000, \h8004005, \h0000054, \h8544508,
  \h4500454, \h5808888, \h8545888, \h8800850, \h4548450, \h0454840, \h0400405,
  \h8000005, \h0554450, \h5084045, \h4545848, \h8484588, \h8880550, \h0095240,
  \h9029405, \h0000050, \h0000052, \h0505509, \h9880049, \h9008057, \h0020500,
  \h8852000, \h5509008, \h04A0800, \h5000008, \h8505848, \h0000009, \h058004A,
  \h0800500, \h8052080, \h0902000, \h0000000>>
E106Ucode == <<
  \h88888C8, \h8C888AC, \h8C8999A, \h9998999, \h9998C88, \hCC9C98C, \hCD99C88,
  \hCCC99CC, \hCCCCCCC, \h9888C99, \hCCCCCCC, \hCC9C999, \h9C98999, \h9889C8C,
  \hCCA9C88, \hCCC88C9, \h8CCCC9C, \h98CCC29, \hCC1892C, \h8881880, \h99889C8,
  \h990C80C, \h8019900, \h8088898, \h008809C, \h8999998, \h8899889, \hC091988,
  \hC098999, \h99CC888, \h1C8A909, \h9091890, \h8098090, \h09C8818, \h8098999,
  \h999888C, \h9C98A88, \hA8009A8, \h88A8889, \h999C998, \h99999CC, \h9CCCC98,
  \hCCD8CC8, \h899C9CC, \h9CC8CCC, \hCC899C9, \hCCC88CC, \h8CC8989, \h9899C9A,
  \h9999992, \h98CCCC9, \hA99CCCC, \hCC8CC8C, \hC89CCCC, \hCCC9C89, \h8898898,
  \h9999988, \h8889988, \h9899989, \h8C8889C, \h999888C, \hC889888, \h10C8C88,
  \h9989888, \h8809989, \h8980908, \h8899998, \h8C8C8C9, \h8888889, \h9C99898,
  \h9088889, \h89C9898, \h8C8900C, \h8000000>>
E107Ucode == <<
  \h00000B0, \h0800008, \h0800000, \h0000000, \h0000800, \h8808008, \hB100800,
  \h8880088, \h8888888, \h0000800, \h8888A18, \h9808000, \h0800000, \h0000808,
  \h8800800, \h8880080, \h0888808, \h00888F0, \h80000D8, \h0000000, \h0000080,
  \h00F8008, \h0000000, \h0000000, \h0000008, \h0000000, \h0000000, \h8000000,
  \h8000000, \h0088000, \h0800000, \h0000000, \h0000000, \h0010000, \h0000000,
  \h0000008, \h0100000, \h00C0000, \h0000000, \h0008000, \h00000B8, \h0B89900,
  \h8B10BB0, \h0008088, \h0880888, \h88000B0, \h9980081, \h0BB0000, \h0000B00,
  \h000000D, \h0081880, \h0008888, \h8808808, \h8009888, \h8880800, \h0000000,
  \h0000000, \h0000000, \h0000000, \h0800000, \h0000001, \h0000000, \h0C80800,
  \h0000000, \h0000000, \h0000000, \h0000000, \h0808080, \h0000000, \h0800000,
  \h0C00000, \h0080000, \h0800001, \h0000000>>
E108Ucode == <<
  \h0888080, \h0048838, \hE08DDD3, \h8D80DDD, \h88D8988, \h8A08808, \h0088E08,
  \h0088880, \h9080888, \hD080800, \h0084804, \h8E08DDD, \h40D00D5, \hD005000,
  \h8030800, \h0808800, \h0000888, \h0008030, \h8000838, \h0390078, \h8889028,
  \h3800888, \h0008008, \h8886000, \h088888E, \h6000088, \h0907008, \h8080808,
  \h0088880, \h0380888, \h0803008, \h8080000, \h08008F0, \h0F08088, \h70F0880,
  \hF0F8880, \h3000308, \h3080034, \h003088D, \h8DD8880, \hD5DDD88, \h8888080,
  \h8088080, \h8888800, \h8088080, \h8000888, \h8880008, \h0808088, \hD855803,
  \h0555DD3, \h8808088, \h3808880, \h0008880, \h0808008, \h8800080, \h9050800,
  \h0805000, \h0088802, \h0088880, \h0007330, \h4F80088, \h8808088, \h8080800,
  \h8008080, \h8300308, \h088800F, \h0088888, \h0008080, \h0000805, \h0888088,
  \hF8FF000, \h0880080, \h8880880, \h0000000>>
E109Ucode == <<
  \h795E971, \h0201204, \hDFA0880, \h28A54CC, \h66CE627, \h9F09962, \h23558F0,
  \hE9B4AC8, \h653544A, \hFD60E11, \h1820630, \hADDCD8A, \h00BB033, \h477AF0D,
  \h7A02A08, \h324449E, \h1FAD44E, \hF864608, \hB015600, \h300865C, \h07C058A,
  \h020DE45, \h7BC6FA1, \h16900DE, \h62CC85D, \hF847737, \hD0657B7, \h76124A5,
  \h14DF447, \h707DD31, \h0B40B04, \h40FE7FC, \h32A039A, \hA58D097, \hC8523D4,
  \h1C13334, \h034104A, \h020090C, \h4706170, \h28826B9, \h4FCC46B, \hEE19370,
  \h2C7B17E, \h5D60395, \h36BB2C3, \h9F40F71, \hAA11997, \hF7C55B9, \hF1B4760,
  \hB1C28E0, \h76F7A32, \h0AA0B18, \hE6E610D, \h624A93D, \h8A3C011, \h0C91310,
  \h202D101, \h066AA10, \hB000507, \h0B0000B, \h48C0557, \hD50D003, \hAC20E00,
  \h75000F0, \h8020008, \h0C81EA4, \hB0EEF0E, \h0B09F5F, \h55F066D, \h16FE056,
  \h5F55E0E, \h0F060C0, \h3433462, \h0000000>>
E110Ucode == <<
  \h09BDA4C, \h0D17E06, \hC6A2020, \h6460202, \h4646006, \hDB6B604, \h7E46C6B,
  \h76D45B6, \h047E46C, \h6890D46, \hC6D17E1, \h5C6776D, \h16B6047, \hE46C607,
  \h6D06B09, \h47E46C6, \hB76D46B, \h6947E06, \hC78A80C, \hB0F8A98, \hEECFCB8,
  \h0C0CE8A, \hA8AECE8, \h88A80CE, \h89E88EC, \hECACC84, \hCF8ABAC, \hE9F8D8C,
  \hC8CECCC, \hC0ECE8C, \h9AC0CBC, \hC9AAECE, \hC8808E8, \h98A908E, \h8E8C8AC,
  \hECECEC9, \h0EBF045, \h047E701, \h1707441, \h3135757, \h1613575, \h7535640,
  \h5746579, \h75963D6, \h5757365, \h7916743, \h5537574, \h647A759, \h5356470,
  \h7365790, \h4954565, \h0573657, \h9759655, \h6575736, \hD7A76D9, \hF9B9D90,
  \hFDAB909, \h0CC99D0, \hD0DDACD, \h0D0D00B, \h5E50DA4, \hBF0D09B, \h9BF0D0A,
  \hBBC40D0, \h9090005, \h09B9B9D, \hD0CCCCA, \h0D098AB, \hAAD0CC9, \hC9ED08B,
  \h8BDFD0C, \h0CCD0D0, \hCBCDDDE, \h0000000>>

\* Decoding, condition codes, service and byte control (M8266).
E52Image == <<
  \hC288B28, \h8AA88AA, \h8899889, \h9889988, \h9988C28, \h8B288AA, \h88AA889,
  \h9889988, \h9988998, \h8228822, \h88AA88A, \hA889988, \h9988998, \h8998822,
  \h882288A, \hA88AA88, \h9988998, \h8998899, \h8844884, \h488AA88, \hAA88998,
  \h8998899, \h8899884, \h4884488, \hAA88AA8, \h8998899, \h8899889, \h9881188,
  \h1188AA8, \h8AA8899, \h8899889, \h9889988, \h1188118, \h8AA88AA, \h8899889,
  \h9889988, \h9988558, \h85588AA, \h88AA889, \h9889988, \h9988998, \h8558855,
  \h88AA88A, \hA889988, \h9988998, \h8998800, \h880088A, \hA88AA88, \h9988998,
  \h8998899, \h8800880, \h088AA88, \hAA88998, \h8998899, \h8899883, \h3883388,
  \hAA88AA8, \h8998899, \h8899889, \h9883388, \h3388AA8, \h8AA8899, \h8899889,
  \h9889988, \hC288B28, \h8AA88AA, \h8899889, \h9889988, \h9988C28, \h8B288AA,
  \h88AA889, \h9889988, \h9988998, \h8F288B2, \h88AA88A, \hA889988, \h9988998,
  \h89988C2, \h88B288A, \hA88AA88, \h9988998, \h8998899, \h8822882, \h288AA88,
  \hAA88998, \h8998899, \h8899882, \h2882288, \hAA88AA8, \h8998899, \h8899889,
  \h9884488, \h4488AA8, \h8AA8899, \h8899889, \h9889988, \h4488448, \h8AA88AA,
  \h8899889, \h9889988, \h9988118, \h81188AA, \h88AA889, \h9889988, \h9988998,
  \h8118811, \h88AA88A, \hA889988, \h9988998, \h8998855, \h885588A, \hA88AA88,
  \h9988998, \h8998899, \h8855885, \h588AA88, \hAA88998, \h8998899, \h8899880,
  \h0880088, \hAA88AA8, \h8998899, \h8899889, \h9880088, \h0088AA8, \h8AA8899,
  \h8899889, \h9889988, \h3388338, \h8AA88AA, \h8899889, \h9889988, \h9988338,
  \h83388AA, \h88AA889, \h9889988, \h9988998, \h8F288B2, \h88AA88A, \hA889988,
  \h9988998, \h89988C2, \h88B288A, \hA88AA88, \h9988998, \h8998899, \h8800000>>
E53Image == <<
  \hEFDDFFF, \hFF9DDFF, \hFF7FDDF, \hFFFFDDD, \hFFFFDDD, \hDDDFFDD, \hDDDDFFD,
  \hDDDDDFF, \hDDDDDDF, \hFDDDDDD, \hFFDDDDD, \hDFFDDDD, \hDDFFDDD, \hDDDFFDD,
  \hDDDDFFD, \hDDDDDFF, \hDDDDDDF, \hFDDDDDD, \hFFDFDDF, \hFFFF9DD, \hFFFF7FD,
  \hDFFFFFD, \hDDFFFFD, \hDDDDDFF, \hDDDDDDF, \hFDDDDDD, \hFFDDDDD, \hDFFDDDD,
  \hDDFFDDD, \hDDDFFDD, \hDDDDFFD, \hDDDDDFF, \hDDDDDDF, \hFDDDDDD, \hFFDDDDD,
  \hDFFDDDD, \hDDFF000>>
E54Image == <<
  \h4444444, \h4444464, \h4444444, \h4444444, \h2444444, \h4444444, \h4444444,
  \h4444444, \h4444444, \h4444444, \h4444444, \h4444444, \h4C44444, \h4044444,
  \h4444444, \h4444444, \h4444444, \h4444444, \h4444444, \h4444444, \h4444444,
  \h4444444, \h4444444, \h4444444, \h4444444, \h4444444, \h4444444, \h4444444,
  \h4444444, \h4444444, \h4444444, \h4444444, \h4444444, \h4444444, \h4444444,
  \h4444444, \h4444000>>
E59Image == <<
  \hFFEBFFE, \hEFFFFFF, \hFFFFFFF, \hFFFFFFF, \hFFFFFFF, \hFFFFFFF, \hFFFFFFF,
  \hFFFFFFF, \hFFFFFFF, \hFEBEBEB, \hEBEBEBE, \hBEBEEEE, \hEEEEFFE, \hEEEEEEE,
  \hEEEEEEF, \hFEEFFEE, \hDDDDDDD, \hDDDDDDD, \hDDFFFFF, \hFFFFFFF, \hFFFFFFF,
  \hFFFFFFF, \hFFFFFFF, \hFFFFFFF, \hFFFFFFF, \hFFFFFFF, \hFFFFFFF, \hFFF5555,
  \h5555333, \h33333EE, \hEEEEEEF, \hFEEEEEE, \hEEEEEEE, \hEEEEEFF, \hEEDDDDD,
  \hDDDDDDD, \hDDDD000>>
E60Image == <<
  \hFFDFFFC, \hCFFFFFF, \hFFFFFFF, \hFFFFFFF, \hFFFFFFF, \hFFFFFFF, \hFFFFFFF,
  \hFFFFFFF, \hFFFFFFF, \hF2F2F2F, \h2F2F2F2, \hF2FBBBB, \hBBBB22B, \hBBB1100,
  \h000000D, \hD77EEBB, \hFFFFFFF, \hFFFFFFF, \hFFFFFFF, \hFFFFFFF, \hFFFFFFF,
  \hFFFFFFF, \hFFFFFFF, \hFFFFFFF, \hFFFFFFF, \hFFFFFFF, \hFFFFFFF, \hFFFFFFF,
  \hFFFFFFF, \hFFFFFBB, \hBBBBBB2, \h2BBBB11, \h0000000, \h05577EE, \h44FFFFF,
  \hFFFFFFF, \hFFFF000>>
E61Image == <<
  \h5555555, \h5555555, \h5500112, \h2334455, \h5555666, \h6666655, \h5555055,
  \h5555555, \h5555555, \h5555555, \h5555555, \h5550011, \h2233445, \h5555566,
  \h6666665, \h5555575, \h5555555, \h5555555, \h5555555, \h5555555, \h5555001,
  \h1223344, \h2233556, \h6666666, \h5555550, \h5555555, \h5555555, \h5555555,
  \h5555555, \h5555500, \h1122334, \h4223355, \h6666666, \h6555555, \h7555555,
  \h5555555, \h5555000>>
E62Image == <<
  \h74757C7, \hD74757C, \h7D77777, \h7777777, \h7777727, \h372737A, \h7B7A7B7,
  \h7777777, \h7777777, \h774747C, \h7C75757, \hD7D7777, \h7777777, \h7777772,
  \h7272727, \hA7A7A7A, \h7777777, \h7777777, \h7777777, \h7777777, \h7777777,
  \h7777777, \h7777777, \h7777777, \h7777777, \h7777777, \h7777777, \h7777777,
  \h7777777, \h7777777, \h7777777, \h7777777, \h7777777, \h7777777, \h7777777,
  \h7777777, \h7777000>>
E63Image == <<
  \h3CFFDD9, \h96FFFDD, \h99F3FFD, \hD996FFF, \hDD99FFF, \hFFF99FF, \hFFFF99F,
  \hFFFFF99, \hFFFFFF9, \h9FFFFFF, \h11FFFFF, \hF11FFFF, \hFF11FFF, \hFFF11FF,
  \hFFFF11F, \hFFFFF11, \hFFFFFF1, \h1FFFFFF, \h11FFFFF, \hFFFFFFF, \hFFFFFFF,
  \hFFFFFFF, \hFFFFFFF, \hFFFFFFF, \hFFFFFFF, \hFFFFFFF, \hFFFFFFF, \hFFFFFFF,
  \hFFFFFFF, \hFFFFFFF, \hFFFFFFF, \hFFFFFFF, \hFFFFFFF, \hFFFFFFF, \hFFFFFFF,
  \hFFFFFFF, \hFFFF000>>
E68Image == <<
  \hFF8FEFF, \hFFFAFEF, \hFFFF9FE, \hFFF0FBF, \hEFFFFFF, \hFFFFFFF, \hFFFFFFF,
  \hFFFFFFF, \hFFFFFFF, \hFF70767, \h77F7276, \h777F717, \h6777F73, \h7677777,
  \h7777777, \h7777777, \h7777777, \h7777777, \h77CFCFC, \hFCFCFCF, \hCFCFCFC,
  \hFCFCFCF, \hCFCFCFD, \hFDFDFDF, \hDFDFDFD, \hFDFDFDF, \hDFDFDFD, \hFDF4747,
  \h4747474, \h7474747, \h4747474, \h7474747, \hCFCFCFC, \hFCFCFCF, \hCFCFCFC,
  \hFCFCFCF, \hCFCFFFC, \hFFFFFFF, \hCFFFFFF, \hFDFFFFF, \hFF8FFFF, \hFFFFFFF,
  \hFFFFFFF, \hFFFFFFF, \hFFFFFFF, \hFFFFFF7, \h477777F, \h747F777, \hF757F77,
  \h7F70777, \h7777777, \h7777777, \h7777777, \h7777777, \h777777C, \hFCFCFCF,
  \hCFCFCFC, \hFCFCFCF, \hCFCFCFC, \hFCFDFDF, \hDFDFDFD, \hFDFDFDF, \hDFDFDFD,
  \hFDFDFDF, \h4747474, \h7474747, \h4747474, \h7474747, \h4747CFC, \hFCFCFCF,
  \hCFCFCFC, \hFCFCFCF, \hCFCFCFC, \hF000000>>
E69Image == <<
  \hF9F9F9F, \h9FDFDFD, \hFDFDFDF, \hDFDF8F8, \hF8F8333, \h33333FF, \hFFFFFFF,
  \hFFFFFFF, \hAAAAAAE, \hEF9F9F9, \hF9FDFDF, \hDFDFDFD, \hFDFDF8F, \h8F8F833,
  \h333333F, \hFFFFFFF, \hFFFFFFF, \hFAAAAAA, \hEE77777, \h777FFFF, \hFFFFFFF,
  \hFFFFFAA, \hAAAA223, \h3333333, \hFFFFFFF, \hFFFFFFF, \hFFAFAFA, \hFEF7777,
  \h7777FFF, \hFFFFFFF, \hFFFFFFA, \hAAAAA22, \hFFFFFFF, \hFFFFFFF, \hFFFFFFF,
  \hFFFAFAF, \hAFEF000>>
E70Image == <<
  \hFFFFFFF, \hFFFFFFF, \hFFFFFFF, \hFFFFBFB, \hFBF7FFF, \hFFFFFFF, \hFFFFFFF,
  \hFFFFFFF, \hBBBBBB9, \h9FFFFFF, \hFFFFFFF, \hFFFFFFF, \hFFFFFBF, \hBFBF7FF,
  \hFFFFFFF, \hFFFFFFF, \hFFFFFFF, \hFBBBBBB, \h99FFFFF, \hFFFFFFF, \hFFFFFFF,
  \hFFFFFBB, \hBBBB55F, \hFFFFFFF, \hFFFFFFF, \hFFFFFFF, \hFFBFBFB, \hF9FFFFF,
  \hFFFFFFF, \hFFFFFFF, \hFFFFFFB, \hBBBBB55, \hFFFFFFF, \hFFFFFFF, \hFFFFFFF,
  \hFFFBFBF, \hBF5FFFF, \hFFFFFFF, \hFFFFFFF, \hFFFFFFF, \hFBFBFBF, \h7FFFFFF,
  \hFFFFFFF, \hFFFFFFF, \hFFFFBBB, \hBBB99FF, \hFFFFFFF, \hFFFFFFF, \hFFFFFFF,
  \hFFBFBFB, \hF7FFFFF, \hFFFFFFF, \hFFFFFFF, \hFFFFFBB, \hBBBB99F, \hFFFFFFF,
  \hFFFFFFF, \hFFFFFFF, \hFFBBBBB, \hB55FFFF, \hFFFFFFF, \hFFFFFFF, \hFFFFFFB,
  \hFBFBF9F, \hFFFFFFF, \hFFFFFFF, \hFFFFFFF, \hFFFBBBB, \hBB55FFF, \hFFFFFFF,
  \hFFFFFFF, \hFFFFFFF, \hBEBEBE5, \hE000000>>
E71Image == <<
  \hFEEFEFE, \hFEFEFEF, \hEFFEEFF, \hEFEEFEF, \hFEEFFEF, \hEEFFEEF, \hFEEFEFF,
  \hEFEFEFE, \hEFFEFEE, \hFFEEFFE, \hFEFEEFE, \hFEFFEEF, \hEFEFFEE, \hFFEEFFE,
  \hFEFEFEF, \hEFEEFEF, \hFEFEEFF, \hEFEFEFE, \hEFFEEFE, \hFEFEFFE, \hEFFEFEE,
  \hFFEFEEF, \hFEFEFEF, \hEFEEFFE, \hEFFEEFF, \hEFEFEFE, \hFEEFFEF, \hEFEFEEF,
  \hFEFEFEF, \hEEFFEFE, \hEFEFEFF, \hEFEFEFE, \hFEFEFEF, \hEFEFEEF, \hFEFEFEE,
  \hFFEFEFE, \hFEFE000>>
E80Image == <<
  \h2222222, \h2222222, \h2222002, \h2002200, \h2200AAA, \hAAAAAAA, \hAAAAAAA,
  \hA88AA88, \hAA88AA8, \h8000000, \h0000000, \h0000000, \h0000000, \h0000000,
  \h0000000, \h0000000, \h0000000, \h0000000, \h0066666, \h6666666, \h6666664,
  \h4664466, \h4466442, \h0282028, \h262E272, \hB260A26, \h0A260A2, \h60A0000,
  \h0000000, \h0000000, \h0000000, \h0000000, \h0000000, \h0000000, \h0000000,
  \h0000000, \h0000000>>
E107Image == <<
  \h0400000, \h0044400, \h0404000, \h0C00444, \h00C4040, \h0440004, \h4444040,
  \h40044C0, \h044444C, \h4040884, \h00044C8, \h4040408, \h84C0044, \hC84C404,
  \h080C000, \h44C0C04, \h04080CC, \h0044C0C, \hC404804, \h88004C4, \h4884048,
  \h0484004, \hC448440, \h480C080, \h04C4C08, \h40480C0, \h4004C4C, \h0440400,
  \h0080044, \h4008404, \h0000400, \h4440044, \h0400448, \h0044444, \h8404004,
  \h4400444, \h4444000>>
E51Image == <<
  \h00, \h00, \h00, \h00, \h00, \h00, \h00, \h00, \h00, \h00, \h00, \h00,
  \h00, \h00, \h00, \h80, \h40, \h40, \h30, \h51, \h60, \h60, \h00, \h00,
  \h20, \h20, \h70, \h00, \h10, \h44, \h00, \h80>>
E74Image == <<
  \hFE, \hFE, \hFE, \hFE, \hFE, \hFE, \hFE, \hFE, \h3A, \h3A, \h38, \h38,
  \hEC, \hDE, \hDE, \h72, \hFE, \hFE, \hFE, \hFE, \hFE, \hFE, \hFE, \hFE,
  \hFE, \hFE, \hFE, \hFE, \hFE, \hFE, \hFE, \hFE>>
E82Image == <<
  \h47, \h5B, \h0A, \h91, \h11, \h16, \hCA, \h78, \h2A, \h17, \h0D, \h58,
  \h15, \h56, \h00, \h00, \h5F, \h60, \hAA, \h8A, \h44, \h5C, \hF1, \h96,
  \h06, \h14, \h8D, \h00, \h05, \h00, \h00, \h00>>
E83Image == <<
  \h00, \h00, \h05, \h00, \h01, \h00, \h84, \h00, \h82, \h00, \h86, \h00,
  \h80, \h00, \h81, \h00, \h00, \h00, \h05, \h00, \h01, \h00, \h84, \h00,
  \h82, \h00, \h86, \h00, \h01, \h00, \h00, \h00>>
E87Image == <<
  \hC3, \h00, \hF2, \h00, \hCF, \h00, \hD7, \h00, \hE0, \h00, \hF7, \h00,
  \hF4, \h00, \hE7, \h00, \hC4, \h00, \hC7, \h00, \hD2, \h00, \hC9, \h00,
  \hD4, \h00, \hB6, \h00, \hDE, \h00, \h43, \h00>>
E102Image == <<
  \h00, \h00, \h00, \h04, \h00, \h40, \h00, \h14, \h00, \h02, \h00, \h42,
  \h00, \h20, \h00, \h00, \h00, \h80, \h00, \h38, \h00, \h00, \h00, \h30,
  \h00, \h10, \h00, \hFF, \h00, \h01, \h00, \h00>>

\* Memory management (M8265).
KTE74Image == <<
  \hFFFFFFF, \hFFFF3FF, \hF2FFFFF, \hFFFFFFF, \hFFF1FFF, \hFFFFFFF, \hF3FFF2F,
  \hFFFFFFF, \hFFFFFFF, \h1FFFFFF, \hFFFFF3F, \hFF2FFFF, \hFFFFFFF, \hFFFF1FF,
  \hFFFFFFF, \hFF3FFF2, \hFFFFFFF, \hFFFFFFF, \hF1FFFFF, \hFFFFFCB, \hFFFAFFF,
  \hFFFFFFF, \hFFFF3BF, \hFFFFFFF, \hFFCBFFF, \hAFFFFFF, \hFFFFFFF, \hF3BFFFF,
  \hFFFFFFE, \hBFFFAFF, \hFFFFFFF, \hFFFFFBB, \hFFFFFFF, \hFFFDBFF, \hFAFFFFF,
  \hFFFFFFF, \hFF7B000>>
KTE75Image == <<
  \hFFFFFFF, \hFFFF3FF, \hF2FFFFF, \hFFFFFFF, \hFFF1FFF, \hFFFFFFF, \hF3FFF2F,
  \hFFFFFFF, \hFFFFFFF, \h1FFFFFF, \hFFFFF3F, \hFF2FFFF, \hFFFFFFF, \hFFFF1FF,
  \hFFFFFFF, \hFF3FFF2, \hFFFFFFF, \hFFFFFFF, \hF1FFFFF, \hFFFFFCB, \hFFFAFFF,
  \hFFFFFFF, \hFFFF3BF, \hFFFFFFF, \hFFCBFFF, \hAFFFFFF, \hFFFFFFF, \hF3BFFFF,
  \hFFFFFFE, \hBFFFAFF, \hFFFFFFF, \hFFFFFBB, \hFFFFFFF, \hFFFDBFF, \hFAFFFFF,
  \hFFFFFFF, \hFF7B000>>
KTE76Image == <<
  \hFF23FFF, \hFFFFFFF, \hFFFFFFF, \hFFFFFFF, \h23FFFF2, \h3FFFFFF, \hFFFFFFF,
  \hFFFFFFF, \hFFFF23F, \hFFF23FF, \hFFFFFFF, \hFFFFFFF, \hFFFFFFF, \hF23FFFF,
  \h23FFFFF, \hFFFFFFF, \hFFFFFFF, \hFFFFF23, \hFFFFABF, \hFFFFFFF, \hFFFFFFF,
  \hFFFFFFF, \hFFABFFF, \hFABFFFF, \hFFFFFFF, \hFFFFFFF, \hFFFFFFA, \hBFFFFAB,
  \hFFFFFFF, \hFFFFFFF, \hFFFFFFF, \hFFFABFF, \hFFABFFF, \hFFFFFFF, \hFFFFFFF,
  \hFFFFFFF, \hABFF000>>
KTE77Image == <<
  \hFFFFFFF, \hFFFFFFF, \hFFFFFFF, \hFFFFFFF, \hFFFFFFF, \hFFFFFFF, \hFFFFFFF,
  \hFFFFFFF, \hFFFFFFF, \hFFFFFFF, \hFFFFFFF, \hFFFFFFF, \hFFFFFFF, \hFFFFFFF,
  \hFFFFFFF, \hFFFFFFF, \hFFFFFFF, \hFFFFFFF, \hFFFFC3F, \hFFFFFFF, \hFFFFFFF,
  \hFFFFFFF, \hFFC3FFF, \hFC3FFFF, \hFFFFFFF, \hFFFFFFF, \hFFFFFFC, \h3FFFFEB,
  \hFFFFFFF, \hFFFFFFF, \hFFFFFFF, \hFFFEBFF, \hFFD7FFF, \hFFFFFFF, \hFFFFFFF,
  \hFFFFFFF, \hD7FF000>>
KTE83Image == <<
  \h0000000, \h0000000, \h0000000, \h0000000, \h0000133, \h1022013, \h3102201,
  \h3311331, \h1331133, \h1000044, \h4400000, \h0000000, \h4444000, \h0000013,
  \h3146641, \h3310220, \h1331577, \h5133113, \h3100000, \h0000000, \h0000000,
  \h0000000, \h0000001, \h3314664, \h1331022, \h0133157, \h7513311, \h3310000,
  \h0000000, \h0000000, \h0000000, \h0000000, \h1331466, \h4133102, \h2013315,
  \h7751331, \h1331000>>
=============================================================================
